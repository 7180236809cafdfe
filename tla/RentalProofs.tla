---------------------------- MODULE RentalProofs ----------------------------
(***************************************************************************)
(* Proofs about Rental.  Rows are never deleted (Kept), so what a request  *)
(* has read names a complete row until it ends; each property then follows *)
(* from an invariant that also says what the requests under way will do.   *)
(***************************************************************************)
EXTENDS Rental, FiniteSetTheorems, TLAPS

\* A step takes no row away.
Kept == /\ \A i \in Invoice : invoice[i] # NoInvoice => invoice'[i] # NoInvoice
        /\ \A a \in Alloc : alloc[a] # NoAlloc => alloc'[a] # NoAlloc
        /\ \A k \in Key : key[k] # NoKey => key'[k] # NoKey
        /\ \A s \in Sub : sub[s] # NoSub => sub'[s] # NoSub

\* What a request may become in one step.
Sound(r) == r \in ProcType /\ Ready(r, r.pc) /\ (r.pc = "stamp" => Ready(r, r.next))
-----------------------------------------------------------------------------
(* Requests.                                                               *)

\* An idle request works on nothing.
LEMMA IdleIsSound == Sound(Idle)
  BY DEF Sound, Idle, ProcType, Ready, Pcs, Operations

\* What a request works on is still there after the step.
LEMMA ReadyStays ==
    ASSUME Kept, NEW r, NEW pc, Ready(r, pc)
    PROVE  Ready(r, pc)'
  BY DEF Kept, Ready

\* A request moves and the others stay.
LEMMA MoveRequest ==
    ASSUME RequestsOK, Kept, NEW q \in Req, NEW r, Sound(r),
           proc' = [proc EXCEPT ![q] = r]
    PROVE  RequestsOK'
  <1>1. proc' \in [Req -> ProcType]
    BY DEF RequestsOK, Sound
  <1>2. ASSUME NEW p \in Req
        PROVE  /\ Ready(proc[p], proc[p].pc)'
               /\ (At(p, "stamp") => Ready(proc[p], proc[p].next))'
    <2>1. CASE p = q
      <3>1. proc'[p] = r
        BY <2>1 DEF RequestsOK
      <3>2. Ready(r, r.pc)' /\ (r.pc = "stamp" => Ready(r, r.next)')
        BY ReadyStays DEF Sound
      <3>3. QED
        BY <3>1, <3>2 DEF At, Ready
    <2>2. CASE p # q
      <3>1. proc'[p] = proc[p]
        BY <2>2 DEF RequestsOK
      <3>2. QED
        BY <3>1 DEF RequestsOK, At, Ready, Kept
    <2>3. QED
      BY <2>1, <2>2
  <1>3. QED
    BY <1>1, <1>2 DEF RequestsOK

\* No request moves.
LEMMA RestRequests ==
    ASSUME RequestsOK, Kept, UNCHANGED proc
    PROVE  RequestsOK'
  BY DEF RequestsOK, At, Ready, Kept

\* A request ends.
LEMMA DoneRequest ==
    ASSUME RequestsOK, Kept, NEW q \in Req, Done(q)
    PROVE  RequestsOK'
  BY IdleIsSound, MoveRequest DEF Done

\* A request goes on to its next step.
LEMMA GotoRequest ==
    ASSUME RequestsOK, Kept, NEW q \in Req, NEW pc \in Pcs \ {"stamp"}, Goto(q, pc),
           Ready(proc[q], pc)
    PROVE  RequestsOK'
  <1> DEFINE r == [proc[q] EXCEPT !.pc = pc]
  <1>1. proc[q] \in ProcType
    BY DEF RequestsOK
  <1>2. r \in ProcType /\ r.pc = pc /\ r.who = proc[q].who /\ r.on = proc[q].on
        /\ r.via = proc[q].via /\ r.next = proc[q].next
    BY <1>1 DEF ProcType
  <1>3. Sound(r)
    BY <1>2 DEF Sound, Ready
  <1>4. proc' = [proc EXCEPT ![q] = r]
    BY DEF Goto
  <1> HIDE DEF r
  <1>5. QED
    BY <1>3, <1>4, MoveRequest

\* A request begins.
LEMMA EnterRequest ==
    ASSUME RequestsOK, Kept, NEW q \in Req, NEW pc \in Pcs, NEW next, NEW who, NEW on, NEW via,
           Sound([pc |-> pc, next |-> next, who |-> who, on |-> on, via |-> via]),
           Enter(q, pc, next, who, on, via)
    PROVE  RequestsOK'
  BY MoveRequest DEF Enter
-----------------------------------------------------------------------------
(* What a step leaves alone.                                               *)

LEMMA RestTables == TablesOK /\ UNCHANGED tables => TablesOK'
  BY DEF TablesOK, tables

LEMMA RestBooks == BooksOK /\ UNCHANGED books /\ Kept => BooksOK'
  BY DEF BooksOK, books, Kept, NoInvoice, NoSub

LEMMA RestCustody == CustodyOK /\ UNCHANGED custody => CustodyOK'
  BY DEF CustodyOK, custody

\* A step that writes tables only.
TablesStep == TablesOK' /\ Kept /\ UNCHANGED <<books, proc>>
\* A step that writes tables, and of the requests only where q stands.
Progress(q) == TablesOK' /\ Kept /\ UNCHANGED <<books, custody>>

\* Records with one field changed.
LEMMA SaveStatusKeeps ==
    ASSUME TablesOK, NEW s \in Sub, sub[s] # NoSub, NEW status \in {"pending", "active", "closed"},
           SaveStatus(s, status), UNCHANGED <<account, plan, legacy, alloc>>
    PROVE  TablesOK' /\ \A t \in Sub : sub[t] # NoSub => sub'[t] # NoSub
  BY DEF TablesOK, SaveStatus, NoSub

LEMMA SuspendActiveKeeps ==
    ASSUME TablesOK, NEW c \in Customer, alloc' = SuspendActive(c),
           UNCHANGED <<account, plan, legacy, sub>>
    PROVE  TablesOK' /\ \A a \in Alloc : alloc[a] # NoAlloc => alloc'[a] # NoAlloc
  BY DEF TablesOK, SuspendActive, Active, NoAlloc

\* Plans, subscriptions and accounts.
LEMMA AccountsKeepTypes ==
    ASSUME TypeOK, UNCHANGED custody,
           \/ \E p \in Plan : CreatePlan(p) \/ \E status \in {"active", "inactive"} : UpdatePlan(p, status)
           \/ \E s \in Sub : \/ TimePasses(s)
                             \/ \E status \in {"pending", "active"} : UpdateSubscriptionStatus(s, status)
                             \/ \E c \in Customer, p \in Plan, status \in {"pending", "active", "closed"} :
                                   CreateSubscription(s, c, p, status)
           \/ \E c \in Customer : \/ SuspendCustomer(c) \/ ActivateCustomer(c) \/ ActivateSubscription(c)
                                  \/ Register(c)
           \/ \E a \in Alloc : SuspendProxy(a)
    PROVE  TypeOK'
  <1> USE DEF TypeOK, TablesOK, TablesStep, Kept, books, custody
  <1>1. ASSUME NEW p \in Plan, CreatePlan(p) PROVE TablesStep
    BY <1>1 DEF CreatePlan
  <1>2. ASSUME NEW p \in Plan, NEW status \in {"active", "inactive"}, UpdatePlan(p, status)
        PROVE  TablesStep
    BY <1>2 DEF UpdatePlan
  <1>3. ASSUME NEW s \in Sub, TimePasses(s) PROVE TablesStep
    <2>1. sub[s] \in [status : {"pending", "active", "closed"}, customer : Customer,
                      plan : Plan, current : BOOLEAN]
      BY <1>3 DEF TimePasses, NoSub
    <2>2. /\ [sub[s] EXCEPT !.current = FALSE] \in
                 [status : {"pending", "active", "closed"}, customer : Customer,
                  plan : Plan, current : BOOLEAN]
          /\ [sub[s] EXCEPT !.current = FALSE].status = sub[s].status
      BY <2>1
    <2>3. sub' = [sub EXCEPT ![s] = [sub[s] EXCEPT !.current = FALSE]]
      BY <1>3 DEF TimePasses
    <2>4. /\ sub' \in [Sub -> {NoSub} \cup [status : {"pending", "active", "closed"}, customer : Customer,
                                            plan : Plan, current : BOOLEAN]]
          /\ \A t \in Sub : sub[t] # NoSub => sub'[t] # NoSub
      BY <2>1, <2>2, <2>3 DEF NoSub
    <2>5. QED
      BY <1>3, <2>4 DEF TimePasses
  <1>4. ASSUME NEW s \in Sub, NEW status \in {"pending", "active"}, UpdateSubscriptionStatus(s, status)
        PROVE  TablesStep
    BY <1>4, SaveStatusKeeps DEF UpdateSubscriptionStatus
  <1>5. ASSUME NEW s \in Sub, NEW c \in Customer, NEW p \in Plan,
               NEW status \in {"pending", "active", "closed"}, CreateSubscription(s, c, p, status)
        PROVE  TablesStep
    BY <1>5 DEF CreateSubscription, NoSub
  <1>6. ASSUME NEW c \in Customer, SuspendCustomer(c) PROVE TablesStep
    <2>1. /\ alloc' \in [Alloc -> {NoAlloc} \cup [status : {"active", "suspended", "deleted"},
                                                  customer : Customer, proxy : Proxy]]
          /\ \A a \in Alloc : alloc[a] # NoAlloc => alloc'[a] # NoAlloc
      BY <1>6 DEF SuspendCustomer, SuspendActive, Active, NoAlloc
    <2>2. /\ sub' \in [Sub -> {NoSub} \cup [status : {"pending", "active", "closed"}, customer : Customer,
                                            plan : Plan, current : BOOLEAN]]
          /\ \A s \in Sub : sub[s] # NoSub => sub'[s] # NoSub
      BY <1>6, RentalAssumption DEF SuspendCustomer, NoSub
    <2>3. QED
      BY <1>6, <2>1, <2>2 DEF SuspendCustomer, SaveAccount
  <1>7. ASSUME NEW c \in Customer, ActivateCustomer(c) PROVE TablesStep
    BY <1>7 DEF ActivateCustomer, SaveAccount
  <1>8. ASSUME NEW c \in Customer, ActivateSubscription(c) PROVE TablesStep
    BY <1>8 DEF ActivateSubscription
  <1>9. ASSUME NEW c \in Customer, Register(c) PROVE TablesStep
    BY <1>9 DEF Register, SaveAccount
  <1>10. ASSUME NEW a \in Alloc, SuspendProxy(a) PROVE TablesStep
    BY <1>10 DEF SuspendProxy, NoAlloc
  <1>11. TablesStep
    BY <1>1, <1>2, <1>3, <1>4, <1>5, <1>6, <1>7, <1>8, <1>9, <1>10
  <1>12. QED
    BY <1>11, RestBooks, RestCustody, RestRequests

\* Invoices, payments and refunds.
LEMMA PayKeeps ==
    ASSUME TypeOK, NEW i \in Invoice, invoice[i] # NoInvoice, Pay(i),
           UNCHANGED key
    PROVE  TablesOK' /\ BooksOK' /\ Kept
  <1> USE DEF TypeOK
  <1>1. invoice[i].sub \in Sub /\ sub[invoice[i].sub] # NoSub
    BY DEF BooksOK, NoInvoice
  <1>2. TablesOK' /\ \A s \in Sub : sub[s] # NoSub => sub'[s] # NoSub
    BY <1>1, SaveStatusKeeps DEF Pay
  <1>3. /\ invoice' \in [Invoice -> {NoInvoice} \cup [status : {"pending", "paid", "refunded"}, sub : Sub]]
        /\ \A j \in Invoice : invoice[j] # NoInvoice => invoice'[j] # NoInvoice
        /\ \A j \in Invoice : invoice'[j] # NoInvoice => invoice[j] # NoInvoice /\ invoice'[j].sub = invoice[j].sub
    BY DEF BooksOK, Pay, NoInvoice
  <1>4. BooksOK'
    BY <1>2, <1>3 DEF BooksOK, Pay
  <1>5. QED
    BY <1>2, <1>3, <1>4 DEF Kept, Pay

LEMMA InvoicesKeepTypes ==
    ASSUME TypeOK, UNCHANGED custody,
           \/ \E i \in Invoice : \/ MarkInvoicePaid(i) \/ \E s \in Sub : GenerateInvoice(i, s)
                                 \/ \E q \in Req : VerifyInvoicePayment(q, i) \/ RefundInvoice(q, i)
           \/ \E q \in Req : PayVerified(q) \/ RefundPayment(q) \/ RefundFails(q) \/ SaveRefunded(q)
    PROVE  TypeOK'
  <1> USE DEF TypeOK
  <1>0. CustodyOK' /\ UNCHANGED key
    BY RestCustody DEF custody
  <1>1. ASSUME NEW i \in Invoice, MarkInvoicePaid(i) PROVE TypeOK'
    <2>1. TablesOK' /\ BooksOK' /\ Kept
      BY <1>0, <1>1, PayKeeps DEF MarkInvoicePaid
    <2>2. QED
      BY <1>0, <1>1, <2>1, RestRequests DEF MarkInvoicePaid
  <1>2. ASSUME NEW i \in Invoice, NEW s \in Sub, GenerateInvoice(i, s) PROVE TypeOK'
    <2>1. BooksOK'
      BY <1>2 DEF GenerateInvoice, BooksOK, NoInvoice, tables
    <2>2. Kept
      BY <1>0, <1>2 DEF GenerateInvoice, Kept, BooksOK, NoInvoice, tables
    <2>3. QED
      BY <1>0, <1>2, <2>1, <2>2, RestTables, RestRequests DEF GenerateInvoice
  <1>3. ASSUME NEW i \in Invoice, NEW q \in Req, VerifyInvoicePayment(q, i) PROVE TypeOK'
    <2>1. Kept /\ BooksOK'
      BY <1>0, <1>3, RestBooks DEF VerifyInvoicePayment, Kept, books, tables
    <2>2. Sound([pc |-> "pay", next |-> "none", who |-> Nobody, on |-> i, via |-> Nothing])
      BY <1>3 DEF VerifyInvoicePayment, Sound, ProcType, Pcs, Operations, Ready, NoInvoice
    <2>3. RequestsOK'
      BY <1>3, <2>1, <2>2, EnterRequest DEF VerifyInvoicePayment, Pcs
    <2>4. QED
      BY <1>0, <1>3, <2>1, <2>3, RestTables DEF VerifyInvoicePayment
  <1>4. ASSUME NEW i \in Invoice, NEW q \in Req, RefundInvoice(q, i) PROVE TypeOK'
    <2>1. Kept /\ BooksOK'
      BY <1>0, <1>4 DEF RefundInvoice, Kept, BooksOK, tables
    <2>2. Sound([pc |-> "refund", next |-> "none", who |-> Nobody, on |-> i, via |-> Nothing])
      BY <1>4 DEF RefundInvoice, MayRefund, Sound, ProcType, Pcs, Operations, Ready, NoInvoice
    <2>3. RequestsOK'
      BY <1>4, <2>1, <2>2, EnterRequest DEF RefundInvoice, Pcs
    <2>4. QED
      BY <1>0, <1>4, <2>1, <2>3, RestTables DEF RefundInvoice
  <1>5. ASSUME NEW q \in Req, PayVerified(q) PROVE TypeOK'
    <2>1. proc[q].on \in Invoice /\ invoice[proc[q].on] # NoInvoice
      BY <1>5 DEF PayVerified, RequestsOK, Ready, At
    <2>2. TablesOK' /\ BooksOK' /\ Kept
      BY <1>0, <1>5, <2>1, PayKeeps DEF PayVerified
    <2>3. QED
      BY <1>0, <1>5, <2>2, DoneRequest DEF PayVerified
  <1>6. ASSUME NEW q \in Req, RefundPayment(q) PROVE TypeOK'
    <2>1. proc[q].on \in Invoice /\ Ready(proc[q], "refunded")
      BY <1>6 DEF RefundPayment, RequestsOK, Ready, At, Operations
    <2>2. Kept
      BY <1>0, <1>6 DEF RefundPayment, Kept, tables
    <2>3. BooksOK'
      BY <1>6, <2>1 DEF RefundPayment, BooksOK, tables
    <2>4. RequestsOK'
      BY <1>6, <2>1, <2>2, GotoRequest DEF RefundPayment, Pcs
    <2>5. QED
      BY <1>0, <1>6, <2>3, <2>4, RestTables DEF RefundPayment
  <1>7. ASSUME NEW q \in Req, RefundFails(q) PROVE TypeOK'
    <2>1. Kept
      BY <1>0, <1>7 DEF RefundFails, Kept, tables, books
    <2>2. QED
      BY <1>0, <1>7, <2>1, RestTables, RestBooks, DoneRequest DEF RefundFails
  <1>8. ASSUME NEW q \in Req, SaveRefunded(q) PROVE TypeOK'
    <2>1. proc[q].on \in Invoice /\ invoice[proc[q].on] # NoInvoice
      BY <1>8 DEF SaveRefunded, RequestsOK, Ready, At
    <2>2. /\ invoice' \in [Invoice -> {NoInvoice} \cup [status : {"pending", "paid", "refunded"}, sub : Sub]]
          /\ \A j \in Invoice : invoice[j] # NoInvoice => invoice'[j] # NoInvoice
          /\ \A j \in Invoice : invoice'[j] # NoInvoice =>
                invoice[j] # NoInvoice /\ invoice'[j].sub = invoice[j].sub
      BY <1>8, <2>1 DEF BooksOK, SaveRefunded, NoInvoice
    <2>3. Kept /\ BooksOK'
      BY <1>0, <1>8, <2>2 DEF SaveRefunded, Kept, BooksOK, tables
    <2>4. QED
      BY <1>0, <1>8, <2>3, RestTables, DoneRequest DEF SaveRefunded
  <1>9. QED
    BY <1>1, <1>2, <1>3, <1>4, <1>5, <1>6, <1>7, <1>8

\* Suspensions in two statements, and the end of the process.
LEMMA SuspensionsKeepTypes ==
    ASSUME TypeOK, UNCHANGED custody,
           \/ \E q \in Req : \/ SuspendExistingAllocations(q)
                             \/ \E s \in Sub : CloseSubscription(q, s)
                             \/ \E c \in Customer : AbuseSuspendCustomer(q, c)
           \/ Crash
    PROVE  TypeOK'
  <1> USE DEF TypeOK
  <1>0. CustodyOK' /\ UNCHANGED key
    BY RestCustody DEF custody
  <1>1. ASSUME NEW q \in Req, SuspendExistingAllocations(q) PROVE TypeOK'
    <2>1. proc[q].who \in Customer
      BY <1>1 DEF SuspendExistingAllocations, RequestsOK, Ready, At
    <2>2. TablesOK' /\ Kept
      BY <1>0, <1>1, <2>1, SuspendActiveKeeps DEF SuspendExistingAllocations, Kept, books
    <2>3. QED
      BY <1>0, <1>1, <2>2, RestBooks, DoneRequest DEF SuspendExistingAllocations
  <1>2. ASSUME NEW q \in Req, NEW s \in Sub, CloseSubscription(q, s) PROVE TypeOK'
    <2>1. sub[s].customer \in Customer
      BY <1>2 DEF CloseSubscription, TablesOK, NoSub
    <2>2. TablesOK' /\ Kept
      BY <1>0, <1>2, SaveStatusKeeps DEF CloseSubscription, Kept, books
    <2>3. Sound([pc |-> "suspendAllocations", next |-> "none", who |-> sub[s].customer,
                 on |-> Nothing, via |-> Nothing])
      BY <2>1 DEF Sound, ProcType, Pcs, Operations, Ready
    <2>4. RequestsOK'
      BY <1>2, <2>2, <2>3, EnterRequest DEF CloseSubscription, Pcs
    <2>5. QED
      BY <1>0, <1>2, <2>2, <2>4, RestBooks DEF CloseSubscription
  <1>3. ASSUME NEW q \in Req, NEW c \in Customer, AbuseSuspendCustomer(q, c) PROVE TypeOK'
    <2>1. TablesOK' /\ Kept
      BY <1>0, <1>3 DEF AbuseSuspendCustomer, SaveAccount, TablesOK, Kept, books
    <2>2. Sound([pc |-> "suspendAllocations", next |-> "none", who |-> c,
                 on |-> Nothing, via |-> Nothing])
      BY DEF Sound, ProcType, Pcs, Operations, Ready
    <2>3. RequestsOK'
      BY <1>3, <2>1, <2>2, EnterRequest DEF AbuseSuspendCustomer, Pcs
    <2>4. QED
      BY <1>0, <1>3, <2>1, <2>3, RestBooks DEF AbuseSuspendCustomer
  <1>4. CASE Crash
    <2>1. RequestsOK'
      BY <1>4, IdleIsSound DEF Crash, RequestsOK, Sound, At, Ready, Idle
    <2>2. BooksOK' /\ TablesOK'
      BY <1>4, RestTables DEF Crash, BooksOK, tables
    <2>3. QED
      BY <1>0, <2>1, <2>2
  <1>5. QED
    BY <1>1, <1>2, <1>3, <1>4

LEMMA BillingKeepsTypes ==
    ASSUME TypeOK, BillingNext, UNCHANGED custody
    PROVE  TypeOK'
  <1>1. CASE AdminRequest
    BY <1>1, AccountsKeepTypes, InvoicesKeepTypes, SuspensionsKeepTypes DEF AdminRequest
  <1>2. QED
    BY <1>1, AccountsKeepTypes, InvoicesKeepTypes, SuspensionsKeepTypes DEF BillingNext
-----------------------------------------------------------------------------
(* The customer service.                                                   *)

LEMMA Finite ==
    ASSUME NEW c
    PROVE  /\ IsFiniteSet(Between(c)) /\ Cardinality(Between(c)) \in Nat
           /\ IsFiniteSet(Active(c)) /\ Cardinality(Active(c)) \in Nat
  <1>1. Between(c) \subseteq Req /\ Active(c) \subseteq Alloc
    BY DEF Between, Active
  <1>2. QED
    BY <1>1, RentalAssumption, FS_Subset, FS_CardinalityType

\* Whatever a customer asks for names a row of its own.
LEMMA AskIsReady ==
    ASSUME TypeOK, NEW c \in Customer, NEW ask \in Asks(c), NEW r,
           r.who = c, r.on = ask[2]
    PROVE  /\ ask[1] \in Operations /\ Ready(r, ask[1])
           /\ ask[2] \in Alloc \cup Key \cup {Nothing}
  <1>1. CASE ask \in {<<"allocate", Nothing>>, <<"createKey", Nothing>>}
    BY <1>1 DEF Operations, Ready
  <1>2. ASSUME NEW op \in {"release", "rotateProxy", "rotateCredential"}, NEW a \in Mine(c), ask = <<op, a>>
        PROVE  /\ ask[1] \in Operations /\ Ready(r, ask[1])
               /\ ask[2] \in Alloc \cup Key \cup {Nothing}
    <2>1. a \in Alloc /\ alloc[a] # NoAlloc
      BY <1>2, RentalAssumption DEF Mine, NoAlloc
    <2>2. ask[1] = op /\ ask[2] = a
      BY <1>2
    <2>3. QED
      BY <2>1, <2>2 DEF Operations, Ready
  <1>3. ASSUME NEW k \in Key, key[k].customer = c, ask = <<"deleteKey", k>>
        PROVE  /\ ask[1] \in Operations /\ Ready(r, ask[1])
               /\ ask[2] \in Alloc \cup Key \cup {Nothing}
    <2>1. key[k] # NoKey
      BY <1>3, RentalAssumption DEF NoKey
    <2>2. ask[1] = "deleteKey" /\ ask[2] = k
      BY <1>3
    <2>3. QED
      BY <2>1, <2>2 DEF Operations, Ready
  <1>4. QED
    BY <1>1, <1>2, <1>3 DEF Asks

\* Authentication and API keys.
LEMMA KeysKeepTypes ==
    ASSUME TypeOK, UNCHANGED books, NEW q \in Req,
           \/ \E c \in Customer : AuthenticateSession(q, c)
           \/ \E k \in Key : AuthenticateKey(q, k) \/ CreateAPIKey(q, k)
           \/ StampKey(q) \/ DeleteAPIKey(q)
    PROVE  TypeOK'
  <1> USE DEF TypeOK
  <1>1. ASSUME NEW c \in Customer, AuthenticateSession(q, c) PROVE TypeOK'
    <2>1. Kept
      BY <1>1 DEF AuthenticateSession, Kept, tables, custody, books
    <2>2. PICK ask \in Asks(c) : Enter(q, ask[1], "none", c, ask[2], Nothing)
      BY <1>1 DEF AuthenticateSession
    <2> DEFINE r == [pc |-> ask[1], next |-> "none", who |-> c, on |-> ask[2], via |-> Nothing]
    <2>3. r.who = c /\ r.on = ask[2] /\ r.pc = ask[1]
      OBVIOUS
    <2>4. ask[1] \in Operations /\ Ready(r, ask[1]) /\ ask[2] \in Alloc \cup Key \cup {Nothing}
      BY <2>3, AskIsReady
    <2>5. Sound(r)
      BY <2>4 DEF Sound, ProcType, Pcs, Operations
    <2>6. RequestsOK'
      BY <2>1, <2>2, <2>4, <2>5, EnterRequest DEF Pcs
    <2>7. QED
      BY <1>1, <2>1, <2>6, RestTables, RestBooks, RestCustody DEF AuthenticateSession
  <1>2. ASSUME NEW k \in Key, AuthenticateKey(q, k) PROVE TypeOK'
    <2> DEFINE c == key[k].customer
    <2>1. Kept
      BY <1>2 DEF AuthenticateKey, Kept, tables, custody, books
    <2>2. c \in Customer /\ key[k] # NoKey
      BY <1>2 DEF AuthenticateKey, KeyFound, CustodyOK, NoKey
    <2>3. PICK ask \in Asks(c) : Enter(q, "stamp", ask[1], c, ask[2], k)
      BY <1>2 DEF AuthenticateKey
    <2> HIDE DEF c
    <2> DEFINE r == [pc |-> "stamp", next |-> ask[1], who |-> c, on |-> ask[2], via |-> k]
    <2>4. r.who = c /\ r.on = ask[2] /\ r.pc = "stamp" /\ r.next = ask[1] /\ r.via = k
      OBVIOUS
    <2>5. ask[1] \in Operations /\ Ready(r, ask[1]) /\ ask[2] \in Alloc \cup Key \cup {Nothing}
      BY <2>2, <2>4, AskIsReady
    <2>6. r \in ProcType
      BY <2>2, <2>5 DEF ProcType, Pcs
    <2>7. Ready(r, "stamp")
      BY <2>2, <2>4, <2>5 DEF Ready, Operations
    <2>8. Sound(r)
      BY <2>4, <2>5, <2>6, <2>7 DEF Sound
    <2>9. RequestsOK'
      BY <2>1, <2>3, <2>8, EnterRequest DEF Pcs
    <2>10. QED
      BY <1>2, <2>1, <2>9, RestTables, RestBooks, RestCustody DEF AuthenticateKey
  <1>3. ASSUME NEW k \in Key, CreateAPIKey(q, k) PROVE TypeOK'
    <2>1. proc[q].who \in Customer
      BY <1>3 DEF CreateAPIKey, RequestsOK, Ready, At, Operations
    <2>2. CustodyOK' /\ Kept
      BY <1>3, <2>1 DEF CreateAPIKey, CustodyOK, Kept, NoKey, tables, books
    <2>3. QED
      BY <1>3, <2>2, RestTables, RestBooks, DoneRequest DEF CreateAPIKey
  <1>4. CASE StampKey(q)
    <2>1. proc[q].via \in Key /\ key[proc[q].via] # NoKey /\ proc[q].next \in Operations
          /\ Ready(proc[q], proc[q].next) /\ proc[q] \in ProcType
      BY <1>4 DEF StampKey, RequestsOK, Ready, At
    <2>2. CustodyOK' /\ Kept
      BY <1>4, <2>1 DEF StampKey, CustodyOK, Kept, NoKey, tables, books
    <2> DEFINE r == [proc[q] EXCEPT !.pc = proc[q].next, !.next = "none", !.via = Nothing]
    <2>3. r \in ProcType /\ r.pc = proc[q].next /\ r.who = proc[q].who /\ r.on = proc[q].on
      BY <2>1 DEF ProcType, Pcs
    <2>4. Sound(r)
      BY <2>1, <2>3 DEF Sound, Ready, Operations
    <2>5. proc' = [proc EXCEPT ![q] = r]
      BY <1>4 DEF StampKey
    <2> HIDE DEF r
    <2>6. RequestsOK'
      BY <2>2, <2>4, <2>5, MoveRequest
    <2>7. QED
      BY <1>4, <2>2, <2>6, RestTables, RestBooks DEF StampKey
  <1>5. CASE DeleteAPIKey(q)
    <2>1. proc[q].on \in Key /\ key[proc[q].on] # NoKey
      BY <1>5 DEF DeleteAPIKey, RequestsOK, Ready, At
    <2>2. CustodyOK' /\ Kept
      BY <1>5, <2>1 DEF DeleteAPIKey, CustodyOK, Kept, NoKey, tables, books
    <2>3. QED
      BY <1>5, <2>2, RestTables, RestBooks, DoneRequest DEF DeleteAPIKey
  <1>6. QED
    BY <1>1, <1>2, <1>3, <1>4, <1>5

\* Giving out proxies.
LEMMA AllocateKeepsTypes ==
    ASSUME TypeOK, UNCHANGED books, NEW q \in Req,
           \/ ReadSubscription(q) \/ EnforceAllocation(q) \/ CheckAllocationAllowed(q)
           \/ \E p \in Proxy : SelectRouted(q, p) \/ SelectUntaken(q, p)
           \/ NoneUntaken(q)
           \/ \E a \in Alloc : InsertAllocation(q, a)
    PROVE  TypeOK'
  <1> USE DEF TypeOK
  <1>1. ASSUME Refuse(q) PROVE TypeOK'
    <2>1. Kept
      BY <1>1 DEF Refuse, Kept, tables, custody, books
    <2>2. QED
      BY <1>1, <2>1, RestTables, RestBooks, RestCustody, DoneRequest DEF Refuse
  <1>2. ASSUME NEW pc \in {"enforce", "check"}, Goto(q, pc), UNCHANGED <<tables, custody>>,
               proc[q].who \in Customer
        PROVE  TypeOK'
    <2>1. Kept
      BY <1>2 DEF Kept, tables, custody, books
    <2>2. Ready(proc[q], pc)
      BY <1>2 DEF Ready, Operations
    <2>3. QED
      BY <1>2, <2>1, <2>2, RestTables, RestBooks, RestCustody, GotoRequest DEF Pcs
  <1>3. CASE ReadSubscription(q)
    BY <1>1, <1>2, <1>3 DEF ReadSubscription, RequestsOK, Ready, At, Operations
  <1>4. CASE EnforceAllocation(q)
    BY <1>1, <1>2, <1>4 DEF EnforceAllocation, RequestsOK, Ready, At
  <1>5. CASE CheckAllocationAllowed(q)
    <2> DEFINE c == proc[q].who
    <2>1. c \in Customer
      BY <1>5 DEF CheckAllocationAllowed, RequestsOK, Ready, At
    <2>2. CASE Refuse(q)
      BY <1>1, <2>2
    <2>3. CASE ~Refuse(q)
      <3>1. Kept
        BY <1>5, <2>3 DEF CheckAllocationAllowed, Kept, tables, books
      <3>2. /\ Goto(q, "select") /\ UNCHANGED tables
            /\ crowd' = [crowd EXCEPT ![c] = IF Cardinality(Between(c)) + 1 > @
                                             THEN Cardinality(Between(c)) + 1 ELSE @]
            /\ UNCHANGED <<secret, login, issued, copy, disturbed, key, revoked, reused, overtaken>>
        BY <1>5, <2>3 DEF CheckAllocationAllowed
      <3>3. CustodyOK'
        BY <2>1, <3>2, Finite DEF CustodyOK
      <3>4. RequestsOK'
        BY <2>1, <3>1, <3>2, GotoRequest DEF Ready, Pcs, Operations
      <3>5. QED
        BY <3>1, <3>2, <3>3, <3>4, RestTables, RestBooks
    <2>4. QED
      BY <2>2, <2>3
  <1>6. ASSUME NEW p \in Proxy, At(q, "select"), Choose(q, p) PROVE TypeOK'
    <2>1. Kept
      BY <1>6 DEF Choose, Kept, tables, custody, books
    <2> DEFINE r == [proc[q] EXCEPT !.pc = "insert", !.via = p]
    <2>2. proc[q] \in ProcType /\ proc[q].who \in Customer
      BY <1>6 DEF RequestsOK, Ready, At
    <2>3. r \in ProcType /\ r.pc = "insert" /\ r.who = proc[q].who /\ r.via = p
      BY <2>2 DEF ProcType, Pcs
    <2>4. Sound(r)
      BY <2>2, <2>3 DEF Sound, Ready, Operations
    <2>5. proc' = [proc EXCEPT ![q] = r]
      BY <1>6 DEF Choose
    <2> HIDE DEF r
    <2>6. QED
      BY <1>6, <2>1, <2>4, <2>5, MoveRequest, RestTables, RestBooks, RestCustody DEF Choose
  <1>7. ASSUME NEW a \in Alloc, InsertAllocation(q, a) PROVE TypeOK'
    <2>1. proc[q].who \in Customer /\ proc[q].via \in Proxy
      BY <1>7 DEF InsertAllocation, RequestsOK, Ready, At
    <2>2. TablesOK' /\ Kept
      BY <1>7, <2>1 DEF InsertAllocation, TablesOK, Kept, NoAlloc, books
    <2>3. CustodyOK'
      BY <1>7, <2>1, AllocationAssumption DEF InsertAllocation, Renewed, CustodyOK
    <2>4. QED
      BY <1>7, <2>2, <2>3, RestBooks, DoneRequest DEF InsertAllocation
  <1>8. QED
    BY <1>1, <1>3, <1>4, <1>5, <1>6, <1>7 DEF SelectRouted, SelectUntaken, NoneUntaken

\* Release and rotation.
LEMMA RotationsKeepTypes ==
    ASSUME TypeOK, UNCHANGED books,
           \/ \E q \in Req : ReleaseProxy(q) \/ RotateProxy(q) \/ ReadAllocation(q) \/ RotateCredential(q)
           \/ \E p \in Proxy : ManagerReads(p) \/ ManagerSaves(p) \/ \E a \in Alloc : RotateAllocation(a, p)
    PROVE  TypeOK'
  <1> USE DEF TypeOK
  <1>1. ASSUME NEW q \in Req, At(q, "release") \/ At(q, "rotateProxy"), Released(proc[q].on),
               UNCHANGED <<account, plan, legacy, sub, custody>>
        PROVE  TablesOK' /\ CustodyOK' /\ Kept
    <2>1. proc[q].on \in Alloc /\ alloc[proc[q].on] # NoAlloc
      BY <1>1 DEF RequestsOK, Ready, At
    <2>2. QED
      BY <1>1, <2>1, RestCustody DEF Released, TablesOK, Kept, NoAlloc, custody, books
  <1>2. ASSUME NEW q \in Req, ReleaseProxy(q) PROVE TypeOK'
    BY <1>1, <1>2, RestBooks, DoneRequest DEF ReleaseProxy
  <1>3. ASSUME NEW q \in Req, RotateProxy(q) PROVE TypeOK'
    <2>1. TablesOK' /\ CustodyOK' /\ Kept
      BY <1>1, <1>3 DEF RotateProxy
    <2> DEFINE r == [proc[q] EXCEPT !.pc = "allocate", !.on = Nothing]
    <2>2. proc[q] \in ProcType /\ proc[q].who \in Customer
      BY <1>3 DEF RotateProxy, RequestsOK, Ready, At, Operations
    <2>3. r \in ProcType /\ r.pc = "allocate" /\ r.who = proc[q].who
      BY <2>2 DEF ProcType, Pcs, Operations
    <2>4. Sound(r)
      BY <2>2, <2>3 DEF Sound, Ready, Operations
    <2>5. proc' = [proc EXCEPT ![q] = r]
      BY <1>3 DEF RotateProxy
    <2> HIDE DEF r
    <2>6. QED
      BY <2>1, <2>4, <2>5, MoveRequest, RestBooks
  <1>4. ASSUME NEW q \in Req, ReadAllocation(q) PROVE TypeOK'
    <2>1. Kept
      BY <1>4 DEF ReadAllocation, Kept, tables, custody, books
    <2> DEFINE x == alloc[proc[q].on].proxy
               r == [proc[q] EXCEPT !.pc = "renew", !.via = x]
    <2>2. /\ proc[q] \in ProcType /\ proc[q].who \in Customer
          /\ proc[q].on \in Alloc /\ alloc[proc[q].on] # NoAlloc
      BY <1>4 DEF ReadAllocation, RequestsOK, Ready, At, Operations
    <2>3. x \in Proxy
      BY <2>2 DEF TablesOK, NoAlloc
    <2>4. proc' = [proc EXCEPT ![q] = r]
      BY <1>4 DEF ReadAllocation
    <2> HIDE DEF x
    <2>5. r \in ProcType /\ r.pc = "renew" /\ r.who = proc[q].who /\ r.on = proc[q].on /\ r.via = x
      BY <2>2, <2>3 DEF ProcType, Pcs
    <2>6. Sound(r)
      BY <2>2, <2>3, <2>5 DEF Sound, Ready, Operations
    <2> HIDE DEF r
    <2>7. QED
      BY <1>4, <2>1, <2>4, <2>6, MoveRequest, RestTables, RestBooks, RestCustody DEF ReadAllocation
  <1>5. ASSUME NEW q \in Req, RotateCredential(q) PROVE TypeOK'
    <2>1. /\ proc[q].on \in Alloc /\ proc[q].via \in Proxy
          /\ alloc[proc[q].on].proxy \in Proxy
      BY <1>5 DEF RotateCredential, RequestsOK, Ready, At, TablesOK, NoAlloc
    <2>2. CustodyOK'
      BY <1>5, <2>1, AllocationAssumption DEF RotateCredential, Renewed, CustodyOK
    <2>3. Kept
      BY <1>5 DEF RotateCredential, Kept, tables, books
    <2>4. QED
      BY <1>5, <2>2, <2>3, RestTables, RestBooks, DoneRequest DEF RotateCredential
  <1>6. ASSUME NEW p \in Proxy, ManagerReads(p) PROVE TypeOK'
    <2>1. CustodyOK' /\ Kept
      BY <1>6 DEF ManagerReads, CustodyOK, Kept, tables, books
    <2>2. QED
      BY <1>6, <2>1, RestTables, RestBooks, RestRequests DEF ManagerReads
  <1>7. ASSUME NEW p \in Proxy, ManagerSaves(p) PROVE TypeOK'
    <2>1. CustodyOK' /\ Kept
      BY <1>7 DEF ManagerSaves, CustodyOK, Kept, tables, books
    <2>2. QED
      BY <1>7, <2>1, RestTables, RestBooks, RestRequests DEF ManagerSaves
  <1>8. ASSUME NEW p \in Proxy, NEW a \in Alloc, RotateAllocation(a, p) PROVE TypeOK'
    <2>1. alloc[a].proxy \in Proxy
      BY <1>8 DEF RotateAllocation, TablesOK, NoAlloc
    <2>2. TablesOK' /\ CustodyOK' /\ Kept
      BY <1>8, <2>1 DEF RotateAllocation, TablesOK, CustodyOK, Kept, NoAlloc, books
    <2>3. QED
      BY <1>8, <2>2, RestBooks, RestRequests DEF RotateAllocation
  <1>9. QED
    BY <1>2, <1>3, <1>4, <1>5, <1>6, <1>7, <1>8

LEMMA CustomersKeepTypes ==
    ASSUME TypeOK, AllocationNext, UNCHANGED books
    PROVE  TypeOK'
  BY KeysKeepTypes, AllocateKeepsTypes, RotationsKeepTypes DEF AllocationNext, CustomerStep

LEMMA InitTypes == Init => TypeOK
  BY IdleIsSound DEF Init, TablesInit, BillingInit, AllocationInit, TypeOK, TablesOK, BooksOK, CustodyOK,
     RequestsOK, Sound, At, Idle

\* Every row is complete and every request names what its step works on
\* (TypeOK of Rental), for any number of rows and requests.
THEOREM TypeCorrect == Spec => []TypeOK
  <1>1. TypeOK /\ [Next]_vars => TypeOK'
    <2> SUFFICES ASSUME TypeOK, [Next]_vars PROVE TypeOK'
      OBVIOUS
    <2>1. CASE BillingNext /\ UNCHANGED custody
      BY <2>1, BillingKeepsTypes
    <2>2. CASE AllocationNext /\ UNCHANGED books
      BY <2>2, CustomersKeepTypes
    <2>3. CASE UNCHANGED vars
      <3>1. Kept
        BY <2>3 DEF vars, Kept, tables, books, custody
      <3>2. QED
        BY <2>3, <3>1, RestTables, RestBooks, RestCustody, RestRequests DEF vars, TypeOK
    <2>4. QED
      BY <2>1, <2>2, <2>3 DEF Next
  <1>2. QED
    BY InitTypes, <1>1, PTL DEF Spec
-----------------------------------------------------------------------------
(* Where requests go.  The steps that belong to one property are outside   *)
(* the places the others speak of.                                         *)

StaysOut(X) == \A r \in Req : proc[r].pc \in X \/ proc'[r].pc \in X => proc'[r] = proc[r]

LEMMA MoveOutside ==
    ASSUME TypeOK, NEW X, NEW q \in Req, proc[q].pc \notin X, NEW r, r.pc \notin X,
           proc' = [proc EXCEPT ![q] = r]
    PROVE  StaysOut(X)
  BY DEF StaysOut, TypeOK, RequestsOK

LEMMA EnterOutside ==
    ASSUME TypeOK, NEW X, "idle" \notin X, NEW pc, pc \notin X, NEW q \in Req, NEW next, NEW who, NEW on, NEW via,
           Enter(q, pc, next, who, on, via)
    PROVE  StaysOut(X)
  <1> DEFINE r == [pc |-> pc, next |-> next, who |-> who, on |-> on, via |-> via]
  <1>1. r.pc = pc /\ proc[q].pc = "idle" /\ proc' = [proc EXCEPT ![q] = r]
    BY DEF Enter, At
  <1> HIDE DEF r
  <1>2. QED
    BY <1>1, MoveOutside

LEMMA DoneOutside ==
    ASSUME TypeOK, NEW X, "idle" \notin X, NEW q \in Req, proc[q].pc \notin X, Done(q)
    PROVE  StaysOut(X)
  <1>1. Idle.pc = "idle"
    BY DEF Idle
  <1>2. QED
    BY <1>1, MoveOutside DEF Done

LEMMA GotoOutside ==
    ASSUME TypeOK, NEW X, NEW pc, pc \notin X, NEW q \in Req, proc[q].pc \notin X, Goto(q, pc)
    PROVE  StaysOut(X)
  <1>1. proc[q] \in ProcType
    BY DEF TypeOK, RequestsOK
  <1>2. [proc[q] EXCEPT !.pc = pc].pc = pc
    BY <1>1 DEF ProcType
  <1>3. proc' = [proc EXCEPT ![q] = [proc[q] EXCEPT !.pc = pc]]
    BY DEF Goto
  <1>4. QED
    BY <1>2, <1>3, MoveOutside

\* Billing does not touch what the customer service has under way.
LEMMA BillingOutside ==
    ASSUME TypeOK, BillingNext, ~Crash
    PROVE  StaysOut({"stamp", "select", "insert", "renew"})
  <1> DEFINE X == {"stamp", "select", "insert", "renew"}
  <1>1. ASSUME UNCHANGED proc PROVE StaysOut(X)
    BY <1>1 DEF StaysOut
  <1>2. ASSUME NEW p \in Plan, CreatePlan(p) \/ \E status \in {"active", "inactive"} : UpdatePlan(p, status)
        PROVE  StaysOut(X)
    BY <1>1, <1>2 DEF CreatePlan, UpdatePlan
  <1>3. ASSUME NEW s \in Sub,
               \/ TimePasses(s) \/ \E status \in {"pending", "active"} : UpdateSubscriptionStatus(s, status)
               \/ \E c \in Customer, p \in Plan, status \in {"pending", "active", "closed"} :
                     CreateSubscription(s, c, p, status)
        PROVE  StaysOut(X)
    BY <1>1, <1>3 DEF TimePasses, UpdateSubscriptionStatus, CreateSubscription
  <1>4. ASSUME NEW c \in Customer,
               SuspendCustomer(c) \/ ActivateCustomer(c) \/ ActivateSubscription(c) \/ Register(c)
        PROVE  StaysOut(X)
    BY <1>1, <1>4 DEF SuspendCustomer, ActivateCustomer, ActivateSubscription, Register
  <1>5. ASSUME NEW a \in Alloc, SuspendProxy(a) PROVE StaysOut(X)
    BY <1>1, <1>5 DEF SuspendProxy
  <1>6. ASSUME NEW i \in Invoice, MarkInvoicePaid(i) \/ \E s \in Sub : GenerateInvoice(i, s)
        PROVE  StaysOut(X)
    BY <1>1, <1>6 DEF MarkInvoicePaid, GenerateInvoice
  <1>7. ASSUME NEW q \in Req,
               \/ \E i \in Invoice : VerifyInvoicePayment(q, i) \/ RefundInvoice(q, i)
               \/ \E s \in Sub : CloseSubscription(q, s)
               \/ \E c \in Customer : AbuseSuspendCustomer(q, c)
        PROVE  StaysOut(X)
    BY <1>7, EnterOutside DEF VerifyInvoicePayment, RefundInvoice, CloseSubscription, AbuseSuspendCustomer
  <1>8. ASSUME NEW q \in Req, PayVerified(q) \/ RefundFails(q) \/ SaveRefunded(q) \/ SuspendExistingAllocations(q)
        PROVE  StaysOut(X)
    BY <1>8, DoneOutside DEF PayVerified, RefundFails, SaveRefunded, SuspendExistingAllocations, At
  <1>9. ASSUME NEW q \in Req, RefundPayment(q) PROVE StaysOut(X)
    BY <1>9, GotoOutside DEF RefundPayment, At
  <1>10. QED
    BY <1>2, <1>3, <1>4, <1>5, <1>6, <1>7, <1>8, <1>9 DEF BillingNext, AdminRequest

\* Authentication and API keys.
KeysNext(q) == \/ \E c \in Customer : AuthenticateSession(q, c)
               \/ \E k \in Key : AuthenticateKey(q, k) \/ CreateAPIKey(q, k)
               \/ StampKey(q) \/ DeleteAPIKey(q)
\* Giving out proxies.
AllocateNext(q) == \/ ReadSubscription(q) \/ EnforceAllocation(q) \/ CheckAllocationAllowed(q)
                   \/ \E p \in Proxy : SelectRouted(q, p) \/ SelectUntaken(q, p)
                   \/ NoneUntaken(q)
                   \/ \E a \in Alloc : InsertAllocation(q, a)
\* Release and rotation.
RotateNext(q) == ReleaseProxy(q) \/ RotateProxy(q) \/ ReadAllocation(q) \/ RotateCredential(q)
\* The proxies rows and the allocations as others write them.
OthersNext == \E p \in Proxy : ManagerReads(p) \/ ManagerSaves(p) \/ \E a \in Alloc : RotateAllocation(a, p)

LEMMA CustomerSteps ==
    AllocationNext => OthersNext \/ \E q \in Req : KeysNext(q) \/ AllocateNext(q) \/ RotateNext(q)
  BY DEF AllocationNext, CustomerStep, OthersNext, KeysNext, AllocateNext, RotateNext

LEMMA KeysOutside ==
    ASSUME TypeOK, NEW q \in Req, KeysNext(q)
    PROVE  /\ StaysOut({"refund", "refunded", "suspendAllocations", "select", "insert", "renew"})
           /\ UNCHANGED tables
  <1> DEFINE X == {"refund", "refunded", "suspendAllocations", "select", "insert", "renew"}
  <1>1. ASSUME NEW c \in Customer, AuthenticateSession(q, c) PROVE StaysOut(X)
    <2>1. PICK ask \in Asks(c) : Enter(q, ask[1], "none", c, ask[2], Nothing)
      BY <1>1 DEF AuthenticateSession
    <2>2. ask[1] \in Operations
      BY DEF Asks, Operations
    <2>3. QED
      BY <2>1, <2>2, EnterOutside DEF Operations
  <1>2. ASSUME NEW k \in Key, AuthenticateKey(q, k) PROVE StaysOut(X)
    <2>1. PICK ask \in Asks(key[k].customer) : Enter(q, "stamp", ask[1], key[k].customer, ask[2], k)
      BY <1>2 DEF AuthenticateKey
    <2>2. QED
      BY <2>1, EnterOutside
  <1>3. ASSUME NEW k \in Key, CreateAPIKey(q, k) PROVE StaysOut(X)
    BY <1>3, DoneOutside DEF CreateAPIKey, At
  <1>4. ASSUME StampKey(q) PROVE StaysOut(X)
    <2>1. proc[q] \in ProcType /\ proc[q].next \in Operations /\ proc[q].pc = "stamp"
      BY <1>4 DEF StampKey, TypeOK, RequestsOK, Ready, At
    <2> DEFINE r == [proc[q] EXCEPT !.pc = proc[q].next, !.next = "none", !.via = Nothing]
    <2>2. r.pc = proc[q].next
      BY <2>1 DEF ProcType
    <2>3. proc' = [proc EXCEPT ![q] = r]
      BY <1>4 DEF StampKey
    <2>4. proc[q].next \notin X /\ proc[q].pc \notin X
      BY <2>1 DEF Operations
    <2> HIDE DEF X, r
    <2>5. QED
      BY <2>2, <2>3, <2>4, MoveOutside
  <1>5. ASSUME DeleteAPIKey(q) PROVE StaysOut(X)
    BY <1>5, DoneOutside DEF DeleteAPIKey, At
  <1>6. UNCHANGED tables
    BY DEF KeysNext, AuthenticateSession, AuthenticateKey, CreateAPIKey, StampKey, DeleteAPIKey
  <1>7. QED
    BY <1>1, <1>2, <1>3, <1>4, <1>5, <1>6 DEF KeysNext

LEMMA AllocateOutside ==
    ASSUME TypeOK, NEW q \in Req, AllocateNext(q)
    PROVE  StaysOut({"refund", "refunded", "suspendAllocations", "stamp", "renew"})
  <1> DEFINE X == {"refund", "refunded", "suspendAllocations", "stamp", "renew"}
  <1>1. ASSUME proc[q].pc \in {"allocate", "enforce", "check", "select", "insert"}, Done(q) PROVE StaysOut(X)
    BY <1>1, DoneOutside
  <1>2. ASSUME proc[q].pc \in {"allocate", "enforce", "check"},
               Goto(q, "enforce") \/ Goto(q, "check") \/ Goto(q, "select")
        PROVE  StaysOut(X)
    BY <1>2, GotoOutside
  <1>3. ASSUME NEW p \in Proxy, At(q, "select"), Choose(q, p) PROVE StaysOut(X)
    <2>1. proc[q] \in ProcType /\ proc[q].pc = "select"
      BY <1>3 DEF TypeOK, RequestsOK, At
    <2>2. [proc[q] EXCEPT !.pc = "insert", !.via = p].pc = "insert"
      BY <2>1 DEF ProcType
    <2>3. proc' = [proc EXCEPT ![q] = [proc[q] EXCEPT !.pc = "insert", !.via = p]]
      BY <1>3 DEF Choose
    <2>4. QED
      BY <2>1, <2>2, <2>3, MoveOutside
  <1>4. CASE ReadSubscription(q) \/ EnforceAllocation(q) \/ CheckAllocationAllowed(q)
    BY <1>1, <1>2, <1>4 DEF ReadSubscription, EnforceAllocation, CheckAllocationAllowed, Refuse, At
  <1>5. CASE NoneUntaken(q) \/ \E a \in Alloc : InsertAllocation(q, a)
    BY <1>1, <1>5 DEF NoneUntaken, InsertAllocation, Refuse, At
  <1>6. QED
    BY <1>3, <1>4, <1>5 DEF AllocateNext, SelectRouted, SelectUntaken

LEMMA RotateOutside ==
    ASSUME TypeOK, NEW q \in Req, RotateNext(q)
    PROVE  StaysOut({"refund", "refunded", "suspendAllocations", "stamp", "select", "insert"})
  <1> DEFINE X == {"refund", "refunded", "suspendAllocations", "stamp", "select", "insert"}
  <1>1. proc[q] \in ProcType
    BY DEF TypeOK, RequestsOK
  <1>2. CASE ReleaseProxy(q) \/ RotateCredential(q)
    BY <1>2, DoneOutside DEF ReleaseProxy, RotateCredential, At
  <1>3. CASE RotateProxy(q)
    <2>1. [proc[q] EXCEPT !.pc = "allocate", !.on = Nothing].pc = "allocate"
      BY <1>1 DEF ProcType
    <2>2. proc' = [proc EXCEPT ![q] = [proc[q] EXCEPT !.pc = "allocate", !.on = Nothing]]
      BY <1>3 DEF RotateProxy
    <2>3. QED
      BY <1>3, <2>1, <2>2, MoveOutside DEF RotateProxy, At
  <1>4. CASE ReadAllocation(q)
    <2> DEFINE r == [proc[q] EXCEPT !.pc = "renew", !.via = alloc[proc[q].on].proxy]
    <2>1. r.pc = "renew"
      BY <1>1 DEF ProcType
    <2>2. proc' = [proc EXCEPT ![q] = r]
      BY <1>4 DEF ReadAllocation
    <2> HIDE DEF r
    <2>3. QED
      BY <1>4, <2>1, <2>2, MoveOutside DEF ReadAllocation, At
  <1>5. QED
    BY <1>2, <1>3, <1>4 DEF RotateNext
-----------------------------------------------------------------------------
(* Revoked keys.                                                           *)

\* Nobody has a copy of a revoked key to save.
KeysFit == \A k \in revoked \ reused : key[k].status = "revoked" /\ Stamping(k) = {}

LEMMA KeysRest ==
    ASSUME KeysFit, UNCHANGED <<key, revoked, reused>>, StaysOut({"stamp"})
    PROVE  KeysFit'
  BY DEF KeysFit, StaysOut, Stamping, At

LEMMA KeysStep ==
    ASSUME TypeOK, KeysFit, NEW q \in Req, KeysNext(q)
    PROVE  KeysFit'
  <1>1. ASSUME NEW c \in Customer, AuthenticateSession(q, c) PROVE KeysFit'
    <2>1. PICK ask \in Asks(c) : Enter(q, ask[1], "none", c, ask[2], Nothing)
      BY <1>1 DEF AuthenticateSession
    <2>2. ask[1] \in Operations
      BY DEF Asks, Operations
    <2>3. StaysOut({"stamp"})
      BY <2>1, <2>2, EnterOutside DEF Operations
    <2>4. QED
      BY <1>1, <2>3, KeysRest DEF AuthenticateSession, custody
  <1>2. ASSUME NEW k \in Key, AuthenticateKey(q, k) PROVE KeysFit'
    <2>1. key[k].status = "active" /\ UNCHANGED <<key, revoked, reused>>
      BY <1>2 DEF AuthenticateKey, KeyFound, custody
    <2>2. k \notin revoked \ reused
      BY <2>1 DEF KeysFit
    <2>3. PICK ask \in Asks(key[k].customer) : Enter(q, "stamp", ask[1], key[k].customer, ask[2], k)
      BY <1>2 DEF AuthenticateKey
    <2>4. proc'[q].via = k /\ \A r \in Req \ {q} : proc'[r] = proc[r]
      BY <2>3 DEF Enter, TypeOK, RequestsOK
    <2>5. QED
      BY <2>1, <2>2, <2>4 DEF KeysFit, Stamping, At
  <1>3. ASSUME NEW k \in Key, CreateAPIKey(q, k) PROVE KeysFit'
    <2>1. StaysOut({"stamp"})
      BY <1>3, DoneOutside DEF CreateAPIKey, At
    <2>2. k \notin revoked \ reused
      BY <1>3 DEF CreateAPIKey, KeysFit, NoKey
    <2>3. QED
      BY <1>3, <2>1, <2>2 DEF CreateAPIKey, KeysFit, StaysOut, Stamping, At, TypeOK, CustodyOK
  <1>4. CASE StampKey(q)
    <2>1. q \in Stamping(proc[q].via)
      BY <1>4 DEF StampKey, Stamping
    <2>2. \A r \in Req \ {q} : proc'[r] = proc[r]
      BY <1>4 DEF StampKey, TypeOK, RequestsOK
    <2>3. ~At(q, "stamp")'
      <3>1. proc[q] \in ProcType /\ proc[q].next \in Operations
        BY <1>4 DEF StampKey, TypeOK, RequestsOK, Ready, At
      <3>2. proc'[q].pc = proc[q].next
        BY <1>4, <3>1 DEF StampKey, TypeOK, RequestsOK, ProcType
      <3>3. QED
        BY <3>1, <3>2 DEF At, Operations
    <2>4. /\ key' = [key EXCEPT ![proc[q].via].status = "active"]
          /\ UNCHANGED <<revoked, reused>>
      BY <1>4 DEF StampKey
    <2>5. QED
      BY <2>1, <2>2, <2>3, <2>4 DEF KeysFit, Stamping, At, TypeOK, CustodyOK
  <1>5. CASE DeleteAPIKey(q)
    <2> DEFINE k == proc[q].on
    <2>1. StaysOut({"stamp"})
      BY <1>5, DoneOutside DEF DeleteAPIKey, At
    <2>2. k \in Key /\ key[k] # NoKey
      BY <1>5 DEF DeleteAPIKey, TypeOK, RequestsOK, Ready, At
    <2>3. /\ key'[k].status = "revoked" /\ \A j \in Key \ {k} : key'[j] = key[j]
          /\ revoked' = revoked \cup {k}
          /\ reused' = IF Stamping(k) = {} THEN reused ELSE reused \cup {k}
      BY <1>5, <2>2 DEF DeleteAPIKey, TypeOK, CustodyOK, NoKey
    <2>4. \A j \in Key : Stamping(j)' = Stamping(j)
      BY <2>1 DEF StaysOut, Stamping, At
    <2>5. revoked \subseteq Key
      BY DEF TypeOK, CustodyOK
    <2> HIDE DEF k
    <2>6. ASSUME NEW j \in revoked' \ reused'
          PROVE  key'[j].status = "revoked" /\ Stamping(j)' = {}
      BY <2>2, <2>3, <2>4, <2>5, <2>6 DEF KeysFit
    <2>7. QED
      BY <2>6 DEF KeysFit
  <1>6. QED
    BY <1>1, <1>2, <1>3, <1>4, <1>5 DEF KeysNext

\* A revoked API key stays revoked (RevokedKeysStay of Allocation): a request
\* writes back the key it read only if the key was revoked in between.
THEOREM RevokedKeysCorrect == Spec => []RevokedKeysStay
  <1>1. Init => KeysFit
    BY DEF Init, AllocationInit, KeysFit
  <1>2. TypeOK /\ KeysFit /\ [Next]_vars => KeysFit'
    <2> SUFFICES ASSUME TypeOK, KeysFit, [Next]_vars PROVE KeysFit'
      OBVIOUS
    <2>1. CASE BillingNext /\ UNCHANGED custody
      <3>1. CASE Crash
        <4>1. \A r \in Req : ~At(r, "stamp")'
          BY <3>1 DEF Crash, At, Idle
        <4>2. QED
          BY <2>1, <4>1 DEF KeysFit, Stamping, custody
      <3>2. CASE ~Crash
        <4>1. StaysOut({"stamp"})
          BY <2>1, <3>2, BillingOutside DEF StaysOut
        <4>2. QED
          BY <2>1, <4>1, KeysRest DEF custody
      <3>3. QED
        BY <3>1, <3>2
    <2>2. ASSUME NEW q \in Req, KeysNext(q) PROVE KeysFit'
      BY <2>2, KeysStep
    <2>3. ASSUME NEW q \in Req, AllocateNext(q) PROVE KeysFit'
      <3>1. StaysOut({"stamp"})
        BY <2>3, AllocateOutside DEF StaysOut
      <3>2. UNCHANGED <<key, revoked, reused>>
        BY <2>3 DEF AllocateNext, ReadSubscription, EnforceAllocation, CheckAllocationAllowed, SelectRouted,
                    SelectUntaken, Choose, NoneUntaken, InsertAllocation, Refuse, custody
      <3>3. QED
        BY <3>1, <3>2, KeysRest
    <2>4. ASSUME NEW q \in Req, RotateNext(q) PROVE KeysFit'
      <3>1. StaysOut({"stamp"})
        BY <2>4, RotateOutside DEF StaysOut
      <3>2. UNCHANGED <<key, revoked, reused>>
        BY <2>4 DEF RotateNext, ReleaseProxy, RotateProxy, ReadAllocation, RotateCredential, custody
      <3>3. QED
        BY <3>1, <3>2, KeysRest
    <2>5. CASE OthersNext
      BY <2>5, KeysRest DEF OthersNext, ManagerReads, ManagerSaves, RotateAllocation, StaysOut
    <2>6. CASE UNCHANGED vars
      BY <2>6, KeysRest DEF vars, custody, StaysOut
    <2>7. QED
      BY <2>1, <2>2, <2>3, <2>4, <2>5, <2>6, CustomerSteps DEF Next
  <1>3. KeysFit => RevokedKeysStay
    BY DEF KeysFit, RevokedKeysStay
  <1>4. QED
    BY <1>1, <1>2, <1>3, TypeCorrect, PTL DEF Spec
-----------------------------------------------------------------------------
(* Refunds.                                                                *)

\* Unless refunds overlapped, one request refunds a paid invoice, and until
\* the provider was told there is a payment that was not refunded.
RefundsFit ==
    \A i \in Invoice \ contested :
        /\ \A q, r \in Refunding(i) : q = r
        /\ Refunding(i) # {} => invoice[i].status = "paid"
        /\ invoice[i].status = "paid" /\ (\A q \in Refunding(i) : ~At(q, "refunded")) => refunds[i] < pays[i]
        /\ refunds[i] <= pays[i]

LEMMA RefundsRest ==
    ASSUME RefundsFit, UNCHANGED <<invoice, refunds, pays, contested>>, StaysOut({"refund", "refunded"})
    PROVE  RefundsFit'
  <1>1. \A i \in Invoice : Refunding(i)' = Refunding(i)
    BY DEF StaysOut, Refunding
  <1>2. \A i \in Invoice : \A q \in Refunding(i) : At(q, "refunded")' <=> At(q, "refunded")
    BY DEF StaysOut, Refunding, At
  <1>3. QED
    BY <1>1, <1>2 DEF RefundsFit

\* A payment.
LEMMA RefundsPay ==
    ASSUME TypeOK, RefundsFit, NEW i \in Invoice, invoice[i] # NoInvoice, Pay(i),
           StaysOut({"refund", "refunded"})
    PROVE  RefundsFit'
  <1>1. \A j \in Invoice : Refunding(j)' = Refunding(j)
    BY DEF StaysOut, Refunding
  <1>2. \A j \in Invoice : \A q \in Refunding(j) : At(q, "refunded")' <=> At(q, "refunded")
    BY DEF StaysOut, Refunding, At
  <1>3. \A j \in Invoice \ {i} : invoice'[j] = invoice[j] /\ pays'[j] = pays[j]
    BY DEF Pay, TypeOK, BooksOK
  <1>4. /\ invoice'[i].status = "paid" /\ refunds' = refunds /\ contested' = contested
        /\ pays'[i] = IF invoice[i].status = "paid" THEN pays[i] ELSE pays[i] + 1
    BY DEF Pay, TypeOK, BooksOK, NoInvoice
  <1>5. refunds[i] \in Nat /\ pays[i] \in Nat
    BY DEF TypeOK, BooksOK
  <1>6. QED
    BY <1>1, <1>2, <1>3, <1>4, <1>5 DEF RefundsFit

\* The four steps of a refund.
LEMMA RefundsStep ==
    ASSUME TypeOK, RefundsFit, NEW q \in Req,
           \/ \E i \in Invoice : RefundInvoice(q, i)
           \/ RefundPayment(q) \/ RefundFails(q) \/ SaveRefunded(q)
    PROVE  RefundsFit'
  <1>0. /\ refunds \in [Invoice -> Nat] /\ pays \in [Invoice -> Nat] /\ proc \in [Req -> ProcType]
        /\ invoice \in [Invoice -> {NoInvoice} \cup [status : {"pending", "paid", "refunded"}, sub : Sub]]
    BY DEF TypeOK, BooksOK, RequestsOK
  <1>1. ASSUME NEW i \in Invoice, RefundInvoice(q, i) PROVE RefundsFit'
    <2>1. /\ invoice[i].status = "paid" /\ UNCHANGED <<invoice, refunds, pays>>
          /\ contested' = IF Refunding(i) = {} THEN contested ELSE contested \cup {i}
      BY <1>1 DEF RefundInvoice, MayRefund, tables
    <2>2. /\ proc[q].pc = "idle" /\ proc'[q].pc = "refund" /\ proc'[q].on = i
          /\ \A r \in Req \ {q} : proc'[r] = proc[r]
      BY <1>0, <1>1 DEF RefundInvoice, Enter, At
    <2>3. \A j \in Invoice \ {i} : Refunding(j)' = Refunding(j)
      BY <2>2 DEF Refunding
    <2>4. Refunding(i)' = Refunding(i) \cup {q}
      BY <2>2 DEF Refunding
    <2>5. \A r \in Req : At(r, "refunded")' <=> At(r, "refunded")
      BY <2>2 DEF At
    <2>6. QED
      BY <2>1, <2>2, <2>3, <2>4, <2>5 DEF RefundsFit, Refunding, At
  <1>2. ASSUME RefundPayment(q) PROVE RefundsFit'
    <2>0. PICK i \in Invoice : proc[q].on = i
      BY <1>2 DEF RefundPayment, TypeOK, RequestsOK, Ready, At
    <2>1. /\ proc[q].pc = "refund"
          /\ UNCHANGED <<invoice, pays, contested>>
          /\ refunds'[i] = refunds[i] + 1 /\ \A j \in Invoice \ {i} : refunds'[j] = refunds[j]
      BY <1>0, <1>2, <2>0 DEF RefundPayment, At, tables
    <2>2. /\ proc'[q].pc = "refunded" /\ proc'[q].on = i
          /\ \A r \in Req \ {q} : proc'[r] = proc[r]
      BY <1>0, <1>2, <2>0 DEF RefundPayment, Goto, ProcType
    <2>3. q \in Refunding(i) /\ \A j \in Invoice : Refunding(j)' = Refunding(j)
      BY <2>0, <2>1, <2>2 DEF Refunding
    <2>4. At(q, "refunded")' /\ ~At(q, "refunded")
          /\ \A r \in Req \ {q} : At(r, "refunded")' <=> At(r, "refunded")
      BY <2>1, <2>2 DEF At
    <2>5. \A j \in Invoice \ {i} : q \notin Refunding(j)
      BY <2>0 DEF Refunding
    <2>6. Refunding(i) \subseteq Req /\ \A j \in Invoice : refunds[j] \in Nat /\ pays[j] \in Nat
      BY <1>0 DEF Refunding
    <2>7. ASSUME NEW j \in Invoice \ contested
          PROVE  /\ \A r, s \in Refunding(j)' : r = s
                 /\ Refunding(j)' # {} => invoice'[j].status = "paid"
                 /\ invoice'[j].status = "paid" /\ (\A r \in Refunding(j)' : ~At(r, "refunded")')
                        => refunds'[j] < pays'[j]
                 /\ refunds'[j] <= pays'[j]
      <3>1. CASE j = i
        <4>1. refunds[i] < pays[i]
          BY <2>3, <2>4, <3>1 DEF RefundsFit
        <4>2. QED
          BY <2>1, <2>3, <2>4, <2>6, <3>1, <4>1 DEF RefundsFit
      <3>2. CASE j # i
        BY <2>1, <2>3, <2>4, <2>5, <2>6, <3>2 DEF RefundsFit, Refunding
      <3>3. QED
        BY <3>1, <3>2
    <2>8. QED
      BY <2>1, <2>7 DEF RefundsFit
  <1>3. ASSUME RefundFails(q) \/ SaveRefunded(q) PROVE RefundsFit'
    <2>0. PICK i \in Invoice : proc[q].on = i /\ invoice[i] # NoInvoice
      BY <1>3 DEF RefundFails, SaveRefunded, TypeOK, RequestsOK, Ready, At
    <2>1. /\ proc[q].pc \in {"refund", "refunded"}
          /\ UNCHANGED <<refunds, pays, contested>>
      BY <1>3 DEF RefundFails, SaveRefunded, At, books, tables
    <2>2. \A j \in Invoice \ {i} : invoice'[j] = invoice[j]
      BY <1>0, <1>3, <2>0 DEF RefundFails, SaveRefunded, books
    <2>3. (proc[q].pc = "refund" /\ invoice'[i] = invoice[i]) \/ invoice'[i].status = "refunded"
      BY <1>0, <1>3, <2>0, <2>1 DEF RefundFails, SaveRefunded, NoInvoice, books, At
    <2>4. proc'[q].pc = "idle" /\ \A r \in Req \ {q} : proc'[r] = proc[r]
      BY <1>0, <1>3 DEF RefundFails, SaveRefunded, Done, Idle
    <2>5. q \in Refunding(i) /\ Refunding(i)' = Refunding(i) \ {q}
          /\ \A j \in Invoice \ {i} : Refunding(j)' = Refunding(j)
      BY <2>0, <2>1, <2>4 DEF Refunding
    <2>6. \A r \in Req \ {q} : At(r, "refunded")' <=> At(r, "refunded")
      BY <2>4 DEF At
    <2>7. \A j \in Invoice \ {i} : q \notin Refunding(j)
      BY <2>0 DEF Refunding
    <2>8. proc[q].pc = "refund" => ~At(q, "refunded")
      BY DEF At
    <2>9. \A j \in Invoice : Refunding(j) \subseteq Req
      BY DEF Refunding
    <2>10. ASSUME NEW j \in Invoice \ contested
           PROVE  /\ \A r, s \in Refunding(j)' : r = s
                  /\ Refunding(j)' # {} => invoice'[j].status = "paid"
                  /\ invoice'[j].status = "paid" /\ (\A r \in Refunding(j)' : ~At(r, "refunded")')
                         => refunds'[j] < pays'[j]
                  /\ refunds'[j] <= pays'[j]
      <3>1. CASE j = i
        <4>1. Refunding(i)' = {}
          BY <2>5, <3>1 DEF RefundsFit
        <4>2. CASE invoice'[i].status = "refunded"
          BY <2>1, <3>1, <4>1, <4>2 DEF RefundsFit
        <4>3. CASE proc[q].pc = "refund" /\ invoice'[i] = invoice[i]
          <5>1. \A r \in Refunding(i) : r = q
            BY <2>5, <3>1 DEF RefundsFit
          <5>2. refunds[i] < pays[i]
            BY <2>5, <2>8, <3>1, <4>3, <5>1 DEF RefundsFit
          <5>3. QED
            BY <2>1, <3>1, <4>1, <5>2 DEF RefundsFit
        <4>4. QED
          BY <2>3, <4>2, <4>3
      <3>2. CASE j # i
        BY <2>1, <2>2, <2>5, <2>6, <2>7, <2>9, <3>2 DEF RefundsFit
      <3>3. QED
        BY <3>1, <3>2
    <2>11. QED
      BY <2>1, <2>10 DEF RefundsFit
  <1>4. QED
    BY <1>1, <1>2, <1>3

\* The provider is told to refund an invoice at most once for each time it was
\* paid (RefundedOncePerPayment of Billing), unless two refunds overlap or a
\* crash cuts one off.
THEOREM RefundsCorrect == Spec => []RefundedOncePerPayment
  <1>1. Init => RefundsFit
    BY DEF Init, TablesInit, BillingInit, RefundsFit, Refunding, Idle, NoInvoice
  <1>2. TypeOK /\ RefundsFit /\ [Next]_vars => RefundsFit'
    <2> SUFFICES ASSUME TypeOK, RefundsFit, [Next]_vars PROVE RefundsFit'
      OBVIOUS
    <2>0. ASSUME UNCHANGED books, UNCHANGED proc PROVE RefundsFit'
      BY <2>0, RefundsRest DEF books, StaysOut
    <2>1. ASSUME NEW p \in Plan, CreatePlan(p) \/ \E status \in {"active", "inactive"} : UpdatePlan(p, status)
          PROVE  RefundsFit'
      BY <2>0, <2>1 DEF CreatePlan, UpdatePlan
    <2>2. ASSUME NEW s \in Sub,
                 \/ TimePasses(s) \/ \E status \in {"pending", "active"} : UpdateSubscriptionStatus(s, status)
                 \/ \E c \in Customer, p \in Plan, status \in {"pending", "active", "closed"} :
                       CreateSubscription(s, c, p, status)
          PROVE  RefundsFit'
      BY <2>0, <2>2 DEF TimePasses, UpdateSubscriptionStatus, CreateSubscription
    <2>3. ASSUME NEW c \in Customer,
                 SuspendCustomer(c) \/ ActivateCustomer(c) \/ ActivateSubscription(c) \/ Register(c)
          PROVE  RefundsFit'
      BY <2>0, <2>3 DEF SuspendCustomer, ActivateCustomer, ActivateSubscription, Register
    <2>4. ASSUME NEW a \in Alloc, SuspendProxy(a) PROVE RefundsFit'
      BY <2>0, <2>4 DEF SuspendProxy
    <2>5. ASSUME NEW q \in Req,
                 \/ SuspendExistingAllocations(q)
                 \/ \E s \in Sub : CloseSubscription(q, s)
                 \/ \E c \in Customer : AbuseSuspendCustomer(q, c)
          PROVE  RefundsFit'
      <3>1. UNCHANGED books
        BY <2>5 DEF SuspendExistingAllocations, CloseSubscription, AbuseSuspendCustomer
      <3>2. StaysOut({"refund", "refunded"})
        BY <2>5, EnterOutside, DoneOutside
           DEF SuspendExistingAllocations, CloseSubscription, AbuseSuspendCustomer, At
      <3>3. QED
        BY <3>1, <3>2, RefundsRest DEF books
    <2>6. ASSUME NEW i \in Invoice, MarkInvoicePaid(i) PROVE RefundsFit'
      BY <2>6, RefundsPay DEF MarkInvoicePaid, StaysOut
    <2>7. ASSUME NEW q \in Req, PayVerified(q) PROVE RefundsFit'
      <3>1. proc[q].on \in Invoice /\ invoice[proc[q].on] # NoInvoice
        BY <2>7 DEF PayVerified, TypeOK, RequestsOK, Ready, At
      <3>2. StaysOut({"refund", "refunded"})
        BY <2>7, DoneOutside DEF PayVerified, At
      <3>3. QED
        BY <2>7, <3>1, <3>2, RefundsPay DEF PayVerified
    <2>8. ASSUME NEW i \in Invoice, NEW s \in Sub, GenerateInvoice(i, s) PROVE RefundsFit'
      <3>1. /\ invoice[i] = NoInvoice /\ invoice'[i].status = "pending"
            /\ \A j \in Invoice \ {i} : invoice'[j] = invoice[j]
            /\ UNCHANGED <<proc, refunds, pays, contested>>
        BY <2>8 DEF GenerateInvoice, TypeOK, BooksOK
      <3>2. \A j \in Invoice : Refunding(j)' = Refunding(j)
        BY <3>1 DEF Refunding
      <3>3. \A q \in Req : At(q, "refunded")' <=> At(q, "refunded")
        BY <3>1 DEF At
      <3>4. i \notin contested => Refunding(i) = {}
        BY <3>1 DEF RefundsFit, NoInvoice
      <3>5. \A j \in Invoice : Refunding(j) \subseteq Req
        BY DEF Refunding
      <3>6. ASSUME NEW j \in Invoice \ contested
            PROVE  /\ \A r, s2 \in Refunding(j)' : r = s2
                   /\ Refunding(j)' # {} => invoice'[j].status = "paid"
                   /\ invoice'[j].status = "paid" /\ (\A r \in Refunding(j)' : ~At(r, "refunded")')
                          => refunds'[j] < pays'[j]
                   /\ refunds'[j] <= pays'[j]
        BY <3>1, <3>2, <3>3, <3>4, <3>5 DEF RefundsFit
      <3>7. QED
        BY <3>1, <3>6 DEF RefundsFit
    <2>9. ASSUME NEW q \in Req, NEW i \in Invoice, VerifyInvoicePayment(q, i) PROVE RefundsFit'
      <3>1. StaysOut({"refund", "refunded"})
        BY <2>9, EnterOutside DEF VerifyInvoicePayment
      <3>2. QED
        BY <2>9, <3>1, RefundsRest DEF VerifyInvoicePayment, books
    <2>10. ASSUME NEW q \in Req,
                  \/ \E i \in Invoice : RefundInvoice(q, i)
                  \/ RefundPayment(q) \/ RefundFails(q) \/ SaveRefunded(q)
           PROVE  RefundsFit'
      BY <2>10, RefundsStep
    <2>11. CASE Crash
      <3>1. \A j \in Invoice : Refunding(j)' = {}
        BY <2>11 DEF Crash, Refunding, Idle
      <3>2. /\ UNCHANGED <<invoice, refunds, pays>>
            /\ \A j \in Invoice \ contested' : j \notin contested /\ Refunding(j) = {}
        BY <2>11 DEF Crash
      <3>3. QED
        BY <3>1, <3>2 DEF RefundsFit
    <2>12. CASE AllocationNext /\ UNCHANGED books
      <3>1. CASE OthersNext
        BY <2>0, <2>12, <3>1 DEF OthersNext, ManagerReads, ManagerSaves, RotateAllocation
      <3>2. ASSUME NEW q \in Req, KeysNext(q) \/ AllocateNext(q) \/ RotateNext(q) PROVE RefundsFit'
        <4>1. StaysOut({"refund", "refunded"})
          BY <3>2, KeysOutside, AllocateOutside, RotateOutside DEF StaysOut
        <4>2. QED
          BY <2>12, <4>1, RefundsRest DEF books
      <3>3. QED
        BY <2>12, <3>1, <3>2, CustomerSteps
    <2>13. CASE UNCHANGED vars
      BY <2>0, <2>13 DEF vars
    <2>14. CASE BillingNext
      BY <2>1, <2>2, <2>3, <2>4, <2>5, <2>6, <2>7, <2>8, <2>9, <2>10, <2>11, <2>14 DEF BillingNext, AdminRequest
    <2>15. QED
      BY <2>12, <2>13, <2>14 DEF Next
  <1>3. RefundsFit => RefundedOncePerPayment
    BY DEF RefundsFit, RefundedOncePerPayment
  <1>4. QED
    BY <1>1, <1>2, <1>3, TypeCorrect, PTL DEF Spec
-----------------------------------------------------------------------------
(* Customers who lost the right to their proxies.                          *)

\* Nobody loses the right, and nobody gets a proxy.
LEMMA BarredRest ==
    ASSUME BarredLosesProxies, StaysOut({"suspendAllocations"}),
           \A c \in Customer : /\ Barred(c)' => Barred(c)
                               /\ Active(c)' \subseteq Active(c),
           cut \subseteq cut', overtaken \subseteq overtaken'
    PROVE  BarredLosesProxies'
  <1>1. \A c \in Customer : Closing(c)' = Closing(c)
    BY DEF StaysOut, Closing
  <1>2. QED
    BY <1>1 DEF BarredLosesProxies

\* Nothing that the property speaks of changes.
LEMMA BarredSame ==
    ASSUME BarredLosesProxies, StaysOut({"suspendAllocations"}),
           UNCHANGED <<account, sub, alloc, cut, overtaken>>
    PROVE  BarredLosesProxies'
  <1>1. \A c \in Customer : (Barred(c)' <=> Barred(c)) /\ Active(c)' = Active(c)
    BY DEF Barred, Active
  <1>2. QED
    BY <1>1, BarredRest

\* One customer loses every proxy, or the request that will take them is there.
LEMMA BarredOne ==
    ASSUME BarredLosesProxies, NEW c \in Customer,
           Active(c)' = {} \/ Closing(c)' # {},
           \A d \in Customer \ {c} : /\ Barred(d)' => Barred(d)
                                     /\ Active(d)' \subseteq Active(d)
                                     /\ Closing(d)' = Closing(d),
           cut \subseteq cut', overtaken \subseteq overtaken'
    PROVE  BarredLosesProxies'
  BY DEF BarredLosesProxies

\* Saving a status that is not "closed" bars nobody.
LEMMA SaveOpens ==
    ASSUME TypeOK, NEW s \in Sub, NEW status \in {"pending", "active"}, SaveStatus(s, status),
           UNCHANGED <<account, alloc>>
    PROVE  \A c \in Customer : (Barred(c)' => Barred(c)) /\ Active(c)' = Active(c)
  <1>1. sub \in [Sub -> {NoSub} \cup [status : {"pending", "active", "closed"}, customer : Customer,
                                      plan : Plan, current : BOOLEAN]]
    BY DEF TypeOK, TablesOK
  <1>2. /\ sub'[s].status = status /\ sub'[s].customer = sub[s].customer
        /\ \A t \in Sub \ {s} : sub'[t] = sub[t]
    BY <1>1 DEF SaveStatus, NoSub
  <1>3. QED
    BY <1>2 DEF Barred, Active

\* What suspending the proxies of one customer does to all.
LEMMA SuspendedActive ==
    ASSUME TypeOK, NEW c \in Customer, alloc' = SuspendActive(c)
    PROVE  /\ Active(c)' = {}
           /\ \A d \in Customer \ {c} : Active(d)' = Active(d)
           /\ \A a \in Alloc : alloc'[a].proxy = alloc[a].proxy
  <1>1. \A a \in Alloc : /\ a \in Active(c) => /\ alloc'[a].status = "suspended"
                                               /\ alloc'[a].customer = c
                                               /\ alloc'[a].proxy = alloc[a].proxy
                         /\ a \notin Active(c) => alloc'[a] = alloc[a]
    BY DEF SuspendActive, Active, TypeOK, TablesOK, NoAlloc
  <1>2. QED
    BY <1>1 DEF Active

\* A step of billing and administration.
LEMMA BarredBilling ==
    ASSUME TypeOK, BarredLosesProxies, BillingNext, UNCHANGED custody
    PROVE  BarredLosesProxies'
  <1> DEFINE X == {"suspendAllocations"}
  <1>0. UNCHANGED overtaken
    BY DEF custody
  <1>1. ASSUME UNCHANGED proc PROVE StaysOut(X)
    BY <1>1 DEF StaysOut
  <1>2. ASSUME NEW p \in Plan, CreatePlan(p) \/ \E status \in {"active", "inactive"} : UpdatePlan(p, status)
        PROVE  BarredLosesProxies'
    BY <1>0, <1>1, <1>2, BarredSame DEF CreatePlan, UpdatePlan, books
  <1>3. ASSUME NEW s \in Sub, NEW status \in {"pending", "active"}, UpdateSubscriptionStatus(s, status)
        PROVE  BarredLosesProxies'
    BY <1>0, <1>1, <1>3, SaveOpens, BarredRest DEF UpdateSubscriptionStatus, books
  <1>4. ASSUME NEW s \in Sub, NEW c \in Customer, NEW p \in Plan, NEW status \in {"pending", "active", "closed"},
               CreateSubscription(s, c, p, status)
        PROVE  BarredLosesProxies'
    <2>1. /\ sub[s].customer = Nobody /\ \A t \in Sub \ {s} : sub'[t] = sub[t]
          /\ UNCHANGED <<account, alloc, proc, cut>>
      BY <1>4 DEF CreateSubscription, NoSub, books, TypeOK, TablesOK
    <2>2. \A d \in Customer : (Barred(d)' => Barred(d)) /\ Active(d)' = Active(d)
      BY <2>1, RentalAssumption DEF Barred, Active
    <2>3. QED
      BY <1>0, <1>1, <2>1, <2>2, BarredRest
  <1>5. ASSUME NEW s \in Sub, TimePasses(s) PROVE BarredLosesProxies'
    <2>1. /\ \A t \in Sub : sub'[t].customer = sub[t].customer /\ sub'[t].status = sub[t].status
          /\ UNCHANGED <<account, alloc, proc, cut>>
      BY <1>5 DEF TimePasses, NoSub, books, TypeOK, TablesOK
    <2>2. \A d \in Customer : (Barred(d)' => Barred(d)) /\ Active(d)' = Active(d)
      BY <2>1 DEF Barred, Active
    <2>3. QED
      BY <1>0, <1>1, <2>1, <2>2, BarredRest
  <1>6. ASSUME NEW c \in Customer, SuspendCustomer(c) PROVE BarredLosesProxies'
    <2>1. /\ account' = [account EXCEPT ![c] = "suspended"]
          /\ sub' = [s \in Sub |-> IF sub[s].customer = c THEN [sub[s] EXCEPT !.status = "closed"] ELSE sub[s]]
          /\ alloc' = SuspendActive(c) /\ UNCHANGED <<proc, cut>>
      BY <1>6 DEF SuspendCustomer, SaveAccount, books
    <2>2. \A s \in Sub : sub'[s].customer = sub[s].customer /\ (sub[s].customer # c => sub'[s] = sub[s])
      BY <2>1 DEF TypeOK, TablesOK, NoSub
    <2>3. \A d \in Customer \ {c} : (Barred(d)' => Barred(d)) /\ Closing(d)' = Closing(d)
      BY <2>1, <2>2 DEF Barred, Closing, TypeOK, TablesOK
    <2>4. QED
      BY <1>0, <2>1, <2>3, SuspendedActive, BarredOne
  <1>7. ASSUME NEW c \in Customer, ActivateCustomer(c) \/ Register(c) PROVE BarredLosesProxies'
    <2>1. account' = [account EXCEPT ![c] = "active"] /\ UNCHANGED <<sub, alloc, proc, cut>>
      BY <1>7 DEF ActivateCustomer, Register, SaveAccount, books
    <2>2. \A d \in Customer : (Barred(d)' => Barred(d)) /\ Active(d)' = Active(d)
      BY <2>1 DEF Barred, Active, TypeOK, TablesOK
    <2>3. QED
      BY <1>0, <1>1, <2>1, <2>2, BarredRest
  <1>8. ASSUME NEW c \in Customer, ActivateSubscription(c) PROVE BarredLosesProxies'
    BY <1>0, <1>1, <1>8, BarredSame DEF ActivateSubscription, books
  <1>9. ASSUME NEW a \in Alloc, SuspendProxy(a) PROVE BarredLosesProxies'
    <2>1. /\ alloc'[a].status = "suspended" /\ \A b \in Alloc \ {a} : alloc'[b] = alloc[b]
          /\ UNCHANGED <<account, sub, proc, cut>>
      BY <1>9 DEF SuspendProxy, books, TypeOK, TablesOK, NoAlloc
    <2>2. \A d \in Customer : (Barred(d)' => Barred(d)) /\ Active(d)' \subseteq Active(d)
      BY <2>1 DEF Barred, Active
    <2>3. QED
      BY <1>0, <1>1, <2>1, <2>2, BarredRest
  <1>10. ASSUME NEW q \in Req, SuspendExistingAllocations(q) PROVE BarredLosesProxies'
    <2>0. PICK c \in Customer : proc[q].who = c
      BY <1>10 DEF SuspendExistingAllocations, TypeOK, RequestsOK, Ready, At
    <2>1. alloc' = SuspendActive(c) /\ UNCHANGED <<account, sub, cut>>
      BY <1>10, <2>0 DEF SuspendExistingAllocations, books
    <2>2. proc'[q].pc = "idle" /\ \A r \in Req \ {q} : proc'[r] = proc[r]
      BY <1>10 DEF SuspendExistingAllocations, Done, Idle, TypeOK, RequestsOK
    <2>3. \A d \in Customer \ {c} : (Barred(d)' => Barred(d)) /\ Closing(d)' = Closing(d)
      BY <2>0, <2>1, <2>2 DEF Barred, Closing
    <2>4. QED
      BY <1>0, <2>1, <2>3, SuspendedActive, BarredOne
  <1>11. ASSUME NEW q \in Req, NEW c \in Customer, UNCHANGED <<alloc, cut>>,
                Enter(q, "suspendAllocations", "none", c, Nothing, Nothing),
                \A d \in Customer \ {c} : Barred(d)' => Barred(d)
         PROVE  BarredLosesProxies'
    <2>1. /\ proc[q].pc = "idle" /\ proc'[q].pc = "suspendAllocations" /\ proc'[q].who = c
          /\ \A r \in Req \ {q} : proc'[r] = proc[r]
      BY <1>11 DEF Enter, At, TypeOK, RequestsOK
    <2>2. q \in Closing(c)' /\ \A d \in Customer \ {c} : Closing(d)' = Closing(d)
      BY <2>1 DEF Closing
    <2>3. \A d \in Customer : Active(d)' = Active(d)
      BY <1>11 DEF Active
    <2>4. QED
      BY <1>0, <1>11, <2>2, <2>3, BarredOne
  <1>12. ASSUME NEW q \in Req, NEW s \in Sub, CloseSubscription(q, s) PROVE BarredLosesProxies'
    <2>0. PICK c \in Customer : sub[s].customer = c
      BY <1>12 DEF CloseSubscription, TypeOK, TablesOK, NoSub
    <2>1. /\ Enter(q, "suspendAllocations", "none", c, Nothing, Nothing)
          /\ UNCHANGED <<account, alloc, cut>>
      BY <1>12, <2>0 DEF CloseSubscription, books
    <2>2. sub'[s].customer = c /\ \A t \in Sub \ {s} : sub'[t] = sub[t]
      BY <1>12, <2>0 DEF CloseSubscription, SaveStatus, TypeOK, TablesOK, NoSub
    <2>3. \A d \in Customer \ {c} : Barred(d)' => Barred(d)
      BY <2>0, <2>1, <2>2 DEF Barred
    <2>4. QED
      BY <1>11, <2>1, <2>3
  <1>13. ASSUME NEW q \in Req, NEW c \in Customer, AbuseSuspendCustomer(q, c) PROVE BarredLosesProxies'
    <2>1. /\ Enter(q, "suspendAllocations", "none", c, Nothing, Nothing)
          /\ account' = [account EXCEPT ![c] = "suspended"] /\ UNCHANGED <<sub, alloc, cut>>
      BY <1>13 DEF AbuseSuspendCustomer, SaveAccount, books
    <2>2. \A d \in Customer \ {c} : Barred(d)' => Barred(d)
      BY <2>1 DEF Barred, TypeOK, TablesOK
    <2>3. QED
      BY <1>11, <2>1, <2>2
  <1>14. ASSUME NEW i \in Invoice, invoice[i] # NoInvoice, Pay(i), StaysOut(X) PROVE BarredLosesProxies'
    <2>1. invoice[i].sub \in Sub
      BY <1>14 DEF TypeOK, BooksOK, NoInvoice
    <2>2. SaveStatus(invoice[i].sub, "active") /\ UNCHANGED <<account, alloc, cut>>
      BY <1>14 DEF Pay
    <2>3. \A c \in Customer : (Barred(c)' => Barred(c)) /\ Active(c)' = Active(c)
      BY <2>1, <2>2, SaveOpens
    <2>4. QED
      BY <1>0, <1>14, <2>2, <2>3, BarredRest
  <1>15. ASSUME NEW i \in Invoice, MarkInvoicePaid(i) PROVE BarredLosesProxies'
    BY <1>1, <1>14, <1>15 DEF MarkInvoicePaid
  <1>16. ASSUME NEW q \in Req, PayVerified(q) PROVE BarredLosesProxies'
    <2>1. proc[q].on \in Invoice /\ invoice[proc[q].on] # NoInvoice
      BY <1>16 DEF PayVerified, TypeOK, RequestsOK, Ready, At
    <2>2. StaysOut(X)
      BY <1>16, DoneOutside DEF PayVerified, At
    <2>3. QED
      BY <1>14, <1>16, <2>1, <2>2 DEF PayVerified
  <1>17. ASSUME NEW i \in Invoice, NEW s \in Sub, GenerateInvoice(i, s) PROVE BarredLosesProxies'
    BY <1>0, <1>1, <1>17, BarredSame DEF GenerateInvoice, tables
  <1>18. ASSUME NEW q \in Req, NEW i \in Invoice, VerifyInvoicePayment(q, i) \/ RefundInvoice(q, i)
         PROVE  BarredLosesProxies'
    <2>1. StaysOut(X)
      BY <1>18, EnterOutside DEF VerifyInvoicePayment, RefundInvoice
    <2>2. QED
      BY <1>0, <1>18, <2>1, BarredSame DEF VerifyInvoicePayment, RefundInvoice, tables, books
  <1>19. ASSUME NEW q \in Req, RefundPayment(q) \/ RefundFails(q) \/ SaveRefunded(q) PROVE BarredLosesProxies'
    <2>1. StaysOut(X)
      BY <1>19, DoneOutside, GotoOutside DEF RefundPayment, RefundFails, SaveRefunded, At
    <2>2. QED
      BY <1>0, <1>19, <2>1, BarredSame DEF RefundPayment, RefundFails, SaveRefunded, tables, books
  <1>20. CASE Crash
    <2>1. \A c \in Customer \ cut' : c \notin cut /\ Closing(c) = {}
      BY <1>20 DEF Crash
    <2>2. \A c \in Customer : (Barred(c)' <=> Barred(c)) /\ Active(c)' = Active(c)
      BY <1>20 DEF Crash, tables, Barred, Active
    <2>3. QED
      BY <1>0, <2>1, <2>2 DEF BarredLosesProxies
  <1>21. QED
    BY <1>2, <1>3, <1>4, <1>5, <1>6, <1>7, <1>8, <1>9, <1>10, <1>12, <1>13, <1>15, <1>16, <1>17, <1>18, <1>19,
       <1>20 DEF BillingNext, AdminRequest

\* A step of the customer service.
LEMMA BarredCustomers ==
    ASSUME TypeOK, BarredLosesProxies, AllocationNext, UNCHANGED books
    PROVE  BarredLosesProxies'
  <1>0. UNCHANGED cut
    BY DEF books
  <1>1. ASSUME NEW q \in Req, KeysNext(q) PROVE BarredLosesProxies'
    <2>1. StaysOut({"suspendAllocations"}) /\ UNCHANGED tables
      BY <1>1, KeysOutside DEF StaysOut
    <2>2. UNCHANGED overtaken
      BY <1>1 DEF KeysNext, AuthenticateSession, AuthenticateKey, CreateAPIKey, StampKey, DeleteAPIKey, custody
    <2>3. QED
      BY <1>0, <2>1, <2>2, BarredSame DEF tables
  <1>2. ASSUME NEW q \in Req, NEW a \in Alloc, InsertAllocation(q, a) PROVE BarredLosesProxies'
    <2>0. PICK c \in Customer : proc[q].who = c
      BY <1>2 DEF InsertAllocation, TypeOK, RequestsOK, Ready, At
    <2>1. StaysOut({"suspendAllocations"})
      BY <1>2, DoneOutside DEF InsertAllocation, At
    <2>2. /\ UNCHANGED <<account, sub>> /\ alloc'[a].customer = c
          /\ \A b \in Alloc \ {a} : alloc'[b] = alloc[b]
          /\ overtaken' = IF Barred(c) THEN overtaken \cup {a} ELSE overtaken
      BY <1>2, <2>0 DEF InsertAllocation, TypeOK, TablesOK
    <2>3. \A d \in Customer : (Barred(d)' <=> Barred(d)) /\ Closing(d)' = Closing(d)
      BY <2>1, <2>2 DEF Barred, Closing, StaysOut
    <2>4. Active(c)' \subseteq Active(c) \cup {a} /\ \A d \in Customer \ {c} : Active(d)' \subseteq Active(d)
      BY <2>2 DEF Active
    <2>5. QED
      BY <1>0, <2>2, <2>3, <2>4 DEF BarredLosesProxies
  <1>3. ASSUME NEW q \in Req, AllocateNext(q), \A a \in Alloc : ~InsertAllocation(q, a)
        PROVE  BarredLosesProxies'
    <2>1. StaysOut({"suspendAllocations"})
      BY <1>3, AllocateOutside DEF StaysOut
    <2>2. UNCHANGED <<tables, overtaken>>
      BY <1>3 DEF AllocateNext, ReadSubscription, EnforceAllocation, CheckAllocationAllowed, SelectRouted,
                  SelectUntaken, Choose, NoneUntaken, Refuse, custody
    <2>3. QED
      BY <1>0, <2>1, <2>2, BarredSame DEF tables
  <1>4. ASSUME NEW q \in Req, RotateNext(q) PROVE BarredLosesProxies'
    <2>1. StaysOut({"suspendAllocations"})
      BY <1>4, RotateOutside DEF StaysOut
    <2>2. UNCHANGED <<account, sub, overtaken>>
      BY <1>4 DEF RotateNext, ReleaseProxy, RotateProxy, ReadAllocation, RotateCredential, custody, tables
    <2>3. \A b \in Alloc : alloc'[b] = alloc[b] \/ alloc'[b].status = "deleted"
      <3>1. CASE ReadAllocation(q) \/ RotateCredential(q)
        BY <3>1 DEF ReadAllocation, RotateCredential, tables
      <3>2. CASE ReleaseProxy(q) \/ RotateProxy(q)
        <4>1. proc[q].on \in Alloc /\ alloc[proc[q].on] # NoAlloc
          BY <3>2 DEF ReleaseProxy, RotateProxy, TypeOK, RequestsOK, Ready, At
        <4>2. QED
          BY <3>2, <4>1 DEF ReleaseProxy, RotateProxy, Released, TypeOK, TablesOK, NoAlloc
      <3>3. QED
        BY <1>4, <3>1, <3>2 DEF RotateNext
    <2>4. \A d \in Customer : (Barred(d)' => Barred(d)) /\ Active(d)' \subseteq Active(d)
      BY <2>2, <2>3 DEF Barred, Active
    <2>5. QED
      BY <1>0, <2>1, <2>2, <2>4, BarredRest
  <1>5. CASE OthersNext
    <2>1. UNCHANGED <<proc, account, sub, overtaken>>
      BY <1>5 DEF OthersNext, ManagerReads, ManagerSaves, RotateAllocation, tables
    <2>2. \A b \in Alloc : alloc'[b].status = alloc[b].status /\ alloc'[b].customer = alloc[b].customer
      BY <1>5 DEF OthersNext, ManagerReads, ManagerSaves, RotateAllocation, tables, TypeOK, TablesOK, NoAlloc
    <2>3. \A d \in Customer : (Barred(d)' => Barred(d)) /\ Active(d)' = Active(d)
      BY <2>1, <2>2 DEF Barred, Active
    <2>4. QED
      BY <1>0, <2>1, <2>3, BarredRest DEF StaysOut
  <1>6. QED
    BY <1>1, <1>2, <1>3, <1>4, <1>5, CustomerSteps

\* A customer without account or subscription holds no proxy once the request
\* that took them away has ended (BarredLosesProxies of Rental), except one
\* given by a request that was under way, and after a crash.
THEOREM BarredCorrect == Spec => []BarredLosesProxies
  <1>1. Init => BarredLosesProxies
    BY RentalAssumption DEF Init, TablesInit, BarredLosesProxies, Active, NoAlloc
  <1>2. TypeOK /\ BarredLosesProxies /\ [Next]_vars => BarredLosesProxies'
    <2> SUFFICES ASSUME TypeOK, BarredLosesProxies, [Next]_vars PROVE BarredLosesProxies'
      OBVIOUS
    <2>1. CASE UNCHANGED vars
      BY <2>1, BarredSame DEF vars, tables, books, custody, StaysOut
    <2>2. QED
      BY <2>1, BarredBilling, BarredCustomers DEF Next
  <1>3. QED
    BY <1>1, <1>2, TypeCorrect, PTL DEF Spec
-----------------------------------------------------------------------------
(* Logins.                                                                 *)

\* The login of a row nobody disturbed belongs to an allocation of that row,
\* and who is rotating a credential still has the allocation's row in hand.
LoginsFit ==
    /\ \A p \in Proxy \ disturbed : login[p] # 0 =>
           \E a \in Alloc : alloc[a].proxy = p /\ secret[a] = login[p]
    /\ \A q \in Req : At(q, "renew") => alloc[proc[q].on].proxy = proc[q].via \/ proc[q].via \in disturbed

LEMMA LoginsRest ==
    ASSUME TypeOK, LoginsFit, UNCHANGED <<secret, login, disturbed>>, StaysOut({"renew"}),
           \A a \in Alloc : alloc'[a].proxy = alloc[a].proxy
    PROVE  LoginsFit'
  <1>1. \A q \in Req : At(q, "renew") => proc[q].on \in Alloc
    BY DEF TypeOK, RequestsOK, Ready, At
  <1>2. \A q \in Req : At(q, "renew")' => At(q, "renew") /\ proc'[q] = proc[q]
    BY DEF StaysOut, At
  <1>3. QED
    BY <1>1, <1>2 DEF LoginsFit

\* A step of billing and administration.
LEMMA LoginsBilling ==
    ASSUME TypeOK, LoginsFit, BillingNext, UNCHANGED custody
    PROVE  LoginsFit'
  <1>0. UNCHANGED <<secret, login, disturbed>>
    BY DEF custody
  <1>1. \A a \in Alloc : alloc'[a].proxy = alloc[a].proxy
    <2>1. ASSUME UNCHANGED alloc PROVE \A a \in Alloc : alloc'[a].proxy = alloc[a].proxy
      BY <2>1
    <2>2. ASSUME NEW c \in Customer, SuspendCustomer(c) PROVE \A a \in Alloc : alloc'[a].proxy = alloc[a].proxy
      BY <2>2, SuspendedActive DEF SuspendCustomer
    <2>3. ASSUME NEW q \in Req, SuspendExistingAllocations(q)
          PROVE  \A a \in Alloc : alloc'[a].proxy = alloc[a].proxy
      <3>1. proc[q].who \in Customer
        BY <2>3 DEF SuspendExistingAllocations, TypeOK, RequestsOK, Ready, At
      <3>2. QED
        BY <2>3, <3>1, SuspendedActive DEF SuspendExistingAllocations
    <2>4. ASSUME NEW b \in Alloc, SuspendProxy(b) PROVE \A a \in Alloc : alloc'[a].proxy = alloc[a].proxy
      BY <2>4 DEF SuspendProxy, TypeOK, TablesOK, NoAlloc
    <2>5. ASSUME NEW p \in Plan, CreatePlan(p) \/ \E status \in {"active", "inactive"} : UpdatePlan(p, status)
          PROVE  UNCHANGED alloc
      BY <2>5 DEF CreatePlan, UpdatePlan
    <2>6. ASSUME NEW s \in Sub,
                 \/ TimePasses(s) \/ \E status \in {"pending", "active"} : UpdateSubscriptionStatus(s, status)
                 \/ \E q \in Req : CloseSubscription(q, s)
                 \/ \E c \in Customer, p \in Plan, status \in {"pending", "active", "closed"} :
                       CreateSubscription(s, c, p, status)
          PROVE  UNCHANGED alloc
      BY <2>6 DEF TimePasses, UpdateSubscriptionStatus, CloseSubscription, CreateSubscription
    <2>7. ASSUME NEW c \in Customer,
                 \/ ActivateCustomer(c) \/ ActivateSubscription(c) \/ Register(c)
                 \/ \E q \in Req : AbuseSuspendCustomer(q, c)
          PROVE  UNCHANGED alloc
      BY <2>7 DEF ActivateCustomer, ActivateSubscription, Register, AbuseSuspendCustomer
    <2>8. ASSUME NEW i \in Invoice,
                 \/ MarkInvoicePaid(i) \/ \E s \in Sub : GenerateInvoice(i, s)
                 \/ \E q \in Req : VerifyInvoicePayment(q, i) \/ RefundInvoice(q, i)
          PROVE  UNCHANGED alloc
      BY <2>8 DEF MarkInvoicePaid, Pay, GenerateInvoice, VerifyInvoicePayment, RefundInvoice, tables
    <2>9. ASSUME NEW q \in Req, PayVerified(q) \/ RefundPayment(q) \/ RefundFails(q) \/ SaveRefunded(q)
          PROVE  UNCHANGED alloc
      BY <2>9 DEF PayVerified, Pay, RefundPayment, RefundFails, SaveRefunded, tables
    <2>10. CASE Crash
      BY <2>10 DEF Crash, tables
    <2>11. QED
      BY <2>1, <2>2, <2>3, <2>4, <2>5, <2>6, <2>7, <2>8, <2>9, <2>10 DEF BillingNext, AdminRequest
  <1>2. CASE Crash
    <2>1. \A q \in Req : ~At(q, "renew")'
      BY <1>2 DEF Crash, At, Idle
    <2>2. QED
      BY <1>0, <1>1, <2>1 DEF LoginsFit
  <1>3. CASE ~Crash
    <2>1. StaysOut({"renew"})
      BY <1>3, BillingOutside DEF StaysOut
    <2>2. QED
      BY <1>0, <1>1, <2>1, LoginsRest
  <1>4. QED
    BY <1>2, <1>3

\* A new credential: the allocation gets a fresh row, or keeps the one it had.
LEMMA LoginsInsert ==
    ASSUME TypeOK, LoginsFit, NEW q \in Req, NEW a \in Alloc, InsertAllocation(q, a)
    PROVE  LoginsFit'
  <1>0. PICK p \in Proxy : proc[q].via = p
    BY DEF InsertAllocation, TypeOK, RequestsOK, Ready, At
  <1>1. /\ alloc[a] = NoAlloc /\ alloc'[a].proxy = p /\ \A b \in Alloc \ {a} : alloc'[b] = alloc[b]
        /\ UNCHANGED disturbed
    BY <1>0 DEF InsertAllocation, TypeOK, TablesOK
  <1>2. /\ login'[p] = issued + 1 /\ secret'[a] = issued + 1
        /\ \A r \in Proxy \ {p} : login'[r] = login[r]
        /\ \A b \in Alloc \ {a} : secret'[b] = secret[b]
    BY <1>0 DEF InsertAllocation, Renewed, TypeOK, CustodyOK
  <1>3. StaysOut({"renew"})
    BY DoneOutside DEF InsertAllocation, At
  <1>4. alloc[a].proxy = Nothing /\ Nothing \notin Proxy
    BY <1>1, RentalAssumption DEF NoAlloc
  <1>5. ASSUME NEW r \in Proxy \ disturbed', login'[r] # 0
        PROVE  \E b \in Alloc : alloc'[b].proxy = r /\ secret'[b] = login'[r]
    <2>1. CASE r = p
      BY <1>1, <1>2, <2>1
    <2>2. CASE r # p
      <3>1. PICK b \in Alloc : alloc[b].proxy = r /\ secret[b] = login[r]
        BY <1>1, <1>2, <1>5, <2>2 DEF LoginsFit
      <3>2. b # a
        BY <1>4, <3>1
      <3>3. QED
        BY <1>1, <1>2, <2>2, <3>1, <3>2
    <2>3. QED
      BY <2>1, <2>2
  <1>6. ASSUME NEW r \in Req, At(r, "renew")'
        PROVE  (alloc[proc[r].on].proxy = proc[r].via \/ proc[r].via \in disturbed)'
    <2>1. At(r, "renew") /\ proc'[r] = proc[r]
      BY <1>3, <1>6 DEF StaysOut, At
    <2>2. proc[r].on \in Alloc /\ alloc[proc[r].on] # NoAlloc
      BY <2>1 DEF TypeOK, RequestsOK, Ready, At
    <2>3. QED
      BY <1>1, <2>1, <2>2 DEF LoginsFit
  <1>7. QED
    BY <1>5, <1>6 DEF LoginsFit

LEMMA LoginsRotate ==
    ASSUME TypeOK, LoginsFit, NEW q \in Req, RotateCredential(q)
    PROVE  LoginsFit'
  <1>0. PICK p \in Proxy, a \in Alloc : proc[q].via = p /\ proc[q].on = a
    BY DEF RotateCredential, TypeOK, RequestsOK, Ready, At
  <1>1. /\ UNCHANGED alloc
        /\ disturbed' = IF alloc[a].proxy = p THEN disturbed ELSE disturbed \cup {alloc[a].proxy}
        /\ alloc[a].proxy = p \/ p \in disturbed
    BY <1>0 DEF RotateCredential, LoginsFit, tables
  <1>2. /\ login'[p] = issued + 1 /\ secret'[a] = issued + 1
        /\ \A r \in Proxy \ {p} : login'[r] = login[r]
        /\ \A b \in Alloc \ {a} : secret'[b] = secret[b]
    BY <1>0 DEF RotateCredential, Renewed, TypeOK, CustodyOK
  <1>3. proc'[q].pc = "idle" /\ \A r \in Req \ {q} : proc'[r] = proc[r]
    BY DEF RotateCredential, Done, Idle, TypeOK, RequestsOK
  <1>4. ASSUME NEW r \in Proxy \ disturbed', login'[r] # 0
        PROVE  \E b \in Alloc : alloc'[b].proxy = r /\ secret'[b] = login'[r]
    <2>1. CASE r = p
      BY <1>1, <1>2, <1>4, <2>1
    <2>2. CASE r # p
      <3>1. r \notin disturbed /\ alloc[a].proxy # r
        BY <1>1, <1>4, <2>2
      <3>2. PICK b \in Alloc : alloc[b].proxy = r /\ secret[b] = login[r]
        BY <1>2, <1>4, <2>2, <3>1 DEF LoginsFit
      <3>3. QED
        BY <1>1, <1>2, <2>2, <3>1, <3>2
    <2>3. QED
      BY <2>1, <2>2
  <1>5. ASSUME NEW r \in Req, At(r, "renew")'
        PROVE  (alloc[proc[r].on].proxy = proc[r].via \/ proc[r].via \in disturbed)'
    <2>1. At(r, "renew") /\ proc'[r] = proc[r]
      BY <1>3, <1>5 DEF At
    <2>2. QED
      BY <1>1, <2>1 DEF LoginsFit
  <1>6. QED
    BY <1>4, <1>5 DEF LoginsFit

\* An allocation is moved, or a proxies row saved from a copy.
LEMMA LoginsOthers ==
    ASSUME TypeOK, LoginsFit, OthersNext
    PROVE  LoginsFit'
  <1>0. \A r \in Req : At(r, "renew") => proc[r].on \in Alloc /\ alloc[proc[r].on].proxy \in Proxy
    BY DEF TypeOK, RequestsOK, Ready, At, TablesOK, NoAlloc
  <1>1. ASSUME NEW p \in Proxy, ManagerReads(p) PROVE LoginsFit'
    BY <1>1, LoginsRest DEF ManagerReads, StaysOut, tables
  <1>2. ASSUME NEW p \in Proxy, ManagerSaves(p) PROVE LoginsFit'
    <2>1. /\ UNCHANGED <<alloc, proc, secret>> /\ disturbed \subseteq disturbed'
          /\ \A r \in Proxy \ disturbed' : login'[r] = login[r]
      BY <1>2 DEF ManagerSaves, tables, TypeOK, CustodyOK
    <2>2. QED
      BY <2>1 DEF LoginsFit, At
  <1>3. ASSUME NEW p \in Proxy, NEW a \in Alloc, RotateAllocation(a, p) PROVE LoginsFit'
    <2>1. /\ disturbed' = disturbed \cup {alloc[a].proxy}
          /\ UNCHANGED <<proc, secret, login>>
          /\ \A b \in Alloc \ {a} : alloc'[b] = alloc[b]
      BY <1>3 DEF RotateAllocation, TypeOK, TablesOK
    <2>2. ASSUME NEW r \in Proxy \ disturbed', login'[r] # 0
          PROVE  \E b \in Alloc : alloc'[b].proxy = r /\ secret'[b] = login'[r]
      <3>1. PICK b \in Alloc : alloc[b].proxy = r /\ secret[b] = login[r]
        BY <2>1, <2>2 DEF LoginsFit
      <3>2. QED
        BY <2>1, <2>2, <3>1
    <2>3. ASSUME NEW r \in Req, At(r, "renew")'
          PROVE  (alloc[proc[r].on].proxy = proc[r].via \/ proc[r].via \in disturbed)'
      <3>1. At(r, "renew") /\ proc'[r] = proc[r]
        BY <2>1, <2>3 DEF At
      <3>2. CASE proc[r].on = a
        BY <2>1, <3>1, <3>2 DEF LoginsFit
      <3>3. CASE proc[r].on # a
        BY <1>0, <2>1, <3>1, <3>3 DEF LoginsFit
      <3>4. QED
        BY <3>2, <3>3
    <2>4. QED
      BY <2>2, <2>3 DEF LoginsFit
  <1>4. QED
    BY <1>1, <1>2, <1>3 DEF OthersNext

\* The other steps of a customer's request.
LEMMA LoginsCustomer ==
    ASSUME TypeOK, LoginsFit, NEW q \in Req, KeysNext(q) \/ AllocateNext(q) \/ RotateNext(q)
    PROVE  LoginsFit'
  <1>1. CASE KeysNext(q)
    <2>1. StaysOut({"renew"}) /\ UNCHANGED tables
      BY <1>1, KeysOutside DEF StaysOut
    <2>2. UNCHANGED <<secret, login, disturbed>>
      BY <1>1 DEF KeysNext, AuthenticateSession, AuthenticateKey, CreateAPIKey, StampKey, DeleteAPIKey, custody
    <2>3. QED
      BY <2>1, <2>2, LoginsRest DEF tables
  <1>2. CASE \E a \in Alloc : InsertAllocation(q, a)
    BY <1>2, LoginsInsert
  <1>3. CASE AllocateNext(q) /\ \A a \in Alloc : ~InsertAllocation(q, a)
    <2>1. StaysOut({"renew"})
      BY <1>3, AllocateOutside DEF StaysOut
    <2>2. UNCHANGED <<tables, secret, login, disturbed>>
      BY <1>3 DEF AllocateNext, ReadSubscription, EnforceAllocation, CheckAllocationAllowed, SelectRouted,
                  SelectUntaken, Choose, NoneUntaken, Refuse, custody
    <2>3. QED
      BY <2>1, <2>2, LoginsRest DEF tables
  <1>4. CASE ReleaseProxy(q) \/ RotateProxy(q)
    <2>1. proc[q].on \in Alloc /\ alloc[proc[q].on] # NoAlloc
      BY <1>4 DEF ReleaseProxy, RotateProxy, TypeOK, RequestsOK, Ready, At
    <2>2. \A a \in Alloc : alloc'[a].proxy = alloc[a].proxy
      BY <1>4, <2>1 DEF ReleaseProxy, RotateProxy, Released, TypeOK, TablesOK, NoAlloc
    <2>3. proc'[q].pc # "renew" /\ ~At(q, "renew") /\ \A r \in Req \ {q} : proc'[r] = proc[r]
      <3>1. CASE ReleaseProxy(q)
        BY <3>1 DEF ReleaseProxy, Done, Idle, At, TypeOK, RequestsOK
      <3>2. CASE RotateProxy(q)
        BY <3>2 DEF RotateProxy, At, TypeOK, RequestsOK, ProcType
      <3>3. QED
        BY <1>4, <3>1, <3>2
    <2>4. StaysOut({"renew"})
      BY <2>3 DEF StaysOut, At
    <2>5. QED
      BY <1>4, <2>2, <2>4, LoginsRest DEF ReleaseProxy, RotateProxy, custody
  <1>5. CASE ReadAllocation(q)
    <2>1. proc[q] \in ProcType /\ \A r \in Req \ {q} : proc'[r] = proc[r]
      BY <1>5 DEF ReadAllocation, TypeOK, RequestsOK
    <2>2. proc'[q].on = proc[q].on /\ proc'[q].via = alloc[proc[q].on].proxy
      BY <1>5, <2>1 DEF ReadAllocation, TypeOK, RequestsOK, ProcType
    <2>3. UNCHANGED <<alloc, secret, login, disturbed>>
      BY <1>5 DEF ReadAllocation, tables, custody
    <2>4. QED
      BY <2>1, <2>2, <2>3 DEF LoginsFit, At
  <1>6. CASE RotateCredential(q)
    BY <1>6, LoginsRotate
  <1>7. QED
    BY <1>1, <1>2, <1>3, <1>4, <1>5, <1>6 DEF RotateNext

\* The login of a proxies row is one that some credential checks (LoginIsIssued
\* of Allocation), unless an allocation moved around it or a copy was saved.
THEOREM LoginsCorrect == Spec => []LoginIsIssued
  <1>1. Init => LoginsFit
    BY DEF Init, TablesInit, AllocationInit, LoginsFit, At, Idle
  <1>2. TypeOK /\ LoginsFit /\ [Next]_vars => LoginsFit'
    <2> SUFFICES ASSUME TypeOK, LoginsFit, [Next]_vars PROVE LoginsFit'
      OBVIOUS
    <2>1. CASE UNCHANGED vars
      BY <2>1, LoginsRest DEF vars, tables, custody, StaysOut
    <2>2. QED
      BY <2>1, LoginsBilling, LoginsOthers, LoginsCustomer, CustomerSteps DEF Next
  <1>3. LoginsFit => LoginIsIssued
    BY DEF LoginsFit, LoginIsIssued
  <1>4. QED
    BY <1>1, <1>2, <1>3, TypeCorrect, PTL DEF Spec
-----------------------------------------------------------------------------
(* The quota.                                                              *)

\* A customer gets no proxy, and no request passes the quota.
LEMMA QuotaRest ==
    ASSUME TypeOK, QuotaOvershoot, UNCHANGED crowd,
           \A c \in Customer : Active(c)' \subseteq Active(c) /\ Between(c)' \subseteq Between(c)
    PROVE  QuotaOvershoot'
  <1> SUFFICES ASSUME NEW c \in Customer
               PROVE  Cardinality(Active(c)') + Cardinality(Between(c)') + 1
                          <= MaxProxies + (IF crowd[c] = 0 THEN 1 ELSE crowd[c])
    BY DEF QuotaOvershoot
  <1>1. /\ Cardinality(Active(c)') <= Cardinality(Active(c)) /\ Cardinality(Active(c)') \in Nat
        /\ Cardinality(Between(c)') <= Cardinality(Between(c)) /\ Cardinality(Between(c)') \in Nat
    BY Finite, FS_Subset, FS_CardinalityType
  <1>2. crowd[c] \in Nat /\ MaxProxies \in Nat
    BY RentalAssumption DEF TypeOK, CustodyOK
  <1>3. QED
    BY <1>1, <1>2, Finite DEF QuotaOvershoot

\* A request passes the quota, which the customer had not used up.
LEMMA QuotaCheck ==
    ASSUME TypeOK, QuotaOvershoot, NEW q \in Req, CheckAllocationAllowed(q), ~Refuse(q)
    PROVE  QuotaOvershoot'
  <1>0. PICK c \in Customer : proc[q].who = c
    BY DEF CheckAllocationAllowed, TypeOK, RequestsOK, Ready, At
  <1> DEFINE n == Cardinality(Between(c)) + 1
  <1>1. /\ proc[q].pc = "check" /\ Cardinality(Active(c)) < MaxProxies
        /\ UNCHANGED tables /\ Goto(q, "select")
        /\ crowd' = [crowd EXCEPT ![c] = IF n > @ THEN n ELSE @]
    BY <1>0 DEF CheckAllocationAllowed, BelowQuota, At
  <1>2. /\ proc'[q].pc = "select" /\ proc'[q].who = c
        /\ \A r \in Req \ {q} : proc'[r] = proc[r]
    BY <1>0, <1>1 DEF Goto, TypeOK, RequestsOK, ProcType
  <1>3. q \notin Between(c) /\ Between(c)' = Between(c) \cup {q}
        /\ \A d \in Customer \ {c} : Between(d)' = Between(d)
    BY <1>0, <1>1, <1>2 DEF Between
  <1>4. Cardinality(Between(c)') = n
    BY <1>3, Finite, FS_AddElement
  <1>5. \A d \in Customer : Active(d)' = Active(d)
    BY <1>1 DEF tables, Active
  <1>6. /\ \A d \in Customer \ {c} : crowd'[d] = crowd[d]
        /\ crowd'[c] \in Nat /\ crowd'[c] >= n /\ n \in Nat /\ n > 0
    BY <1>1, Finite DEF TypeOK, CustodyOK
  <1> HIDE DEF n
  <1>7. ASSUME NEW d \in Customer
        PROVE  Cardinality(Active(d)') + Cardinality(Between(d)') + 1
                   <= MaxProxies + (IF crowd'[d] = 0 THEN 1 ELSE crowd'[d])
    <2>1. CASE d = c
      BY <1>1, <1>4, <1>5, <1>6, <2>1, Finite, RentalAssumption
    <2>2. CASE d # c
      BY <1>3, <1>5, <1>6, <2>2 DEF QuotaOvershoot
    <2>3. QED
      BY <2>1, <2>2
  <1>8. QED
    BY <1>7 DEF QuotaOvershoot

\* A request that passed the quota inserts its row.
LEMMA QuotaInsert ==
    ASSUME TypeOK, QuotaOvershoot, NEW q \in Req, NEW a \in Alloc, InsertAllocation(q, a)
    PROVE  QuotaOvershoot'
  <1>0. PICK c \in Customer : proc[q].who = c
    BY DEF InsertAllocation, TypeOK, RequestsOK, Ready, At
  <1>1. /\ proc[q].pc = "insert" /\ alloc[a] = NoAlloc /\ UNCHANGED crowd
        /\ alloc'[a].customer = c /\ alloc'[a].status = "active"
        /\ \A b \in Alloc \ {a} : alloc'[b] = alloc[b]
    BY <1>0 DEF InsertAllocation, At, TypeOK, TablesOK
  <1>2. proc'[q].pc = "idle" /\ \A r \in Req \ {q} : proc'[r] = proc[r]
    BY DEF InsertAllocation, Done, Idle, TypeOK, RequestsOK
  <1>3. /\ q \in Between(c) /\ Between(c)' = Between(c) \ {q}
        /\ \A d \in Customer \ {c} : Between(d)' = Between(d)
    BY <1>0, <1>1, <1>2 DEF Between
  <1>4. /\ a \notin Active(c) /\ Active(c)' = Active(c) \cup {a}
        /\ \A d \in Customer \ {c} : Active(d)' = Active(d)
    BY <1>1, RentalAssumption DEF Active, NoAlloc
  <1>5. /\ Cardinality(Between(c)') = Cardinality(Between(c)) - 1
        /\ Cardinality(Active(c)') = Cardinality(Active(c)) + 1
    <2>1. /\ IsFiniteSet(Between(c)) /\ IsFiniteSet(Active(c))
          /\ Cardinality(Between(c)) \in Nat /\ Cardinality(Active(c)) \in Nat
      BY Finite
    <2>2. Cardinality(Between(c) \ {q}) = Cardinality(Between(c)) - 1
      BY <1>3, <2>1, FS_RemoveElement
    <2>3. Cardinality(Active(c) \cup {a}) = Cardinality(Active(c)) + 1
      BY <1>4, <2>1, FS_AddElement
    <2>4. QED
      BY <1>3, <1>4, <2>2, <2>3
  <1>6. ASSUME NEW d \in Customer
        PROVE  Cardinality(Active(d)') + Cardinality(Between(d)') + 1
                   <= MaxProxies + (IF crowd'[d] = 0 THEN 1 ELSE crowd'[d])
    <2>1. crowd[d] \in Nat /\ MaxProxies \in Nat
      BY RentalAssumption DEF TypeOK, CustodyOK
    <2>2. CASE d = c
      BY <1>1, <1>5, <2>1, <2>2, Finite DEF QuotaOvershoot
    <2>3. CASE d # c
      BY <1>1, <1>3, <1>4, <2>3 DEF QuotaOvershoot
    <2>4. QED
      BY <2>2, <2>3
  <1>7. QED
    BY <1>6 DEF QuotaOvershoot

\* No other step of billing or of a customer gives a proxy away.
LEMMA QuotaBilling ==
    ASSUME TypeOK, QuotaOvershoot, BillingNext, UNCHANGED custody
    PROVE  QuotaOvershoot'
  <1>0. UNCHANGED crowd
    BY DEF custody
  <1>1. \A c \in Customer : Between(c)' \subseteq Between(c)
    <2>1. CASE Crash
      BY <2>1 DEF Crash, Between, Idle
    <2>2. CASE ~Crash
      <3>1. StaysOut({"select", "insert"})
        BY <2>2, BillingOutside DEF StaysOut
      <3>2. QED
        BY <3>1 DEF StaysOut, Between
    <2>3. QED
      BY <2>1, <2>2
  <1>2. \A c \in Customer : Active(c)' \subseteq Active(c)
    <2>1. ASSUME UNCHANGED alloc PROVE \A c \in Customer : Active(c)' \subseteq Active(c)
      BY <2>1 DEF Active
    <2>2. ASSUME NEW c \in Customer, alloc' = SuspendActive(c)
          PROVE  \A d \in Customer : Active(d)' \subseteq Active(d)
      BY <2>2, SuspendedActive
    <2>3. ASSUME NEW c \in Customer, SuspendCustomer(c) PROVE \A d \in Customer : Active(d)' \subseteq Active(d)
      BY <2>2, <2>3 DEF SuspendCustomer
    <2>4. ASSUME NEW q \in Req, SuspendExistingAllocations(q)
          PROVE  \A c \in Customer : Active(c)' \subseteq Active(c)
      BY <2>2, <2>4 DEF SuspendExistingAllocations, TypeOK, RequestsOK, Ready, At
    <2>5. ASSUME NEW b \in Alloc, SuspendProxy(b) PROVE \A c \in Customer : Active(c)' \subseteq Active(c)
      BY <2>5 DEF SuspendProxy, Active, TypeOK, TablesOK, NoAlloc
    <2>6. ASSUME NEW p \in Plan, CreatePlan(p) \/ \E status \in {"active", "inactive"} : UpdatePlan(p, status)
          PROVE  UNCHANGED alloc
      BY <2>6 DEF CreatePlan, UpdatePlan
    <2>7. ASSUME NEW s \in Sub,
                 \/ TimePasses(s) \/ \E status \in {"pending", "active"} : UpdateSubscriptionStatus(s, status)
                 \/ \E q \in Req : CloseSubscription(q, s)
                 \/ \E c \in Customer, p \in Plan, status \in {"pending", "active", "closed"} :
                       CreateSubscription(s, c, p, status)
          PROVE  UNCHANGED alloc
      BY <2>7 DEF TimePasses, UpdateSubscriptionStatus, CloseSubscription, CreateSubscription
    <2>8. ASSUME NEW c \in Customer,
                 \/ ActivateCustomer(c) \/ ActivateSubscription(c) \/ Register(c)
                 \/ \E q \in Req : AbuseSuspendCustomer(q, c)
          PROVE  UNCHANGED alloc
      BY <2>8 DEF ActivateCustomer, ActivateSubscription, Register, AbuseSuspendCustomer
    <2>9. ASSUME NEW i \in Invoice,
                 \/ MarkInvoicePaid(i) \/ \E s \in Sub : GenerateInvoice(i, s)
                 \/ \E q \in Req : VerifyInvoicePayment(q, i) \/ RefundInvoice(q, i)
          PROVE  UNCHANGED alloc
      BY <2>9 DEF MarkInvoicePaid, Pay, GenerateInvoice, VerifyInvoicePayment, RefundInvoice, tables
    <2>10. ASSUME NEW q \in Req, PayVerified(q) \/ RefundPayment(q) \/ RefundFails(q) \/ SaveRefunded(q)
           PROVE  UNCHANGED alloc
      BY <2>10 DEF PayVerified, Pay, RefundPayment, RefundFails, SaveRefunded, tables
    <2>11. CASE Crash
      BY <2>1, <2>11 DEF Crash, tables
    <2>12. QED
      BY <2>1, <2>3, <2>4, <2>5, <2>6, <2>7, <2>8, <2>9, <2>10, <2>11 DEF BillingNext, AdminRequest
  <1>3. QED
    BY <1>0, <1>1, <1>2, QuotaRest

LEMMA QuotaCustomers ==
    ASSUME TypeOK, QuotaOvershoot, AllocationNext
    PROVE  QuotaOvershoot'
  <1>0. proc \in [Req -> ProcType]
    BY DEF TypeOK, RequestsOK
  <1>1. CASE OthersNext
    <2>1. UNCHANGED <<proc, crowd>>
      BY <1>1 DEF OthersNext, ManagerReads, ManagerSaves, RotateAllocation
    <2>2. \A a \in Alloc : alloc'[a].status = alloc[a].status /\ alloc'[a].customer = alloc[a].customer
      BY <1>1 DEF OthersNext, ManagerReads, ManagerSaves, RotateAllocation, tables, TypeOK, TablesOK, NoAlloc
    <2>3. \A c \in Customer : Active(c)' = Active(c) /\ Between(c)' = Between(c)
      BY <2>1, <2>2 DEF Active, Between
    <2>4. QED
      BY <2>1, <2>3, QuotaRest
  <1>2. ASSUME NEW q \in Req, KeysNext(q) PROVE QuotaOvershoot'
    <2>1. StaysOut({"select", "insert"}) /\ UNCHANGED tables
      BY <1>2, KeysOutside DEF StaysOut
    <2>2. \A c \in Customer : Active(c)' = Active(c) /\ Between(c)' = Between(c)
      BY <2>1 DEF tables, Active, Between, StaysOut
    <2>3. UNCHANGED crowd
      BY <1>2 DEF KeysNext, AuthenticateSession, AuthenticateKey, CreateAPIKey, StampKey, DeleteAPIKey, custody
    <2>4. QED
      BY <2>2, <2>3, QuotaRest
  <1>3. ASSUME NEW q \in Req, RotateNext(q) PROVE QuotaOvershoot'
    <2>1. StaysOut({"select", "insert"})
      BY <1>3, RotateOutside DEF StaysOut
    <2>2. UNCHANGED crowd
      BY <1>3 DEF RotateNext, ReleaseProxy, RotateProxy, ReadAllocation, RotateCredential, custody
    <2>3. \A a \in Alloc : alloc'[a] = alloc[a] \/ alloc'[a].status = "deleted"
      <3>1. CASE ReadAllocation(q) \/ RotateCredential(q)
        BY <3>1 DEF ReadAllocation, RotateCredential, tables
      <3>2. CASE ReleaseProxy(q) \/ RotateProxy(q)
        <4>1. proc[q].on \in Alloc /\ alloc[proc[q].on] # NoAlloc
          BY <3>2 DEF ReleaseProxy, RotateProxy, TypeOK, RequestsOK, Ready, At
        <4>2. QED
          BY <3>2, <4>1 DEF ReleaseProxy, RotateProxy, Released, TypeOK, TablesOK, NoAlloc
      <3>3. QED
        BY <1>3, <3>1, <3>2 DEF RotateNext
    <2>4. \A c \in Customer : Active(c)' \subseteq Active(c) /\ Between(c)' = Between(c)
      BY <2>1, <2>3 DEF Active, Between, StaysOut
    <2>5. QED
      BY <2>2, <2>4, QuotaRest
  <1>4. ASSUME NEW q \in Req, UNCHANGED <<alloc, crowd>>, \A r \in Req \ {q} : proc'[r] = proc[r],
               \/ proc'[q].pc \notin {"select", "insert"}
               \/ proc[q].pc = "select" /\ proc'[q].who = proc[q].who
        PROVE  QuotaOvershoot'
    <2>1. \A c \in Customer : Active(c)' = Active(c) /\ Between(c)' \subseteq Between(c)
      BY <1>4 DEF Active, Between
    <2>2. QED
      BY <1>4, <2>1, QuotaRest
  <1>5. ASSUME NEW q \in Req, Refuse(q) PROVE QuotaOvershoot'
    BY <1>0, <1>4, <1>5 DEF Refuse, Done, Idle, tables, custody
  <1>6. ASSUME NEW q \in Req, Goto(q, "enforce") \/ Goto(q, "check"), UNCHANGED <<tables, custody>>
        PROVE  QuotaOvershoot'
    BY <1>0, <1>4, <1>6 DEF Goto, ProcType, tables, custody
  <1>7. ASSUME NEW q \in Req, NEW p \in Proxy, At(q, "select"), Choose(q, p) PROVE QuotaOvershoot'
    BY <1>0, <1>4, <1>7 DEF Choose, ProcType, At, tables, custody
  <1>8. ASSUME NEW q \in Req, AllocateNext(q) PROVE QuotaOvershoot'
    BY <1>5, <1>6, <1>7, <1>8, QuotaCheck, QuotaInsert
       DEF AllocateNext, ReadSubscription, EnforceAllocation, SelectRouted, SelectUntaken, NoneUntaken
  <1>9. QED
    BY <1>1, <1>2, <1>3, <1>8, CustomerSteps

\* A customer exceeds the quota by no more than the requests that overlapped
\* (QuotaOvershoot of Allocation), for any quota and any number of requests.
THEOREM QuotaCorrect == Spec => []QuotaOvershoot
  <1>1. Init => QuotaOvershoot
    <2> SUFFICES ASSUME Init PROVE QuotaOvershoot
      OBVIOUS
    <2>1. \A c \in Customer : Active(c) = {} /\ Between(c) = {} /\ crowd[c] = 0
      BY RentalAssumption DEF Init, TablesInit, AllocationInit, Active, Between, NoAlloc, Idle
    <2>2. QED
      BY <2>1, FS_EmptySet, RentalAssumption DEF QuotaOvershoot
  <1>2. TypeOK /\ QuotaOvershoot /\ [Next]_vars => QuotaOvershoot'
    <2> SUFFICES ASSUME TypeOK, QuotaOvershoot, [Next]_vars PROVE QuotaOvershoot'
      OBVIOUS
    <2>1. CASE UNCHANGED vars
      <3>1. \A c \in Customer : Active(c)' = Active(c) /\ Between(c)' = Between(c)
        BY <2>1 DEF vars, tables, Active, Between
      <3>2. QED
        BY <2>1, <3>1, QuotaRest DEF vars, custody
    <2>2. QED
      BY <2>1, QuotaBilling, QuotaCustomers DEF Next
  <1>3. QED
    BY <1>1, <1>2, TypeCorrect, PTL DEF Spec
=============================================================================
