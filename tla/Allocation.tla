----------------------------- MODULE Allocation -----------------------------
(***************************************************************************)
(* The customer service (internal/customer/service.go): authentication,    *)
(* API keys, and the proxies a customer takes, rotates and gives back.     *)
(***************************************************************************)
EXTENDS RentalTables

CONSTANTS MaxSecrets, \* credentials generated (bound)
          NoCopy

ASSUME AllocationAssumption == MaxSecrets \in Nat /\ NoCopy \notin 0..MaxSecrets

VARIABLES secret,    \* secret[a]: what the credential of allocation a checks
          login,     \* login[p]: username and password of the proxies row
          issued,    \* credentials generated so far
          copy,      \* copy[p]: login in a copy of the row the proxy manager holds
          disturbed, \* history: proxies saved from such a copy, or around which an
                     \* allocation was moved
          key,       \* API keys
          revoked,   \* history: keys that were revoked
          reused,    \* history: keys revoked while a request had them in hand
          crowd,     \* history: most requests of a customer past the quota at once
          overtaken  \* history: proxies given after the customer had lost the right

custody == <<secret, login, issued, copy, disturbed, key, revoked, reused, crowd, overtaken>>
-----------------------------------------------------------------------------
NoKey == [status |-> "none", customer |-> Nobody]

AllocationInit == /\ secret = [a \in Alloc |-> 0]
                  /\ login = [p \in Proxy |-> 0]
                  /\ issued = 0
                  /\ copy = [p \in Proxy |-> NoCopy]
                  /\ disturbed = {}
                  /\ key = [k \in Key |-> NoKey]
                  /\ revoked = {} /\ reused = {}
                  /\ crowd = [c \in Customer |-> 0]
                  /\ overtaken = {}

Mine(c) == {a \in Alloc : alloc[a].customer = c}
\* Requests that have passed the quota and have not inserted their row.
Between(c) == {q \in Req : proc[q].pc \in {"select", "insert"} /\ proc[q].who = c}
-----------------------------------------------------------------------------
(* Authentication.  What a request may ask for, and its first step.        *)

Asks(c) == {<<"allocate", Nothing>>, <<"createKey", Nothing>>}
           \cup {<<op, a>> : op \in {"release", "rotateProxy", "rotateCredential"}, a \in Mine(c)}
           \cup {<<"deleteKey", k>> : k \in {k \in Key : key[k].customer = c}}

\* With a session: Register and Login make one, nothing revokes it.
AuthenticateSession(q, c) ==
    /\ account[c] = "active"
    /\ \E ask \in Asks(c) : Enter(q, ask[1], "none", c, ask[2], Nothing)
    /\ UNCHANGED <<tables, custody>>

\* Mutant of KeyFound: the status is not asked for.
KeyAny(k) == key[k] # NoKey
KeyFound(k) == key[k].status = "active"

\* With an API key: the row is read here and saved in the next step.
AuthenticateKey(q, k) ==
    LET c == key[k].customer
    IN /\ KeyFound(k) /\ account[c] = "active"
       /\ \E ask \in Asks(c) : Enter(q, "stamp", ask[1], c, ask[2], k)
       /\ UNCHANGED <<tables, custody>>

\* Save of the whole copy, whose status is active.
StampKey(q) ==
    /\ At(q, "stamp")
    /\ key' = [key EXCEPT ![proc[q].via].status = "active"]
    /\ proc' = [proc EXCEPT ![q] = [@ EXCEPT !.pc = proc[q].next, !.next = "none", !.via = Nothing]]
    /\ UNCHANGED <<tables, secret, login, issued, copy, disturbed, revoked, reused, crowd, overtaken>>

CreateAPIKey(q, k) ==
    /\ At(q, "createKey")
    /\ key[k] = NoKey
    /\ key' = [key EXCEPT ![k] = [status |-> "active", customer |-> proc[q].who]]
    /\ Done(q)
    /\ UNCHANGED <<tables, secret, login, issued, copy, disturbed, revoked, reused, crowd, overtaken>>

Stamping(k) == {r \in Req : At(r, "stamp") /\ proc[r].via = k}

DeleteAPIKey(q) ==
    LET k == proc[q].on
    IN /\ At(q, "deleteKey")
       /\ key' = [key EXCEPT ![k].status = "revoked"]
       /\ revoked' = revoked \cup {k}
       /\ reused' = IF Stamping(k) = {} THEN reused ELSE reused \cup {k}
       /\ Done(q)
       /\ UNCHANGED <<tables, secret, login, issued, copy, disturbed, crowd, overtaken>>
-----------------------------------------------------------------------------
(* AllocateProxy.                                                          *)

Refuse(q) == Done(q) /\ UNCHANGED <<tables, custody>>

\* activeSubscription: a commercial one, else one of the first kind.
ReadSubscription(q) ==
    /\ At(q, "allocate")
    /\ \/ /\ proc[q].who \in legacy \/ \E s \in Subscribed(proc[q].who) : Entitles(s)
          /\ Goto(q, "enforce") /\ UNCHANGED <<tables, custody>>
       \/ /\ proc[q].who \notin legacy
          /\ Subscribed(proc[q].who) = {} \/ \E s \in Subscribed(proc[q].who) : ~Entitles(s)
          /\ Refuse(q)

\* Mutant of BelowQuota: off by one.
UpToQuota(c) == Cardinality(Active(c)) <= MaxProxies
BelowQuota(c) == Cardinality(Active(c)) < MaxProxies

\* The country or the traffic used may also refuse.
EnforceAllocation(q) ==
    /\ At(q, "enforce")
    /\ \/ /\ \E s \in Subscribed(proc[q].who) : Entitles(s)
          /\ BelowQuota(proc[q].who)
          /\ Goto(q, "check") /\ UNCHANGED <<tables, custody>>
       \/ Refuse(q)

\* The quota is counted again; country and rotation mode may also refuse.
CheckAllocationAllowed(q) ==
    LET c == proc[q].who
        n == Cardinality(Between(c)) + 1
    IN /\ At(q, "check")
       /\ \/ /\ BelowQuota(c)
             /\ Goto(q, "select")
             /\ crowd' = [crowd EXCEPT ![c] = IF n > @ THEN n ELSE @]
             /\ UNCHANGED <<tables, secret, login, issued, copy, disturbed, key, revoked, reused, overtaken>>
          \/ Refuse(q)

Choose(q, p) == /\ proc' = [proc EXCEPT ![q] = [@ EXCEPT !.pc = "insert", !.via = p]]
                /\ UNCHANGED <<tables, custody>>

\* The router may return any proxy, one that is taken too.
SelectRouted(q, p) == At(q, "select") /\ Choose(q, p)

\* Without its answer the first proxy nobody holds is chosen.
Taken(p) == \E a \in Alloc : alloc[a].status = "active" /\ alloc[a].proxy = p
SelectUntaken(q, p) == At(q, "select") /\ ~Taken(p) /\ Choose(q, p)
NoneUntaken(q) == At(q, "select") /\ (\A p \in Proxy : Taken(p)) /\ Refuse(q)

\* Mutant of Renewed: only the proxies row gets the new secret.
RenewedHalf(a, p) == /\ issued < MaxSecrets
                     /\ issued' = issued + 1
                     /\ login' = [login EXCEPT ![p] = issued + 1]
                     /\ UNCHANGED secret
\* Credential and proxies row get the new secret in one transaction.
Renewed(a, p) == /\ issued < MaxSecrets
                 /\ issued' = issued + 1
                 /\ secret' = [secret EXCEPT ![a] = issued + 1]
                 /\ login' = [login EXCEPT ![p] = issued + 1]

\* The customer has lost the account or every subscription meanwhile.
Barred(c) == \/ account[c] = "suspended"
             \/ \A s \in Sub : sub[s].customer = c => sub[s].status = "closed"

InsertAllocation(q, a) ==
    LET c == proc[q].who  p == proc[q].via
    IN /\ At(q, "insert")
       /\ alloc[a] = NoAlloc
       /\ alloc' = [alloc EXCEPT ![a] = [status |-> "active", customer |-> c, proxy |-> p]]
       /\ Renewed(a, p)
       /\ overtaken' = IF Barred(c) THEN overtaken \cup {a} ELSE overtaken
       /\ Done(q)
       /\ UNCHANGED <<account, plan, legacy, sub, copy, disturbed, key, revoked, reused, crowd>>
-----------------------------------------------------------------------------
(* Release and rotation.                                                   *)

\* Mutant of Released: the row is deleted, not only its status.
Removed(a) == alloc' = [alloc EXCEPT ![a] = NoAlloc]
Released(a) == alloc' = [alloc EXCEPT ![a].status = "deleted"]

ReleaseProxy(q) ==
    /\ At(q, "release")
    /\ Released(proc[q].on)
    /\ Done(q)
    /\ UNCHANGED <<account, plan, legacy, sub, custody>>

\* The proxy is given back before another is asked for, which may be refused.
RotateProxy(q) ==
    /\ At(q, "rotateProxy")
    /\ Released(proc[q].on)
    /\ proc' = [proc EXCEPT ![q] = [@ EXCEPT !.pc = "allocate", !.on = Nothing]]
    /\ UNCHANGED <<account, plan, legacy, sub, custody>>

\* The allocation is read whatever its status, and written later.
ReadAllocation(q) ==
    /\ At(q, "rotateCredential")
    /\ proc' = [proc EXCEPT ![q] = [@ EXCEPT !.pc = "renew", !.via = alloc[proc[q].on].proxy]]
    /\ UNCHANGED <<tables, custody>>

RotateCredential(q) ==
    /\ At(q, "renew")
    /\ Renewed(proc[q].on, proc[q].via)
    /\ disturbed' = IF alloc[proc[q].on].proxy = proc[q].via THEN disturbed
                    ELSE disturbed \cup {alloc[proc[q].on].proxy}
    /\ Done(q)
    /\ UNCHANGED <<tables, copy, key, revoked, reused, crowd, overtaken>>
-----------------------------------------------------------------------------
(* What others do to these rows.                                           *)

\* Routing moves an allocation of any status; its credential stays behind.
RotateAllocation(a, p) ==
    /\ alloc[a] # NoAlloc /\ alloc[a].proxy # p
    /\ alloc' = [alloc EXCEPT ![a].proxy = p]
    /\ disturbed' = disturbed \cup {alloc[a].proxy}
    /\ UNCHANGED <<account, plan, legacy, sub, proc, secret, login, issued, copy, key, revoked, reused,
                   crowd, overtaken>>

\* The proxy manager reads a proxies row and saves the whole copy later.
ManagerReads(p) == /\ copy[p] = NoCopy
                   /\ copy' = [copy EXCEPT ![p] = login[p]]
                   /\ UNCHANGED <<tables, proc, secret, login, issued, disturbed, key, revoked, reused,
                                  crowd, overtaken>>
ManagerSaves(p) == /\ copy[p] # NoCopy
                   /\ login' = [login EXCEPT ![p] = copy[p]]
                   /\ copy' = [copy EXCEPT ![p] = NoCopy]
                   /\ disturbed' = IF copy[p] = login[p] THEN disturbed ELSE disturbed \cup {p}
                   /\ UNCHANGED <<tables, proc, secret, issued, key, revoked, reused, crowd, overtaken>>

CustomerStep(q) ==
    \/ StampKey(q) \/ DeleteAPIKey(q) \/ \E k \in Key : CreateAPIKey(q, k)
    \/ ReadSubscription(q) \/ EnforceAllocation(q) \/ CheckAllocationAllowed(q)
    \/ \E p \in Proxy : SelectRouted(q, p) \/ SelectUntaken(q, p)
    \/ NoneUntaken(q)
    \/ \E a \in Alloc : InsertAllocation(q, a)
    \/ ReleaseProxy(q) \/ RotateProxy(q) \/ ReadAllocation(q) \/ RotateCredential(q)

AllocationNext ==
    \/ \E q \in Req : \/ CustomerStep(q)
                      \/ \E c \in Customer : AuthenticateSession(q, c)
                      \/ \E k \in Key : AuthenticateKey(q, k)
    \/ \E p \in Proxy : \/ ManagerReads(p) \/ ManagerSaves(p)
                        \/ \E a \in Alloc : RotateAllocation(a, p)

\* The quota is checked in one statement and the row inserted in another: a
\* customer exceeds it by the requests that overlapped, and by no more.
QuotaOvershoot ==
    \A c \in Customer :
        Cardinality(Active(c)) + Cardinality(Between(c)) + 1 <= MaxProxies + (IF crowd[c] = 0 THEN 1 ELSE crowd[c])

\* A revoked API key stays revoked, unless it was revoked while a request
\* authenticated by it had not yet saved its copy of the row.
RevokedKeysStay == \A k \in revoked \ reused : key[k].status = "revoked"

\* The login of a proxies row is the one some credential checks: the customer
\* who took or rotated it last can use it.  Not so after an allocation was
\* moved away from the proxy, or to it while its credential was being rotated,
\* or the manager saved an older copy of the row.
LoginIsIssued ==
    \A p \in Proxy \ disturbed : login[p] # 0 => \E a \in Alloc : secret[a] = login[p]
=============================================================================
