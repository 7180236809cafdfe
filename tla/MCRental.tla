------------------------------ MODULE MCRental ------------------------------
(* Instances of Rental for TLC.                                            *)
EXTENDS Rental, TLC

Alike == Permutations(Req) \cup Permutations(Alloc) \cup Permutations(Proxy)

\* Bound: at a time a behaviour uses invoices, API keys, a second allocation,
\* disturbed proxies, copies of their rows, or other plans and
\* subscriptions; no refund beside allocations, and no closed subscription
\* beside disturbed proxies or copies; a third credential only beside
\* disturbed proxies.
Focus ==
    LET used == <<\E i \in Invoice : invoice[i] # NoInvoice,
                  \E k \in Key : key[k] # NoKey,
                  Cardinality({a \in Alloc : alloc[a] # NoAlloc}) > 1,
                  disturbed # {},
                  \E p \in Proxy : copy[p] # NoCopy,
                  legacy # {} \/ \E s \in Sub : sub[s] # NoSub /\ plan[sub[s].plan] # "active">>
    IN /\ Cardinality({i \in DOMAIN used : used[i]}) <= 1
       /\ (\E i \in Invoice : refunds[i] > 0) => issued = 0
       /\ issued > 2 => used[4]
       /\ (used[4] \/ used[5]) => \A s \in Sub : sub[s].status # "closed"
=============================================================================
