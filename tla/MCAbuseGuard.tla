---------------------------- MODULE MCAbuseGuard ----------------------------
(* Instances of AbuseGuard for TLC.                                        *)
EXTENDS AbuseGuard, TLC

OwnerOf == [p \in Proxy |-> CHOOSE c \in Customer : TRUE]
Deltas == [f \in Factors |->
              CASE f = "failed_auth_warning" -> 3
                [] f = "failed_auth_temporary_block" -> 12
                [] f = "credential_suspended" -> 30
                [] f = "ip_whitelist_denied" -> 8
                [] f = "blocked_target" -> 15
                [] OTHER -> 10]

Alike == Permutations(Conn)

\* Bound: a behaviour is about failed logins, or about overlapping changes of
\* the score, or about open connections.
Focus ==
    LET used == <<\E p \in Proxy : trying[p] > 1 \/ cred[p] # "active" \/ \E a \in DOMAIN failed[p] : failed[p][a] > 0,
                  raced # {},
                  (\E c \in Customer : passing[c] > 0) \/ lapsed # {}>>
    IN Cardinality({i \in DOMAIN used : used[i]}) <= 1
=============================================================================
