------------------------------ MODULE Billing ------------------------------
\* What the request-log pipeline promises of money, whatever the number of
\* gateways, replays and failures: the first amount recorded for a request
\* is its bill and never changes, a bill is paid at most once, and paying
\* it is what moves the balance of the user and the quota of the key.
EXTENDS Integers

CONSTANTS
  Ids, Users, Keys, NoBill,
  Total(_)  \* the sum of the values of a function

VARIABLES
  bill,     \* [user, key, cost] of each request, or NoBill
  paid,     \* ids of paid bills
  balance,  \* of each user
  used      \* by each key

vars == <<bill, paid, balance, used>>

\* Bills may exist from the start; nothing is paid.
Init ==
  /\ paid = {}
  /\ balance = [u \in Users |-> 0]
  /\ used = [k \in Keys |-> 0]

\* Bills are issued, and never replaced.
Issue ==
  /\ DOMAIN bill' = Ids
  /\ \A i \in Ids : bill[i] # NoBill => bill'[i] = bill[i]
  /\ UNCHANGED <<paid, balance, used>>

UserBills(S, u) == {i \in S : bill[i].user = u}
KeyBills(S, k) == {i \in S : bill[i].key = k}

\* A set of unpaid bills is paid.
Pay ==
  \E S \in SUBSET (Ids \ paid) :
    /\ \A i \in S : bill[i] # NoBill
    /\ paid' = paid \cup S
    /\ balance' = [u \in Users |->
         IF UserBills(S, u) = {} THEN balance[u]
         ELSE balance[u] - Total([i \in UserBills(S, u) |-> bill[i].cost])]
    /\ used' = [k \in Keys |->
         IF KeyBills(S, k) = {} THEN used[k]
         ELSE used[k] + Total([i \in KeyBills(S, k) |-> bill[i].cost])]
    /\ UNCHANGED bill

\* An administrator adds to a balance.
Grant ==
  /\ \E u \in Users : balance' = [balance EXCEPT ![u] = @ + 1]
  /\ UNCHANGED <<bill, paid, used>>

Next == Issue \/ Pay \/ Grant

Spec == Init /\ [][Next]_vars

=============================================================================
