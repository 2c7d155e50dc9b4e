------------------------------- MODULE Tenancy -------------------------------
(***************************************************************************)
(* What registration promises.  Every server of a cluster demands some     *)
(* terms.  A tenant's agreement is on record from the moment that one of   *)
(* its requests takes effect; only requests for terms that a server        *)
(* demanded take effect, and a request is confirmed as it does.            *)
(***************************************************************************)
CONSTANTS Server, Did,
          Terms,    \* what a server may demand
          Request,  \* what tenants ask for: records with a did and terms
          None      \* no agreement

VARIABLES demand,     \* the terms that each server demands
          pending,    \* the accepted requests that may still take effect
          agreed,     \* the agreement of each tenant
          confirmed   \* the requests that were answered with success

vars == <<demand, pending, agreed, confirmed>>

Init ==
    /\ demand \in [Server -> Terms]
    /\ pending = {}
    /\ agreed = [d \in Did |-> None]
    /\ confirmed = {}

Accept(r, s) ==
    /\ r.terms = demand[s]
    /\ pending' = pending \cup {r}
    /\ UNCHANGED <<demand, agreed, confirmed>>

\* A request may take effect more than once: it may be sent more than once.
TakeEffect(r) ==
    /\ r \in pending
    /\ agreed' = [agreed EXCEPT ![r.did] = r.terms]
    /\ pending' \in {pending, pending \ {r}}
    /\ confirmed' \in {confirmed, confirmed \cup {r}}
    /\ UNCHANGED demand

Lose ==
    /\ pending' \in SUBSET pending
    /\ UNCHANGED <<demand, agreed, confirmed>>

Deploy(s, t) ==
    /\ demand' = [demand EXCEPT ![s] = t]
    /\ pending' \in SUBSET pending
    /\ UNCHANGED <<agreed, confirmed>>

Next ==
    \/ \E r \in Request : TakeEffect(r) \/ \E s \in Server : Accept(r, s)
    \/ \E s \in Server, t \in Terms : Deploy(s, t)
    \/ Lose

Spec == Init /\ [][Next]_vars
==============================================================================
