------------------------------- MODULE Mailbox -------------------------------
(***************************************************************************)
(* What the Web5 Connect server promises of the objects it is handed: an   *)
(* object that was accepted is handed out once, and only while it is       *)
(* fresh.  A restart of the server may put back objects that were just     *)
(* handed out.                                                             *)
(***************************************************************************)
EXTENDS Naturals

CONSTANTS Mail,   \* the objects that may be posted
          Taker,  \* who may take one
          Ttl     \* how long an object stays fresh

VARIABLES accepted,  \* the objects that were posted
          posted,    \* when each was posted
          takers,    \* who has got each, and it was not put back since
          now        \* the time

vars == <<accepted, posted, takers, now>>

TypeOK ==
    /\ accepted \subseteq Mail
    /\ posted \in [Mail -> Nat]
    /\ takers \in [Mail -> SUBSET Taker]
    /\ now \in Nat

Init ==
    /\ accepted = {}
    /\ posted = [m \in Mail |-> 0]
    /\ takers = [m \in Mail |-> {}]
    /\ now = 0

Post(m) ==
    /\ m \notin accepted
    /\ accepted' = accepted \cup {m}
    /\ posted' = [posted EXCEPT ![m] = now]
    /\ UNCHANGED <<takers, now>>

Take(m, t) ==
    /\ m \in accepted
    /\ takers[m] = {}
    /\ now < posted[m] + Ttl
    /\ takers' = [takers EXCEPT ![m] = {t}]
    /\ UNCHANGED <<accepted, posted, now>>

Tick ==
    /\ now' = now + 1
    /\ UNCHANGED <<accepted, posted, takers>>

Restart ==
    /\ \E M \in SUBSET Mail :
          takers' = [m \in Mail |-> IF m \in M THEN {} ELSE takers[m]]
    /\ UNCHANGED <<accepted, posted, now>>

Next ==
    \/ \E m \in Mail : Post(m) \/ \E t \in Taker : Take(m, t)
    \/ Tick
    \/ Restart

Spec == Init /\ [][Next]_vars
==============================================================================
