---------------------------- MODULE Registration -----------------------------
(***************************************************************************)
(* Tenant registration by a cluster of servers that share the table of     *)
(* registered tenants and the seed of the challenges: RegistrationManager  *)
(* and RegistrationStore behind the registration routes of HttpApi, with   *)
(* the parts of ProofOfWorkManager that decide which challenge a proof may *)
(* answer and which proof was used.  Its difficulty is the subject of      *)
(* ProofOfWork; here a proof may always fall short of it.                  *)
(*                                                                         *)
(* A tenant sends one registration request at a time, and may send it      *)
(* again, to any server, with the same proof of work, when it was refused  *)
(* or failed.  One unit of time is more than a minute and the interval of  *)
(* the difficulty timer: every used proof is forgotten by then.            *)
(***************************************************************************)
EXTENDS Integers

CONSTANTS
    Server, Did,
    Terms,        \* hashes of terms-of-service files
    Undefined,    \* no file is configured, or no hash is in the request
    Null,         \* NULL in the database
    NoRow,        \* no row in the database
    Request,      \* the registration requests, with what tells them apart
    Configured,   \* what the servers are started with
    ProofOfWorkEnabled,  \* registrationProofOfWorkEnabled
    Period,       \* challengeRefreshFrequencyInSeconds
    MaxTime,      \* bound on the clock
    MaxRestarts,  \* bound on restarts of servers
    MaxTries      \* bound on how often a request is accepted

ASSUME RegistrationAssumption ==
    /\ Request \subseteq [did : Did, terms : Terms \cup {Undefined}, n : Nat]
    /\ Configured \subseteq Terms \cup {Undefined}
    /\ ProofOfWorkEnabled \in BOOLEAN
    /\ Undefined \notin Terms \cup {Null, NoRow}
    /\ Null \notin Terms \cup {NoRow}
    /\ NoRow \notin Terms
    /\ Period \in Nat \ {0}
    /\ MaxTime \in Nat
    /\ MaxRestarts \in Nat
    /\ MaxTries \in Nat

VARIABLES
    now,        \* Date.now()
    tos,        \* termsOfServiceHash of each server
    refreshed,  \* when each server refreshed its challenge nonces
    used,       \* proofOfWorkOfLastMinute of each server: whose response nonces
    rows,       \* registeredTenants: the termsOfServiceHash of each tenant
    sent,       \* the statements that the database may still execute
    phase,      \* how far each request is
    at,         \* the server that accepted it last
    tries,      \* how often it was accepted
    challenge,  \* the refresh interval of the challenge its proof answers
    contested,  \* requests that others of their tenant, with other terms, met
    restarts

vars == <<now, tos, refreshed, used, rows, sent, phase, at, tries, challenge,
          contested, restarts>>

\* What a tenant's request is waiting for, or the answer it got.
Phases == {"new", "solved", "store", "ok", "failed", "dropped"}

TypeOK ==
    /\ now \in Nat
    /\ tos \in [Server -> Configured]
    /\ refreshed \in [Server -> Nat]
    /\ used \in [Server -> SUBSET Request]
    /\ rows \in [Did -> Terms \cup {Null, NoRow}]
    /\ sent \subseteq Request \X Nat
    /\ phase \in [Request -> Phases]
    /\ at \in [Request -> Server]
    /\ tries \in [Request -> Nat]
    /\ challenge \in [Request -> Nat]
    /\ contested \subseteq Request
    /\ restarts \in Nat

\* The servers were started within the last period, one by one.
Init ==
    /\ now = Period
    /\ tos \in [Server -> Configured]
    /\ refreshed \in [Server -> 1 .. Period]
    /\ used = [s \in Server |-> {}]
    /\ rows = [d \in Did |-> NoRow]
    /\ sent = {}
    /\ phase = [r \in Request |-> "new"]
    /\ \E s \in Server : at = [r \in Request |-> s]
    /\ tries = [r \in Request |-> 0]
    /\ challenge = [r \in Request |-> 0]
    /\ contested = {}
    /\ restarts = 0

------------------------------------------------------------------------------
(* The challenge nonces of a server that has the seed                      *)

\* Mutant: the interval that has just ended.
endedRefreshIntervalId(s) == (refreshed[s] \div Period) - 1

currentRefreshIntervalId(s) == refreshed[s] \div Period

\* Mutant: as without a seed, there is no next challenge nonce.
acceptableChallengeNoncesNoNext(s) ==
    (currentRefreshIntervalId(s) - 1) .. currentRefreshIntervalId(s)

\* Mutant: the one before the previous is not forgotten.
acceptableChallengeNoncesOlder(s) ==
    (currentRefreshIntervalId(s) - 2) .. (currentRefreshIntervalId(s) + 1)

\* The previous, the current and the next challenge nonce.
acceptableChallengeNonces(s) ==
    (currentRefreshIntervalId(s) - 1) .. (currentRefreshIntervalId(s) + 1)

\* The timer of a server fires.
refreshChallengeNonce(s) ==
    /\ now = refreshed[s] + Period
    /\ refreshed' = [refreshed EXCEPT ![s] = now]
    /\ UNCHANGED <<now, tos, used, rows, sent, phase, at, tries, challenge,
                   contested, restarts>>

\* GET /registration/proof-of-work, a route of servers with that gate; the client
\* solves what it is given.  (A server without it demands a proof all the same.)
getProofOfWorkChallenge(r, s) ==
    /\ ProofOfWorkEnabled
    /\ phase[r] = "new"
    /\ phase' = [phase EXCEPT ![r] = "solved"]
    /\ challenge' = [challenge EXCEPT ![r] = currentRefreshIntervalId(s)]
    /\ UNCHANGED <<now, tos, refreshed, used, rows, sent, at, tries, contested,
                   restarts>>

------------------------------------------------------------------------------
(* POST /registration                                                      *)

Postable(r) == phase[r] \in {"solved", "failed", "dropped"}

\* Mutant: the terms of service are not looked at.
AcceptableAnyTerms(r, s) ==
    /\ r \notin used[s]
    /\ challenge[r] \in acceptableChallengeNonces(s)

Acceptable(r, s) ==
    /\ r.terms = tos[s]
    /\ r \notin used[s]
    /\ challenge[r] \in acceptableChallengeNonces(s)

Rivals(r) == {q \in Request : q.did = r.did /\ q.terms /= r.terms}

\* handleRegistrationRequest records the response nonce and sends the insert;
\* the answer waits for the database.
handleRegistrationRequest(r, s) ==
    /\ Postable(r)
    /\ tries[r] < MaxTries
    /\ Acceptable(r, s)
    /\ used' = [used EXCEPT ![s] = @ \cup {r}]
    /\ tries' = [tries EXCEPT ![r] = @ + 1]
    /\ sent' = sent \cup {<<r, tries[r] + 1>>}
    /\ phase' = [phase EXCEPT ![r] = "store"]
    /\ at' = [at EXCEPT ![r] = s]
    /\ contested' =
          (contested \ {r}) \cup Rivals(r)
              \cup {q \in {r} : \E a \in sent : a[1] \in Rivals(q)}
    /\ UNCHANGED <<now, tos, refreshed, rows, challenge, restarts>>

\* Other terms, a used response nonce, an unknown challenge nonce, or a hash
\* above the maximum, which depends on the difficulty.
RefuseRegistration(r, s) ==
    /\ Postable(r)
    /\ phase' = [phase EXCEPT ![r] = "failed"]
    /\ UNCHANGED <<now, tos, refreshed, used, rows, sent, at, tries, challenge,
                   contested, restarts>>

------------------------------------------------------------------------------
(* The table of registered tenants                                         *)

\* A value that is missing in the statement is NULL in the row.
Stored(t) == IF t = Undefined THEN Null ELSE t

\* Mutant: nothing is done on a conflict.
insertTenantRegistration(r, k) ==
    /\ <<r, k>> \in sent
    /\ sent' = sent \ {<<r, k>>}
    /\ rows' = [rows EXCEPT ![r.did] = IF @ = NoRow THEN Stored(r.terms) ELSE @]
    /\ phase' = IF k = tries[r] /\ phase[r] = "store"
                THEN [phase EXCEPT ![r] = "ok"]
                ELSE phase
    /\ UNCHANGED <<now, tos, refreshed, used, at, tries, challenge, contested,
                   restarts>>

\* The database executes a statement of insertOrUpdateTenantRegistration.
\* When the request still waits for it, it is answered with 200.
insertOrUpdateTenantRegistration(r, k) ==
    /\ <<r, k>> \in sent
    /\ sent' = sent \ {<<r, k>>}
    /\ rows' = [rows EXCEPT ![r.did] = Stored(r.terms)]
    /\ phase' = IF k = tries[r] /\ phase[r] = "store"
                THEN [phase EXCEPT ![r] = "ok"]
                ELSE phase
    /\ UNCHANGED <<now, tos, refreshed, used, at, tries, challenge, contested,
                   restarts>>

\* The statement is refused or its connection is lost: then it may still be
\* executed.  The response nonce stays used.
StoreFails(r) ==
    /\ phase[r] = "store"
    /\ phase' = [phase EXCEPT ![r] = "failed"]
    /\ sent' \in {sent, sent \ {<<r, tries[r]>>}}
    /\ UNCHANGED <<now, tos, refreshed, used, rows, at, tries, challenge,
                   contested, restarts>>

\* Mutant: whoever is registered is active.
isActiveTenantRegistered(s, d) == rows[d] /= NoRow

\* The tenant gate: what isActiveTenant compares.
isActiveTenant(s, d) ==
    /\ rows[d] /= NoRow
    /\ rows[d] = tos[s]

------------------------------------------------------------------------------
(* Servers and time                                                        *)

\* A server stops or crashes and is started again, maybe with other terms: it
\* forgets the used proofs, refreshes its nonces at once, and the requests it
\* was serving are not answered.  Their statements may be lost.
Restart(s, t) ==
    LET orphans == {<<r, tries[r]>> : r \in {q \in Request :
                        phase[q] = "store" /\ at[q] = s}}
    IN  /\ restarts < MaxRestarts
        /\ restarts' = restarts + 1
        /\ tos' = [tos EXCEPT ![s] = t]
        /\ refreshed' = [refreshed EXCEPT ![s] = now]
        /\ used' = [used EXCEPT ![s] = {}]
        /\ phase' = [r \in Request |->
                        IF phase[r] = "store" /\ at[r] = s THEN "dropped"
                        ELSE phase[r]]
        /\ \E lost \in SUBSET orphans : sent' = sent \ lost
        /\ UNCHANGED <<now, rows, at, tries, challenge, contested>>

\* Timers fire when they are due.
Tick ==
    /\ now < MaxTime
    /\ \A s \in Server : now < refreshed[s] + Period
    /\ now' = now + 1
    /\ used' = [s \in Server |-> {}]
    /\ UNCHANGED <<tos, refreshed, rows, sent, phase, at, tries, challenge,
                   contested, restarts>>

\* Nothing more happens: the clock has reached its bound.
Done == now = MaxTime /\ UNCHANGED vars

Next ==
    \/ \E r \in Request, s \in Server :
          \/ getProofOfWorkChallenge(r, s)
          \/ handleRegistrationRequest(r, s)
          \/ RefuseRegistration(r, s)
    \/ \E a \in sent : insertOrUpdateTenantRegistration(a[1], a[2])
    \/ \E r \in Request : StoreFails(r)
    \/ \E s \in Server : refreshChallengeNonce(s)
    \/ \E s \in Server, t \in Configured : Restart(s, t)
    \/ Tick
    \/ Done

Spec == Init /\ [][Next]_vars

------------------------------------------------------------------------------
(* Properties                                                              *)

\* A request that was answered with success, and that no request of its tenant
\* for other terms has met since, makes the tenant active on every server of
\* the cluster that demands these terms: whichever server took it, whatever
\* crashed, failed and was sent again in between.
RegisteredIsActive ==
    \A r \in Request, s \in Server :
        phase[r] = "ok" /\ r \notin contested /\ tos[s] = r.terms
            => isActiveTenant(s, r.did)

\* The gate lets a tenant in only when a request of its own was accepted for
\* the very terms that the server demands now: after a deployment with other
\* terms the tenants of the old ones are blocked.
OnlyAgreed ==
    \A s \in Server, d \in Did :
        isActiveTenant(s, d) =>
            \E r \in Request : r.did = d /\ r.terms = tos[s] /\ tries[r] > 0

\* A challenge that some server handed out is taken by every server of the
\* cluster until two intervals after its own have begun, although their
\* timers fire at different times and servers restart.
HandedOutIsTaken ==
    \A r \in Request, s \in Server :
        phase[r] /= "new" /\ now < (challenge[r] + 2) * Period
            => challenge[r] \in acceptableChallengeNonces(s)

\* A challenge expires: from three intervals after its own on, no server of the
\* cluster takes it, however late the timers of the servers are.
ChallengeExpires ==
    \A r \in Request, s \in Server :
        now >= (challenge[r] + 3) * Period
            => challenge[r] \notin acceptableChallengeNonces(s)

\* The cluster does what Tenancy promises: a recorded agreement changes only by
\* a request for terms that a server demanded, and a request is answered with
\* success only as it takes effect.
Tenants == INSTANCE Tenancy WITH
    Terms <- Configured,
    None <- NoRow,
    demand <- tos,
    pending <- {a[1] : a \in sent},
    agreed <- [d \in Did |-> IF rows[d] = Null THEN Undefined ELSE rows[d]],
    confirmed <- {r \in Request : phase[r] = "ok"}

Tenancy == Tenants!Spec

==============================================================================
