------------------------- MODULE RegistrationProofs --------------------------
(***************************************************************************)
(* Proofs about Registration, for every number of servers, tenants,        *)
(* requests, refresh periods and bounds.                                   *)
(***************************************************************************)
EXTENDS Registration, TLAPS

USE RegistrationAssumption

LEMMA StoredType ==
    ASSUME NEW r \in Request
    PROVE  /\ r.did \in Did
           /\ r.terms \in Terms \cup {Undefined}
           /\ Stored(r.terms) \in Terms \cup {Null}
           /\ Stored(r.terms) = Null <=> r.terms = Undefined
           /\ r.terms /= Undefined => Stored(r.terms) = r.terms
<1>. PICK R : R = [did : Did, terms : Terms \cup {Undefined}, n : Nat]
  OBVIOUS
<1>1. r \in R
  OBVIOUS
<1>2. r.did \in Did /\ r.terms \in Terms \cup {Undefined}
  BY <1>1
<1>. QED
  BY <1>2 DEF Stored

LEMMA SentType ==
    ASSUME TypeOK, NEW a \in sent
    PROVE  a[1] \in Request /\ a[2] \in Nat /\ a = <<a[1], a[2]>>
BY DEF TypeOK

\* The quotient by the period, as the inequalities that define it.
LEMMA Interval ==
    ASSUME NEW x \in Nat, NEW q \in Nat, q = x \div Period
    PROVE  q * Period <= x /\ x < (q + 1) * Period
OBVIOUS

LEMMA IntervalType ==
    ASSUME NEW x \in Nat
    PROVE  x \div Period \in Nat
OBVIOUS

------------------------------------------------------------------------------
LEMMA InitTypeOK == Init => TypeOK
BY DEF Init, TypeOK, Phases

LEMMA NextTypeOK == TypeOK /\ [Next]_vars => TypeOK'
<1>. SUFFICES ASSUME TypeOK, [Next]_vars
              PROVE  TypeOK'
  OBVIOUS
<1>1. ASSUME NEW r \in Request, NEW s \in Server, getProofOfWorkChallenge(r, s)
      PROVE  TypeOK'
  <2>1. refreshed[s] \div Period \in Nat
    BY IntervalType DEF TypeOK
  <2>. QED
    BY <1>1, <2>1 DEF getProofOfWorkChallenge, TypeOK, Phases,
                      currentRefreshIntervalId
<1>2. ASSUME NEW r \in Request, NEW s \in Server,
             handleRegistrationRequest(r, s)
      PROVE  TypeOK'
  BY <1>2 DEF handleRegistrationRequest, TypeOK, Phases, Rivals
<1>3. ASSUME NEW r \in Request, NEW s \in Server, RefuseRegistration(r, s)
      PROVE  TypeOK'
  BY <1>3 DEF RefuseRegistration, TypeOK, Phases
<1>4. ASSUME NEW a \in sent, insertOrUpdateTenantRegistration(a[1], a[2])
      PROVE  TypeOK'
  <2>1. PICK r \in Request, k \in Nat : r = a[1] /\ k = a[2]
    BY SentType
  <2>2. Stored(r.terms) \in Terms \cup {Null}
    BY StoredType
  <2>3. insertOrUpdateTenantRegistration(r, k)
    BY <1>4, <2>1
  <2>. QED
    BY <2>2, <2>3 DEF insertOrUpdateTenantRegistration, TypeOK, Phases
<1>5. ASSUME NEW r \in Request, StoreFails(r)
      PROVE  TypeOK'
  BY <1>5 DEF StoreFails, TypeOK, Phases
<1>6. ASSUME NEW s \in Server, refreshChallengeNonce(s)
      PROVE  TypeOK'
  BY <1>6 DEF refreshChallengeNonce, TypeOK
<1>7. ASSUME NEW s \in Server, NEW t \in Configured, Restart(s, t)
      PROVE  TypeOK'
  BY <1>7 DEF Restart, TypeOK, Phases
<1>8. CASE Tick
  BY <1>8 DEF Tick, TypeOK
<1>9. CASE UNCHANGED vars
  BY <1>9 DEF vars, TypeOK
<1>. QED
  BY <1>1, <1>2, <1>3, <1>4, <1>5, <1>6, <1>7, <1>8, <1>9 DEF Next, Done

\* Every variable of Registration has its type in every reachable state.
THEOREM Typing == Spec => []TypeOK
BY InitTypeOK, NextTypeOK, PTL DEF Spec

------------------------------------------------------------------------------
(* Challenges                                                              *)

\* No timer is late, and what was handed out has been current.
Clocks ==
    /\ \A s \in Server : refreshed[s] <= now /\ now <= refreshed[s] + Period
    /\ \A r \in Request : phase[r] /= "new" => challenge[r] * Period <= now

LEMMA InitClocks == Init => Clocks
BY DEF Init, Clocks

LEMMA NextClocks == TypeOK /\ Clocks /\ [Next]_vars => Clocks'
<1>. SUFFICES ASSUME TypeOK, Clocks, [Next]_vars
              PROVE  Clocks'
  OBVIOUS
<1>. /\ now \in Nat
     /\ refreshed \in [Server -> Nat]
     /\ challenge \in [Request -> Nat]
     /\ phase \in [Request -> Phases]
  BY DEF TypeOK
<1>1. ASSUME NEW r \in Request, NEW s \in Server, getProofOfWorkChallenge(r, s)
      PROVE  Clocks'
  <2>1. (refreshed[s] \div Period) * Period <= refreshed[s]
    BY Interval, IntervalType
  <2>2. challenge'[r] * Period <= now
    BY <1>1, <2>1, IntervalType
       DEF getProofOfWorkChallenge, currentRefreshIntervalId, Clocks
  <2>3. ASSUME NEW q \in Request, phase'[q] /= "new"
        PROVE  challenge'[q] * Period <= now
    <3>1. CASE q = r
      BY <2>2, <3>1
    <3>2. CASE q /= r
      <4>1. challenge'[q] = challenge[q] /\ phase'[q] = phase[q]
        BY <1>1, <3>2 DEF getProofOfWorkChallenge
      <4>. QED
        BY <4>1, <2>3 DEF Clocks
    <3>. QED
      BY <3>1, <3>2
  <2>4. UNCHANGED <<now, refreshed>>
    BY <1>1 DEF getProofOfWorkChallenge
  <2>. QED
    BY <2>3, <2>4 DEF Clocks
<1>2. ASSUME UNCHANGED <<now, refreshed, challenge>>,
             \A r \in Request : phase'[r] /= "new" => phase[r] /= "new"
      PROVE  Clocks'
  BY <1>2 DEF Clocks
<1>3. ASSUME NEW r \in Request, NEW s \in Server,
             handleRegistrationRequest(r, s) \/ RefuseRegistration(r, s)
      PROVE  Clocks'
  <2>1. phase[r] /= "new"
    BY <1>3 DEF handleRegistrationRequest, RefuseRegistration, Postable
  <2>2. \A q \in Request : q /= r => phase'[q] = phase[q]
    BY <1>3 DEF handleRegistrationRequest, RefuseRegistration
  <2>. QED
    BY <1>2, <1>3, <2>1, <2>2 DEF handleRegistrationRequest, RefuseRegistration
<1>4. ASSUME NEW a \in sent, insertOrUpdateTenantRegistration(a[1], a[2])
      PROVE  Clocks'
  <2>1. PICK r \in Request, k \in Nat : r = a[1] /\ k = a[2]
    BY SentType
  <2>2. insertOrUpdateTenantRegistration(r, k)
    BY <1>4, <2>1
  <2>. QED
    BY <1>2, <2>2 DEF insertOrUpdateTenantRegistration
<1>5. ASSUME NEW r \in Request, StoreFails(r)
      PROVE  Clocks'
  BY <1>2, <1>5 DEF StoreFails
<1>6. ASSUME NEW s \in Server, refreshChallengeNonce(s)
      PROVE  Clocks'
  BY <1>6 DEF refreshChallengeNonce, Clocks
<1>7. ASSUME NEW s \in Server, NEW t \in Configured, Restart(s, t)
      PROVE  Clocks'
  <2>1. \A r \in Request : phase'[r] /= "new" => phase[r] /= "new"
    BY <1>7 DEF Restart
  <2>2. UNCHANGED <<now, challenge>> /\ refreshed' = [refreshed EXCEPT ![s] = now]
    BY <1>7 DEF Restart
  <2>. QED
    BY <2>1, <2>2 DEF Clocks
<1>8. CASE Tick
  <2>1. \A r \in Request : challenge[r] * Period \in Nat
    OBVIOUS
  <2>. QED
    BY <1>8, <2>1 DEF Tick, Clocks
<1>9. CASE UNCHANGED vars
  BY <1>2, <1>9 DEF vars
<1>. QED
  BY <1>1, <1>3, <1>4, <1>5, <1>6, <1>7, <1>8, <1>9 DEF Next, Done

\* A server whose timer is not late serves the interval of the last refresh,
\* which is the current one or the one before.
LEMMA Windows ==
    ASSUME TypeOK, Clocks, NEW r \in Request, NEW s \in Server
    PROVE  /\ phase[r] /= "new" /\ now < (challenge[r] + 2) * Period
                => challenge[r] \in acceptableChallengeNonces(s)
           /\ now >= (challenge[r] + 3) * Period
                => challenge[r] \notin acceptableChallengeNonces(s)
<1>. DEFINE x == refreshed[s]
            c == challenge[r]
            q == x \div Period
<1>1. x \in Nat /\ c \in Nat /\ now \in Nat /\ Period \in Nat /\ Period > 0
  BY DEF TypeOK
<1>2. x <= now /\ now <= x + Period /\ (phase[r] /= "new" => c * Period <= now)
  BY DEF Clocks
<1>3. q \in Nat /\ q * Period <= x /\ x < (q + 1) * Period
  BY <1>1, Interval, IntervalType
<1>4. c \in acceptableChallengeNonces(s) <=> q - 1 <= c /\ c <= q + 1
  BY <1>1, <1>3 DEF acceptableChallengeNonces, currentRefreshIntervalId
<1>. HIDE DEF x, c, q
<1>5. ASSUME NEW i \in Int, NEW j \in Int, i * Period < j * Period
      PROVE  i < j
  <2>1. i >= j => i * Period >= j * Period
    BY <1>1
  <2>. QED
    BY <1>5, <2>1, <1>1
<1>6. ASSUME phase[r] /= "new", now < (c + 2) * Period
      PROVE  q - 1 <= c /\ c <= q + 1
  <2>1. q * Period < (c + 2) * Period
    BY <1>1, <1>2, <1>3, <1>6
  <2>2. q < c + 2
    BY <2>1, <1>1, <1>3, <1>5
  <2>3. (q + 2) * Period = (q + 1) * Period + Period
    BY <1>1, <1>3
  <2>4. c * Period < (q + 2) * Period
    BY <1>1, <1>2, <1>3, <1>6, <2>3
  <2>5. c < q + 2
    BY <2>4, <1>1, <1>3, <1>5
  <2>. QED
    BY <2>2, <2>5, <1>1, <1>3
<1>7. ASSUME now >= (c + 3) * Period
      PROVE  ~(c <= q + 1 /\ q - 1 <= c)
  <2>1. (q + 2) * Period = (q + 1) * Period + Period
    BY <1>1, <1>3
  <2>2. (c + 3) * Period < (q + 2) * Period
    BY <1>1, <1>2, <1>3, <1>7, <2>1
  <2>3. c + 3 < q + 2
    BY <2>2, <1>1, <1>3, <1>5
  <2>. QED
    BY <2>3, <1>1, <1>3
<1>. QED
  BY <1>4, <1>6, <1>7 DEF c

LEMMA ClocksHold == Spec => [](TypeOK /\ Clocks)
BY InitTypeOK, NextTypeOK, InitClocks, NextClocks, PTL DEF Spec

\* Whatever the period, and wherever the timers of the servers stand, a challenge
\* that one of them handed out is taken by all until two intervals after its
\* own have begun.
THEOREM ChallengeTaken == Spec => []HandedOutIsTaken
<1>1. TypeOK /\ Clocks => HandedOutIsTaken
  BY Windows DEF HandedOutIsTaken
<1>. QED
  BY <1>1, ClocksHold, PTL

\* From three intervals after its own on no server takes it.
THEOREM ChallengeForgotten == Spec => []ChallengeExpires
<1>1. TypeOK /\ Clocks => ChallengeExpires
  BY Windows DEF ChallengeExpires
<1>. QED
  BY <1>1, ClocksHold, PTL

------------------------------------------------------------------------------
(* The gate                                                                *)

\* A row is what some accepted request of the tenant asked for.
RowsAreAgreed ==
    /\ \A d \in Did : rows[d] /= NoRow =>
          \E r \in Request :
              r.did = d /\ Stored(r.terms) = rows[d] /\ tries[r] > 0
    /\ \A a \in sent : tries[a[1]] > 0

LEMMA InitRows == Init => RowsAreAgreed
BY DEF Init, RowsAreAgreed

LEMMA NextRows == TypeOK /\ RowsAreAgreed /\ [Next]_vars => RowsAreAgreed'
<1>. SUFFICES ASSUME TypeOK, RowsAreAgreed, [Next]_vars
              PROVE  RowsAreAgreed'
  OBVIOUS
<1>. tries \in [Request -> Nat] /\ sent \subseteq Request \X Nat
  BY DEF TypeOK
<1>1. ASSUME UNCHANGED <<rows, tries>>, sent' \subseteq sent
      PROVE  RowsAreAgreed'
  BY <1>1 DEF RowsAreAgreed
<1>2. ASSUME NEW r \in Request, NEW s \in Server,
             handleRegistrationRequest(r, s)
      PROVE  RowsAreAgreed'
  <2>1. \A q \in Request : tries[q] > 0 => tries'[q] > 0
    BY <1>2 DEF handleRegistrationRequest
  <2>2. tries'[r] > 0
    BY <1>2 DEF handleRegistrationRequest
  <2>3. rows' = rows /\ sent' = sent \cup {<<r, tries[r] + 1>>}
    BY <1>2 DEF handleRegistrationRequest
  <2>4. \A a \in sent' : tries'[a[1]] > 0
    BY <2>1, <2>2, <2>3, SentType DEF RowsAreAgreed
  <2>5. ASSUME NEW d \in Did, rows'[d] /= NoRow
        PROVE  \E q \in Request :
                  q.did = d /\ Stored(q.terms) = rows'[d] /\ tries'[q] > 0
    <3>1. PICK q \in Request :
             q.did = d /\ Stored(q.terms) = rows[d] /\ tries[q] > 0
      BY <2>3, <2>5 DEF RowsAreAgreed
    <3>. QED
      BY <2>1, <2>3, <3>1
  <2>. QED
    BY <2>4, <2>5 DEF RowsAreAgreed
<1>3. ASSUME NEW a \in sent, insertOrUpdateTenantRegistration(a[1], a[2])
      PROVE  RowsAreAgreed'
  <2>1. PICK r \in Request, k \in Nat : r = a[1] /\ k = a[2]
    BY SentType
  <2>2. insertOrUpdateTenantRegistration(r, k) /\ tries[r] > 0
    BY <1>3, <2>1 DEF RowsAreAgreed
  <2>3. sent' \subseteq sent /\ tries' = tries
        /\ rows' = [rows EXCEPT ![r.did] = Stored(r.terms)]
    BY <2>2 DEF insertOrUpdateTenantRegistration
  <2>4. r.did \in Did /\ rows \in [Did -> Terms \cup {Null, NoRow}]
    BY StoredType DEF TypeOK
  <2>5. ASSUME NEW d \in Did, rows'[d] /= NoRow
        PROVE  \E q \in Request :
                  q.did = d /\ Stored(q.terms) = rows'[d] /\ tries'[q] > 0
    <3>1. CASE d = r.did
      BY <2>2, <2>3, <2>4, <3>1
    <3>2. CASE d /= r.did
      BY <2>3, <2>4, <2>5, <3>2 DEF RowsAreAgreed
    <3>. QED
      BY <3>1, <3>2
  <2>. QED
    BY <2>3, <2>5 DEF RowsAreAgreed
<1>4. ASSUME NEW r \in Request, NEW s \in Server,
             getProofOfWorkChallenge(r, s) \/ RefuseRegistration(r, s)
      PROVE  RowsAreAgreed'
  BY <1>1, <1>4 DEF getProofOfWorkChallenge, RefuseRegistration
<1>5. ASSUME NEW r \in Request, StoreFails(r)
      PROVE  RowsAreAgreed'
  BY <1>1, <1>5 DEF StoreFails
<1>6. ASSUME NEW s \in Server, refreshChallengeNonce(s)
      PROVE  RowsAreAgreed'
  BY <1>1, <1>6 DEF refreshChallengeNonce
<1>7. ASSUME NEW s \in Server, NEW t \in Configured, Restart(s, t)
      PROVE  RowsAreAgreed'
  BY <1>1, <1>7 DEF Restart
<1>8. CASE Tick
  BY <1>1, <1>8 DEF Tick
<1>9. CASE UNCHANGED vars
  BY <1>1, <1>9 DEF vars
<1>. QED
  BY <1>2, <1>3, <1>4, <1>5, <1>6, <1>7, <1>8, <1>9 DEF Next, Done

\* Nobody becomes active on a server without an accepted request for the very
\* terms that the server demands.
THEOREM Agreed == Spec => []OnlyAgreed
<1>1. TypeOK /\ RowsAreAgreed => OnlyAgreed
  <2>. SUFFICES ASSUME TypeOK, RowsAreAgreed,
                       NEW s \in Server, NEW d \in Did, isActiveTenant(s, d)
                PROVE  \E r \in Request :
                          r.did = d /\ r.terms = tos[s] /\ tries[r] > 0
    BY DEF OnlyAgreed
  <2>1. PICK r \in Request :
           r.did = d /\ Stored(r.terms) = rows[d] /\ tries[r] > 0
    BY DEF isActiveTenant, RowsAreAgreed
  <2>2. rows[d] = tos[s] /\ tos[s] \in Terms \cup {Undefined}
    BY DEF isActiveTenant, TypeOK
  <2>3. r.terms = tos[s]
    BY <2>1, <2>2, StoredType
  <2>. QED
    BY <2>1, <2>3
<1>. QED
  BY <1>1, InitTypeOK, NextTypeOK, InitRows, NextRows, PTL DEF Spec

------------------------------------------------------------------------------
(* What a confirmed request is worth                                       *)

\* No statement of a rival is on its way.
Unrivalled(r) == \A a \in sent : a[1] \notin Rivals(r)

\* A request that no rival has met since it was accepted has its terms in the
\* row once it is answered, and nothing that is on its way will change them.
Kept ==
    \A r \in Request : r \notin contested =>
        /\ phase[r] \in {"store", "ok"} => Unrivalled(r)
        /\ phase[r] = "ok" => rows[r.did] = Stored(r.terms)

LEMMA InitKept == Init => Kept
BY DEF Init, Kept, Unrivalled

LEMMA NextKept == TypeOK /\ Kept /\ [Next]_vars => Kept'
<1>. SUFFICES ASSUME TypeOK, Kept, [Next]_vars
              PROVE  Kept'
  OBVIOUS
<1>. /\ phase \in [Request -> Phases]
     /\ sent \subseteq Request \X Nat
     /\ rows \in [Did -> Terms \cup {Null, NoRow}]
  BY DEF TypeOK
<1>1. ASSUME UNCHANGED <<rows, contested>>, sent' \subseteq sent,
             \A r \in Request : \/ phase'[r] = phase[r]
                                \/ phase'[r] \notin {"store", "ok"}
      PROVE  Kept'
  BY <1>1 DEF Kept, Unrivalled, Rivals
<1>2. ASSUME NEW r \in Request, NEW s \in Server,
             handleRegistrationRequest(r, s)
      PROVE  Kept'
  <2>1. /\ rows' = rows
        /\ sent' = sent \cup {<<r, tries[r] + 1>>}
        /\ phase' = [phase EXCEPT ![r] = "store"]
        /\ contested' = (contested \ {r}) \cup Rivals(r)
              \cup {q \in {r} : \E a \in sent : a[1] \in Rivals(q)}
    BY <1>2 DEF handleRegistrationRequest
  <2>2. r \notin Rivals(r)
    BY DEF Rivals
  <2>3. ASSUME NEW q \in Request, q \notin contested'
        PROVE  /\ phase'[q] \in {"store", "ok"} => Unrivalled(q)'
               /\ phase'[q] = "ok" => rows'[q.did] = Stored(q.terms)
    <3>1. CASE q = r
      <4>1. \A a \in sent : a[1] \notin Rivals(q)
        BY <2>1, <2>3, <3>1
      <4>2. \A a \in sent' : a[1] \notin Rivals(q)
        BY <2>1, <2>2, <3>1, <4>1
      <4>. QED
        BY <2>1, <3>1, <4>2 DEF Unrivalled, Rivals
    <3>2. CASE q /= r
      <4>1. q \notin contested /\ q \notin Rivals(r) /\ phase'[q] = phase[q]
        BY <2>1, <2>3, <3>2
      <4>2. r \notin Rivals(q)
        BY <4>1 DEF Rivals
      <4>3. phase[q] \in {"store", "ok"} => Unrivalled(q)'
        BY <2>1, <4>1, <4>2 DEF Kept, Unrivalled, Rivals
      <4>. QED
        BY <2>1, <4>1, <4>3 DEF Kept
    <3>. QED
      BY <3>1, <3>2
  <2>. QED
    BY <2>3 DEF Kept
<1>3. ASSUME NEW a \in sent, insertOrUpdateTenantRegistration(a[1], a[2])
      PROVE  Kept'
  <2>1. PICK r \in Request, k \in Nat : r = a[1] /\ k = a[2]
    BY SentType
  <2>2. /\ <<r, k>> \in sent
        /\ sent' = sent \ {<<r, k>>}
        /\ contested' = contested
        /\ rows' = [rows EXCEPT ![r.did] = Stored(r.terms)]
        /\ phase' = IF k = tries[r] /\ phase[r] = "store"
                    THEN [phase EXCEPT ![r] = "ok"]
                    ELSE phase
    BY <1>3, <2>1 DEF insertOrUpdateTenantRegistration
  <2>3. r.did \in Did
    BY StoredType
  <2>4. ASSUME NEW q \in Request, q \notin contested'
        PROVE  /\ phase'[q] \in {"store", "ok"} => Unrivalled(q)'
               /\ phase'[q] = "ok" => rows'[q.did] = Stored(q.terms)
    <3>1. phase'[q] \in {"store", "ok"} => phase[q] \in {"store", "ok"}
      BY <2>2
    <3>2. phase[q] \in {"store", "ok"} => Unrivalled(q) /\ r \notin Rivals(q)
      BY <2>1, <2>2, <2>4 DEF Kept, Unrivalled
    <3>3. phase[q] \in {"store", "ok"} => Unrivalled(q)'
      BY <2>2, <3>2 DEF Unrivalled, Rivals
    <3>4. ASSUME phase'[q] = "ok"
          PROVE  rows'[q.did] = Stored(q.terms)
      <4>1. CASE q.did = r.did
        <5>1. q.terms = r.terms
          BY <3>1, <3>2, <3>4, <4>1 DEF Rivals
        <5>. QED
          BY <2>2, <2>3, <4>1, <5>1
      <4>2. CASE q.did /= r.did
        <5>1. q /= r
          BY <4>2
        <5>2. phase[q] = "ok"
          BY <2>2, <3>4, <5>1
        <5>. QED
          BY <2>2, <2>3, <2>4, <4>2, <5>2, StoredType DEF Kept
      <4>. QED
        BY <4>1, <4>2
    <3>. QED
      BY <3>1, <3>3, <3>4
  <2>. QED
    BY <2>4 DEF Kept
<1>4. ASSUME NEW r \in Request, NEW s \in Server,
             getProofOfWorkChallenge(r, s) \/ RefuseRegistration(r, s)
      PROVE  Kept'
  BY <1>1, <1>4 DEF getProofOfWorkChallenge, RefuseRegistration
<1>5. ASSUME NEW r \in Request, StoreFails(r)
      PROVE  Kept'
  BY <1>1, <1>5 DEF StoreFails
<1>6. ASSUME NEW s \in Server, refreshChallengeNonce(s)
      PROVE  Kept'
  BY <1>1, <1>6 DEF refreshChallengeNonce
<1>7. ASSUME NEW s \in Server, NEW t \in Configured, Restart(s, t)
      PROVE  Kept'
  BY <1>1, <1>7 DEF Restart
<1>8. CASE Tick
  BY <1>1, <1>8 DEF Tick
<1>9. CASE UNCHANGED vars
  BY <1>1, <1>9 DEF vars
<1>. QED
  BY <1>2, <1>3, <1>4, <1>5, <1>6, <1>7, <1>8, <1>9 DEF Next, Done

\* When every server has a terms-of-service file, a tenant whose request was
\* answered with success, and met no rival since, is active wherever these terms
\* are demanded.  Without a file it is not: the run registration_open.
THEOREM Active ==
    ASSUME Undefined \notin Configured
    PROVE  Spec => []RegisteredIsActive
<1>1. TypeOK /\ Kept => RegisteredIsActive
  <2>. SUFFICES ASSUME TypeOK, Kept, NEW r \in Request, NEW s \in Server,
                       phase[r] = "ok", r \notin contested, tos[s] = r.terms
                PROVE  isActiveTenant(s, r.did)
    BY DEF RegisteredIsActive
  <2>1. tos[s] \in Terms
    BY DEF TypeOK
  <2>2. rows[r.did] = r.terms
    BY <2>1, StoredType DEF Kept
  <2>. QED
    BY <2>1, <2>2 DEF isActiveTenant
<1>. QED
  BY <1>1, InitTypeOK, NextTypeOK, InitKept, NextKept, PTL DEF Spec

------------------------------------------------------------------------------
(* The refinement                                                          *)

Pending == {a[1] : a \in sent}
Confirmed == {r \in Request : phase[r] = "ok"}
Recorded == [d \in Did |-> IF rows[d] = Null THEN Undefined ELSE rows[d]]

LEMMA InitSimulates == Init => Tenants!Init
<1>. SUFFICES ASSUME Init
              PROVE  Tenants!Init
  OBVIOUS
<1>1. Pending = {} /\ Confirmed = {}
  BY DEF Init, Pending, Confirmed
<1>2. Recorded = [d \in Did |-> NoRow]
  BY DEF Init, Recorded
<1>. QED
  BY <1>1, <1>2 DEF Init, Tenants!Init, Pending, Confirmed, Recorded

\* A step of Registration is a step of Tenancy, or changes nothing of it.
LEMMA NextSimulates == TypeOK /\ [Next]_vars => [Tenants!Next]_(Tenants!vars)
<1>. SUFFICES ASSUME TypeOK, [Next]_vars
              PROVE  [Tenants!Next]_(Tenants!vars)
  OBVIOUS
<1>. /\ phase \in [Request -> Phases]
     /\ sent \subseteq Request \X Nat
     /\ rows \in [Did -> Terms \cup {Null, NoRow}]
     /\ tos \in [Server -> Configured]
  BY DEF TypeOK
<1>. USE DEF Tenants!vars
<1>1. ASSUME UNCHANGED <<tos, Pending, Confirmed, Recorded>>
      PROVE  UNCHANGED Tenants!vars
  BY <1>1 DEF Pending, Confirmed, Recorded
<1>2. ASSUME UNCHANGED <<tos, Recorded, Confirmed>>, Pending' \subseteq Pending
      PROVE  Tenants!Lose
  BY <1>2 DEF Tenants!Lose, Pending, Confirmed, Recorded
<1>3. ASSUME NEW r \in Request, NEW s \in Server,
             getProofOfWorkChallenge(r, s) \/ RefuseRegistration(r, s)
      PROVE  UNCHANGED Tenants!vars
  <2>1. UNCHANGED <<tos, sent, rows>>
    BY <1>3 DEF getProofOfWorkChallenge, RefuseRegistration
  <2>2. \A q \in Request : phase'[q] = "ok" <=> phase[q] = "ok"
    BY <1>3 DEF getProofOfWorkChallenge, RefuseRegistration, Postable
  <2>. QED
    BY <1>1, <2>1, <2>2 DEF Pending, Confirmed, Recorded
<1>4. ASSUME NEW r \in Request, NEW s \in Server,
             handleRegistrationRequest(r, s)
      PROVE  Tenants!Accept(r, s)
  <2>1. /\ UNCHANGED <<tos, rows>>
        /\ r.terms = tos[s]
        /\ sent' = sent \cup {<<r, tries[r] + 1>>}
        /\ phase' = [phase EXCEPT ![r] = "store"]
        /\ phase[r] /= "ok"
    BY <1>4 DEF handleRegistrationRequest, Acceptable, Postable
  <2>2. Pending' = Pending \cup {r}
    <3>1. Pending' = {a[1] : a \in sent \cup {<<r, tries[r] + 1>>}}
      BY <2>1 DEF Pending
    <3>2. <<r, tries[r] + 1>>[1] = r
      OBVIOUS
    <3>. QED
      BY <3>1, <3>2, Zenon DEF Pending
  <2>3. UNCHANGED <<Confirmed, Recorded>>
    BY <2>1 DEF Confirmed, Recorded
  <2>. QED
    BY <2>1, <2>2, <2>3 DEF Tenants!Accept, Pending, Confirmed, Recorded
<1>5. ASSUME NEW a \in sent, insertOrUpdateTenantRegistration(a[1], a[2])
      PROVE  \E r \in Request : Tenants!TakeEffect(r)
  <2>1. PICK r \in Request, k \in Nat : r = a[1] /\ k = a[2]
    BY SentType
  <2>2. /\ <<r, k>> \in sent
        /\ sent' = sent \ {<<r, k>>}
        /\ tos' = tos
        /\ rows' = [rows EXCEPT ![r.did] = Stored(r.terms)]
        /\ phase' = IF k = tries[r] /\ phase[r] = "store"
                    THEN [phase EXCEPT ![r] = "ok"]
                    ELSE phase
    BY <1>5, <2>1 DEF insertOrUpdateTenantRegistration
  <2>3. r \in Pending
    BY <2>2 DEF Pending
  <2>4. Pending' \in {Pending, Pending \ {r}}
    <3>1. ASSUME NEW q, q /= r
          PROVE  q \in Pending' <=> q \in Pending
      BY <2>2, <3>1 DEF Pending
    <3>2. CASE r \in Pending'
      <4>1. \A q : q \in Pending' <=> q \in Pending
        BY <2>3, <3>1, <3>2
      <4>2. Pending' = Pending
        BY <4>1, Zenon
      <4>. QED
        BY <4>2
    <3>3. CASE r \notin Pending'
      <4>1. Pending' = Pending \ {r}
        BY <2>3, <3>1, <3>3, Zenon
      <4>. QED
        BY <4>1
    <3>. QED
      BY <3>2, <3>3
  <2>5. Confirmed' \in {Confirmed, Confirmed \cup {r}}
    BY <2>2 DEF Confirmed
  <2>6. Recorded' = [Recorded EXCEPT ![r.did] = r.terms]
    <3>1. r.did \in Did /\ (Stored(r.terms) = Null <=> r.terms = Undefined)
          /\ (r.terms /= Undefined => Stored(r.terms) = r.terms)
      BY StoredType
    <3>. QED
      BY <2>2, <3>1 DEF Recorded
  <2>. QED
    BY <2>2, <2>3, <2>4, <2>5, <2>6
       DEF Tenants!TakeEffect, Pending, Confirmed, Recorded
<1>6. ASSUME NEW r \in Request, StoreFails(r)
      PROVE  Tenants!Lose
  <2>1. UNCHANGED <<tos, rows>> /\ sent' \subseteq sent
    BY <1>6 DEF StoreFails
  <2>2. Pending' \subseteq Pending
    BY <2>1 DEF Pending
  <2>3. UNCHANGED <<Confirmed, Recorded>>
    BY <1>6, <2>1 DEF StoreFails, Confirmed, Recorded
  <2>. QED
    BY <1>2, <2>1, <2>2, <2>3
<1>7. ASSUME NEW s \in Server, NEW t \in Configured, Restart(s, t)
      PROVE  Tenants!Deploy(s, t)
  <2>1. rows' = rows /\ sent' \subseteq sent /\ tos' = [tos EXCEPT ![s] = t]
    BY <1>7 DEF Restart
  <2>2. Pending' \subseteq Pending
    BY <2>1 DEF Pending
  <2>3. UNCHANGED <<Confirmed, Recorded>>
    BY <1>7, <2>1 DEF Restart, Confirmed, Recorded
  <2>. QED
    BY <2>1, <2>2, <2>3 DEF Tenants!Deploy, Pending, Confirmed, Recorded
<1>8. ASSUME \/ \E s \in Server : refreshChallengeNonce(s)
             \/ Tick
             \/ UNCHANGED vars
      PROVE  UNCHANGED Tenants!vars
  <2>1. UNCHANGED <<tos, sent, rows, phase>>
    BY <1>8 DEF refreshChallengeNonce, Tick, vars
  <2>. QED
    BY <1>1, <2>1 DEF Pending, Confirmed, Recorded
<1>. QED
  BY <1>3, <1>4, <1>5, <1>6, <1>7, <1>8 DEF Next, Done, Tenants!Next

\* For every cluster, every set of requests and any number of restarts, failed
\* writes and second attempts, registration is what Tenancy says.
THEOREM Refinement == Spec => Tenancy
BY InitSimulates, InitTypeOK, NextTypeOK, NextSimulates, PTL
   DEF Spec, Tenancy, Tenants!Spec
==============================================================================
