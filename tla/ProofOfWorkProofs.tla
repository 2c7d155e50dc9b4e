--------------------------- MODULE ProofOfWorkProofs ---------------------------
(***************************************************************************)
(* Proofs about ProofOfWork, for any nonces, periods, rates and hashes.    *)
(***************************************************************************)
EXTENDS ProofOfWork, FiniteSetTheorems, TLAPS

USE ProofOfWorkAssumption

(* Integer division.                                                       *)

\* A quotient is below whatever its product with the divisor is above.
LEMMA DivBelow ==
    ASSUME NEW a \in Nat, NEW b \in Nat \ {0}, NEW k \in Int, a < k * b
    PROVE  a \div b \in Nat /\ a \div b < k
<1>. DEFINE q == a \div b
<1>1. q \in Int /\ a = b * q + (a % b) /\ a % b \in 0 .. b - 1
  OBVIOUS
<1>2. b * q <= a /\ a < b * q + b
  BY <1>1
<1>3. q >= 0
  <2>. SUFFICES ASSUME q <= -1 PROVE FALSE
    BY <1>1
  <2>1. b * q <= b * (-1)
    BY <1>1
  <2>. QED  BY <1>1, <1>2, <2>1
<1>4. q < k
  <2>. SUFFICES ASSUME q >= k PROVE FALSE
    BY <1>1
  <2>1. b * q >= b * k
    BY <1>1
  <2>. QED  BY <1>1, <1>2, <2>1
<1>. QED  BY <1>1, <1>3, <1>4

\* A quotient is at least whatever its product with the divisor is not above.
LEMMA DivAbove ==
    ASSUME NEW a \in Nat, NEW b \in Nat \ {0}, NEW k \in Int, k * b <= a
    PROVE  a \div b \in Int /\ a \div b >= k
<1>. DEFINE q == a \div b
<1>1. q \in Int /\ a = b * q + (a % b) /\ a % b \in 0 .. b - 1
  OBVIOUS
<1>2. a < b * q + b
  BY <1>1
<1>3. q >= k
  <2>. SUFFICES ASSUME q + 1 <= k PROVE FALSE
    BY <1>1
  <2>1. b * (q + 1) <= b * k
    BY <1>1
  <2>. QED  BY <1>1, <1>2, <2>1
<1>. QED  BY <1>1, <1>3

------------------------------------------------------------------------------
(* The difficulty.                                                         *)

\* There is more than one evaluation in a minute.
LEMMA Evaluations ==
    /\ difficultyEvaluationsPerMinute \in Nat \ {0}
    /\ BackEvaluations \in Nat \ {0}
<1>1. difficultyEvaluationsPerMinute \in Int
  BY DEF difficultyEvaluationsPerMinute
<1>2. difficultyEvaluationsPerMinute > 0
  BY <1>1, MultiplierAssumption
<1>3. BackMinutes * difficultyEvaluationsPerMinute \in Nat \ {0}
  BY <1>1, <1>2
<1>. QED  BY <1>1, <1>2, <1>3 DEF BackEvaluations

\* One evaluation lowers the maximum, but never to 0.
LEMMA DecreaseBounds ==
    ASSUME NEW max \in Nat \ {0}, NEW solves \in Nat, solves > Desired
    PROVE  DecreaseAmount(max, solves) \in 0 .. max - 1
<1>. DEFINE rate   == (solves * Multiplier * Scale) \div Desired
            target == (max * Scale) \div rate
            E      == difficultyEvaluationsPerMinute
<1>1. rate \in Nat \ {0} /\ rate >= Scale
  <2>1. solves * Multiplier \in Nat /\ solves * Multiplier >= Desired
    <3>1. solves * Multiplier >= solves
      OBVIOUS
    <3>. QED  BY <3>1
  <2>2. /\ solves * Multiplier * Scale \in Nat
        /\ Scale * Desired <= solves * Multiplier * Scale
    BY <2>1
  <2>. HIDE DEF rate
  <2>3. rate \in Int /\ rate >= Scale
    BY <2>2, DivAbove DEF rate
  <2>. QED  BY <2>3
<1>. HIDE DEF rate
<1>2. target \in Nat /\ target <= max
  <2>1. max * Scale \in Nat /\ (max + 1) * rate >= (max + 1) * Scale
    BY <1>1
  <2>2. max * Scale < (max + 1) * rate
    BY <1>1, <2>1
  <2>3. target \in Nat /\ target < max + 1
    BY <1>1, <2>1, <2>2, DivBelow
  <2>. QED  BY <2>3
<1>. HIDE DEF target
<1>3. /\ (max - target) * Multiplier \in Nat
      /\ (max - target) * Multiplier < max * E
  <2>1. E \in Nat \ {0} /\ Multiplier < E
    BY Evaluations, MultiplierAssumption
  <2>. HIDE DEF E
  <2>2. max - target \in 0 .. max
    BY <1>2
  <2>3. /\ (max - target) * Multiplier \in Nat
        /\ (max - target) * Multiplier <= max * Multiplier
    BY <2>2
  <2>4. max * Multiplier < max * E
    BY <2>1
  <2>. QED  BY <2>1, <2>3, <2>4
<1>4. ((max - target) * Multiplier) \div E \in Nat
      /\ ((max - target) * Multiplier) \div E < max
  BY <1>3, Evaluations, DivBelow
<1>. QED  BY <1>4 DEF DecreaseAmount, rate, target

\* The increment of a recovery is a number.
LEMMA IncrementType ==
    ASSUME maxHash \in 1 .. Initial, increment \in Nat \cup {Undefined}
    PROVE  Increment \in Nat
<1>1. (Initial - maxHash) \div BackEvaluations \in Nat
  <2>1. Initial - maxHash \in Nat
    OBVIOUS
  <2>2. Initial - maxHash < (Initial - maxHash + 1) * BackEvaluations
    BY <2>1, Evaluations
  <2>. QED  BY <2>1, <2>2, Evaluations, DivBelow
<1>. QED  BY <1>1 DEF Increment, Undefined

------------------------------------------------------------------------------
(* The invariant.                                                          *)

\* A recorded nonce is at most as old as the time since the last evaluation
\* allows: the evaluation removed what was older than a minute.
RecentSince ==
    \A n \in Response :
        /\ age[n] <= Minute => n \in recent
        /\ n \in recent => age[n] + reevalIn <= Minute + ReevaluationPeriod

\* A challenge that a client holds is the current one, or the previous one and
\* then older than the current one, or older than a period.
HeldSince ==
    \A c \in Client : held[c] # Nil =>
        \/ held[c] = current
        \/ held[c] = previous /\ heldFor[c] + refreshIn >= RefreshPeriod
        \/ heldFor[c] >= RefreshPeriod

IInv == TypeOK /\ DifficultyInRange /\ RecentSince /\ HeldSince

\* Counting up to a bound.
LEMMA UpBounds ==
    ASSUME NEW max \in Nat, NEW n \in 0 .. max
    PROVE  /\ Up(n, max) \in 0 .. max
           /\ n < max => Up(n, max) = n + 1
           /\ Up(n, max) >= n
BY DEF Up

LEMMA Bounds == MaxAge \in Nat /\ MaxHeld \in Nat /\ MaxCalm \in Nat
BY Evaluations DEF MaxAge, MaxHeld, MaxCalm

LEMMA InitIInv == Init => IInv
<1>. SUFFICES ASSUME Init PROVE IInv
  OBVIOUS
<1>1. TypeOK
  BY Bounds DEF Init, TypeOK
<1>2. DifficultyInRange
  BY DEF Init, DifficultyInRange
<1>3. RecentSince
  BY DEF Init, RecentSince, MaxAge
<1>4. HeldSince
  BY DEF Init, HeldSince
<1>. QED  BY <1>1, <1>2, <1>3, <1>4 DEF IInv

\* Giving out and verifying leave the difficulty and the timers alone.
LEMMA RequestStep ==
    ASSUME IInv,
           \/ \E c \in Client : getProofOfWorkChallenge(c)
           \/ \E n \in Response, c \in Challenge, h \in Hash :
                 verifyProofOfWork(n, c, h)
    PROVE  IInv'
<1>1. CASE \E c \in Client : getProofOfWorkChallenge(c)
  <2>. PICK c \in Client : getProofOfWorkChallenge(c)
    BY <1>1
  <2>1. TypeOK'
    BY Bounds DEF IInv, TypeOK, getProofOfWorkChallenge, MaxHeld
  <2>2. DifficultyInRange' /\ RecentSince'
    BY DEF IInv, DifficultyInRange, RecentSince, getProofOfWorkChallenge
  <2>3. HeldSince'
    BY DEF IInv, TypeOK, HeldSince, getProofOfWorkChallenge
  <2>. QED  BY <2>1, <2>2, <2>3 DEF IInv
<1>2. CASE \E n \in Response, c \in Challenge, h \in Hash :
              verifyProofOfWork(n, c, h)
  <2>. PICK n \in Response, c \in Challenge, h \in Hash :
            verifyProofOfWork(n, c, h)
    BY <1>2
  <2>1. TypeOK'
    BY Bounds DEF IInv, TypeOK, verifyProofOfWork
  <2>2. DifficultyInRange' /\ HeldSince'
    BY DEF IInv, DifficultyInRange, HeldSince, verifyProofOfWork
  <2>3. RecentSince'
    BY DEF IInv, TypeOK, RecentSince, verifyProofOfWork
  <2>. QED  BY <2>1, <2>2, <2>3 DEF IInv
<1>. QED  BY <1>1, <1>2

LEMMA RefreshStep == ASSUME IInv, refreshChallengeNonce PROVE IInv'
<1>1. TypeOK'
  BY DEF IInv, TypeOK, refreshChallengeNonce
<1>2. DifficultyInRange' /\ RecentSince'
  BY DEF IInv, DifficultyInRange, RecentSince, refreshChallengeNonce
<1>3. HeldSince'
  BY DEF IInv, TypeOK, HeldSince, refreshChallengeNonce
<1>. QED  BY <1>1, <1>2, <1>3 DEF IInv

\* An evaluation keeps the maximum in its range.
LEMMA DifficultyStep ==
    ASSUME IInv, NEW solves \in Nat,
           \/ solves > Desired /\ makeHarder(solves)
           \/ makeEasier
    PROVE  /\ maxHash' \in 1 .. Initial
           /\ increment' \in Nat \cup {Undefined}
           /\ calm' \in 0 .. MaxCalm
<1>1. maxHash \in 1 .. Initial /\ increment \in Nat \cup {Undefined}
  BY DEF IInv, TypeOK, DifficultyInRange
<1>2. calm \in 0 .. MaxCalm
  BY DEF IInv, TypeOK
<1>3. CASE solves > Desired /\ makeHarder(solves)
  <2>1. DecreaseAmount(maxHash, solves) \in 0 .. maxHash - 1
    BY <1>1, <1>3, DecreaseBounds
  <2>. QED  BY <1>1, <1>3, <2>1, Bounds DEF makeHarder
<1>4. CASE makeEasier
  <2>1. Increment \in Nat
    BY <1>1, IncrementType
  <2>2. Up(calm, MaxCalm) \in 0 .. MaxCalm
    BY <1>2, Bounds, UpBounds
  <2>. QED  BY <1>1, <1>4, <2>1, <2>2 DEF makeEasier
<1>. QED  BY <1>3, <1>4

LEMMA ReevaluateStep == ASSUME IInv, Reevaluate PROVE IInv'
<1>. DEFINE solves == Cardinality(OfLastMinute)
<1>1. solves \in Nat
  <2>1. OfLastMinute \subseteq Response
    BY DEF IInv, TypeOK, OfLastMinute
  <2>. QED  BY <2>1, FS_Subset, FS_CardinalityType
<1>2. (solves > Desired /\ makeHarder(solves)) \/ makeEasier
  BY DEF Reevaluate
<1>. HIDE DEF solves
<1>3. /\ maxHash' \in 1 .. Initial
      /\ increment' \in Nat \cup {Undefined}
      /\ calm' \in 0 .. MaxCalm
  BY <1>1, <1>2, DifficultyStep
<1>4. TypeOK'
  BY <1>3 DEF IInv, TypeOK, Reevaluate, OfLastMinute
<1>5. DifficultyInRange'
  BY <1>3 DEF DifficultyInRange
<1>6. RecentSince'
  BY DEF IInv, TypeOK, RecentSince, Reevaluate, OfLastMinute
<1>7. HeldSince'
  BY DEF IInv, HeldSince, Reevaluate
<1>. QED  BY <1>4, <1>5, <1>6, <1>7 DEF IInv

LEMMA TickStep == ASSUME IInv, Tick PROVE IInv'
<1>1. /\ \A n \in Response : /\ age'[n] = Up(age[n], MaxAge)
                             /\ age[n] \in 0 .. MaxAge
      /\ \A c \in Client : /\ heldFor'[c] = Up(heldFor[c], MaxHeld)
                           /\ heldFor[c] \in 0 .. MaxHeld
      /\ refreshIn' = refreshIn - 1 /\ refreshIn \in 1 .. RefreshPeriod
      /\ reevalIn' = reevalIn - 1 /\ reevalIn \in 1 .. ReevaluationPeriod
  BY DEF IInv, TypeOK, Tick
<1>2. \A n \in Response : age'[n] \in 0 .. MaxAge
  BY <1>1, Bounds, UpBounds
<1>3. \A c \in Client : heldFor'[c] \in 0 .. MaxHeld
  BY <1>1, Bounds, UpBounds
<1>4. TypeOK'
  BY <1>1, <1>2, <1>3 DEF IInv, TypeOK, Tick
<1>5. DifficultyInRange'
  BY DEF IInv, DifficultyInRange, Tick
<1>6. RecentSince'
  BY <1>1, Bounds DEF IInv, RecentSince, Tick, Up
<1>7. HeldSince'
  BY <1>1, Bounds DEF IInv, HeldSince, Tick, Up, MaxHeld
<1>. QED  BY <1>4, <1>5, <1>6, <1>7 DEF IInv

LEMMA IInvInvariant == Spec => []IInv
<1>1. IInv /\ [Next]_vars => IInv'
  <2>. SUFFICES ASSUME IInv, [Next]_vars PROVE IInv'
    OBVIOUS
  <2>1. CASE UNCHANGED vars
    BY <2>1 DEF vars, IInv, TypeOK, DifficultyInRange, RecentSince, HeldSince
  <2>. QED
    BY <2>1, RequestStep, RefreshStep, ReevaluateStep, TickStep DEF Next
<1>. QED  BY InitIInv, <1>1, PTL DEF Spec

\* The types of all variables (proof-of-work-manager.ts).
THEOREM Typing == Spec => []TypeOK
BY IInvInvariant, PTL DEF IInv

\* The doc of refreshMaximumAllowedHashValue: the difficulty is never lower than
\* the initial one, and never beyond the hardest.
THEOREM Difficulty == Spec => []DifficultyInRange
BY IInvInvariant, PTL DEF IInv

\* A response nonce is refused for a minute after it was accepted, and not for
\* longer than to the next evaluation after that.
THEOREM Reuse == Spec => []ReuseWindow
<1>1. IInv => ReuseWindow
  BY DEF IInv, TypeOK, RecentSince, ReuseWindow
<1>. QED  BY <1>1, IInvInvariant, PTL

\* A challenge is accepted for a refresh period from when it was given out.
THEOREM ChallengeGood == Spec => []ChallengeIsGood
<1>1. IInv => ChallengeIsGood
  BY DEF IInv, TypeOK, HeldSince, ChallengeIsGood, Acceptable
<1>. QED  BY <1>1, IInvInvariant, PTL

------------------------------------------------------------------------------
(* The way back to the initial difficulty.                                 *)

\* What is missing to the initial maximum once the difficulty was raised: at
\* least so much that the remainder of its division is below the increment.
Gap == BackEvaluations * (BackEvaluations - 1)

\* Where the way back stands: it was taken, or it has not begun, or every
\* evaluation goes an increment of it and the last but one leaves one increment.
Recovery ==
    \/ maxHash = Initial
    \/ /\ increment = Undefined
       /\ calm = 0
       /\ Initial - maxHash >= Gap
    \/ /\ increment \in Nat
       /\ calm \in 1 .. BackEvaluations
       /\ Initial - maxHash <= (BackEvaluations + 1 - calm) * increment

\* The maximum is to go down by a share of it that does not vanish.
LEMMA ShareOfMaximum ==
    ASSUME Desired <= Scale, NEW max \in Nat \ {0},
           NEW solves \in Nat, solves > Desired
    PROVE  \E d \in Nat :
              /\ d * (Scale + 1) >= max
              /\ DecreaseAmount(max, solves)
                    = (d * Multiplier) \div difficultyEvaluationsPerMinute
<1>. DEFINE rate   == (solves * Multiplier * Scale) \div Desired
            target == (max * Scale) \div rate
<1>1. rate \in Nat \ {0} /\ rate >= Scale + 1
  <2>1. solves * Multiplier \in Nat /\ solves * Multiplier >= Desired + 1
    <3>1. solves * Multiplier >= solves
      OBVIOUS
    <3>. QED  BY <3>1
  <2>2. (Desired + 1) * Scale <= solves * Multiplier * Scale
    BY <2>1
  <2>3. (Scale + 1) * Desired <= (Desired + 1) * Scale
    OBVIOUS
  <2>4. /\ solves * Multiplier * Scale \in Nat
        /\ (Scale + 1) * Desired <= solves * Multiplier * Scale
    BY <2>1, <2>2, <2>3
  <2>. HIDE DEF rate
  <2>5. rate \in Int /\ rate >= Scale + 1
    BY <2>4, DivAbove DEF rate
  <2>. QED  BY <2>5
<1>. HIDE DEF rate
<1>2. target \in Nat /\ target * rate <= max * Scale
  <2>1. max * Scale \in Nat
    OBVIOUS
  <2>2. target \in Int /\ max * Scale = rate * target + ((max * Scale) % rate)
        /\ (max * Scale) % rate \in 0 .. rate - 1
    BY <2>1, <1>1
  <2>3. max * Scale < (max * Scale + 1) * rate
    <3>. DEFINE p == max * Scale
    <3>1. p \in Nat
      BY <2>1
    <3>. HIDE DEF p
    <3>2. (p + 1) * rate >= (p + 1) * 1
      BY <3>1, <1>1
    <3>3. p < (p + 1) * rate
      BY <3>1, <3>2, <1>1
    <3>. QED  BY <3>3 DEF p
  <2>4. target \in Nat
    BY <2>1, <2>3, <1>1, DivBelow
  <2>. HIDE DEF target
  <2>. QED  BY <2>2, <2>4, <1>1
<1>. HIDE DEF target
<1>3. (max - target) * (Scale + 1) >= max
  <2>1. target * (Scale + 1) <= target * rate
    BY <1>1, <1>2
  <2>. QED  BY <2>1, <1>1, <1>2
<1>4. max - target \in Nat
  <2>. DEFINE d == max - target
  <2>1. d \in Int /\ d * (Scale + 1) >= 1
    BY <1>2, <1>3
  <2>. HIDE DEF d
  <2>2. d >= 0
    BY <2>1
  <2>. QED  BY <2>1, <2>2 DEF d
<1>5. DecreaseAmount(max, solves)
        = ((max - target) * Multiplier) \div difficultyEvaluationsPerMinute
  BY DEF DecreaseAmount, rate, target
<1>. QED  BY <1>3, <1>4, <1>5

\* One evaluation above the desired rate lowers the maximum by Gap, when the
\* earlier ones have not.
LEMMA DecreaseIsLarge ==
    ASSUME LargeInitial, NEW max \in 1 .. Initial,
           NEW solves \in Nat, solves > Desired
    PROVE  Initial - (max - DecreaseAmount(max, solves)) >= Gap
<1>. DEFINE E == difficultyEvaluationsPerMinute
            g == Initial - max
<1>1. E \in Nat \ {0} /\ Gap \in Nat
  <2>1. /\ BackEvaluations \in Nat /\ BackEvaluations - 1 \in Nat
        /\ E \in Nat \ {0}
    BY Evaluations
  <2>. QED  BY <2>1 DEF Gap
<1>. HIDE DEF E
<1>2. PICK d \in Nat : /\ d * (Scale + 1) >= max
                       /\ DecreaseAmount(max, solves) = (d * Multiplier) \div E
  <2>1. max \in Nat \ {0} /\ Desired <= Scale
    BY DEF LargeInitial
  <2>. QED  BY <2>1, ShareOfMaximum DEF E
<1>3. CASE g >= Gap
  <2>1. DecreaseAmount(max, solves) \in 0 .. max - 1
    BY DecreaseBounds
  <2>. QED  BY <1>1, <1>3, <2>1
<1>4. CASE g < Gap
  <2>1. Gap - g \in Nat /\ g \in Nat
    BY <1>1, <1>4
  <2>2. E * (Gap - g) <= d
    <3>. SUFFICES ASSUME d < E * (Gap - g) PROVE FALSE
      BY <1>1, <2>1
    <3>1. E * (Gap - g) \in Nat /\ d + 1 <= E * (Gap - g)
      BY <1>1, <2>1
    <3>2. (Scale + 1) * (d + 1) <= (Scale + 1) * (E * (Gap - g))
      BY <3>1
    <3>3. (Scale + 1) * (d + 1) = d * (Scale + 1) + Scale + 1
      OBVIOUS
    <3>4. Initial >= (Scale + 1) * E * Gap
      BY DEF LargeInitial, Gap, E
    <3>5. (Scale + 1) * E \in Nat \ {0}
      BY <1>1
    <3>6. (Scale + 1) * (E * (Gap - g))
            = (Scale + 1) * E * Gap - (Scale + 1) * E * g
      BY <1>1, <2>1
    <3>7. (Scale + 1) * E * g >= g
      BY <3>5, <2>1
    <3>8. max = Initial - g
      OBVIOUS
    <3>. HIDE DEF g
    <3>9. /\ d * (Scale + 1) \in Nat
          /\ (Scale + 1) * E * Gap \in Nat
          /\ (Scale + 1) * E * g \in Nat
      BY <1>1, <2>1, <3>5
    <3>. QED  BY <1>2, <2>1, <3>2, <3>3, <3>4, <3>6, <3>7, <3>8, <3>9
  <2>3. d * Multiplier \in Nat /\ d * Multiplier >= d
    OBVIOUS
  <2>4. (Gap - g) * E <= d * Multiplier
    BY <2>1, <2>2, <2>3, <1>1
  <2>5. (d * Multiplier) \div E \in Int /\ (d * Multiplier) \div E >= Gap - g
    BY <2>1, <2>3, <2>4, <1>1, DivAbove
  <2>. QED  BY <1>1, <1>2, <2>1, <2>5
<1>. QED  BY <1>1, <1>3, <1>4

\* The first evaluation of the way back divides it: the remainder is below the
\* increment, so that one evaluation more takes the rest.
LEMMA FirstStepBack ==
    ASSUME NEW D \in Nat, D >= Gap
    PROVE  /\ D \div BackEvaluations \in Nat
           /\ D - D \div BackEvaluations
                <= BackEvaluations * (D \div BackEvaluations)
<1>. DEFINE B == BackEvaluations
            q == D \div B
<1>1. B \in Nat \ {0}
  BY Evaluations
<1>2. (B - 1) * B <= D
  BY <1>1 DEF Gap
<1>. HIDE DEF B
<1>3. q \in Int /\ q >= B - 1
  BY <1>1, <1>2, DivAbove
<1>4. D = B * q + (D % B) /\ D % B \in 0 .. B - 1
  BY <1>1
<1>. HIDE DEF q
<1>5. D - q <= B * q
  BY <1>1, <1>3, <1>4
<1>. QED  BY <1>1, <1>3, <1>5 DEF B, q

LEMMA RecoveryStep ==
    ASSUME LargeInitial, IInv, Recovery, [Next]_vars
    PROVE  Recovery'
<1>1. CASE UNCHANGED <<maxHash, increment, calm>>
  BY <1>1 DEF Recovery
<1>2. CASE Reevaluate
  <2>. DEFINE solves == Cardinality(OfLastMinute)
              B      == BackEvaluations
  <2>1. solves \in Nat
    <3>1. OfLastMinute \subseteq Response
      BY DEF IInv, TypeOK, OfLastMinute
    <3>. QED  BY <3>1, FS_Subset, FS_CardinalityType
  <2>2. (solves > Desired /\ makeHarder(solves)) \/ makeEasier
    BY <1>2 DEF Reevaluate
  <2>. HIDE DEF solves
  <2>3. /\ maxHash \in 1 .. Initial /\ increment \in Nat \cup {Undefined}
        /\ B \in Nat \ {0} /\ MaxCalm = B + 2
    BY Evaluations DEF IInv, TypeOK, DifficultyInRange, MaxCalm
  <2>. HIDE DEF B
  <2>4. CASE solves > Desired /\ makeHarder(solves)
    BY <2>1, <2>3, <2>4, DecreaseIsLarge DEF makeHarder, Recovery
  <2>5. CASE makeEasier /\ maxHash = Initial
    BY <2>5 DEF makeEasier, Recovery
  <2>6. CASE makeEasier /\ maxHash # Initial
    <3>1. CASE maxHash + Increment >= Initial
      BY <2>6, <3>1 DEF makeEasier, Recovery
    <3>2. CASE ~ (maxHash + Increment >= Initial)
      <4>1. /\ maxHash' = maxHash + Increment /\ increment' = Increment
            /\ calm' = Up(calm, MaxCalm)
        BY <2>6, <3>2 DEF makeEasier
      <4>2. CASE increment = Undefined /\ calm = 0 /\ Initial - maxHash >= Gap
        <5>1. Increment = (Initial - maxHash) \div B
          BY <4>2 DEF Increment, B
        <5>2. /\ Increment \in Nat
              /\ Initial - maxHash - Increment <= B * Increment
          BY <5>1, <4>2, <2>3, FirstStepBack DEF B
        <5>3. calm' = 1
          BY <4>1, <4>2, <2>3 DEF Up
        <5>. QED  BY <5>2, <5>3, <4>1, <2>3 DEF Recovery, B
      <4>3. CASE /\ increment \in Nat
                 /\ calm \in 1 .. B
                 /\ Initial - maxHash <= (B + 1 - calm) * increment
        <5>1. Increment = increment
          BY <4>3 DEF Increment, Undefined
        <5>2. calm' = calm + 1
          BY <4>1, <4>3, <2>3 DEF Up
        <5>3. (B + 1 - calm) * increment = (B - calm) * increment + increment
          BY <4>3, <2>3
        <5>4. Initial - maxHash - increment <= (B - calm) * increment
          BY <5>3, <4>3, <2>3
        <5>5. calm # B
          BY <5>1, <5>4, <3>2, <4>3, <2>3
        <5>. QED  BY <5>1, <5>2, <5>4, <5>5, <4>1, <4>3, <2>3 DEF Recovery, B
      <4>. QED  BY <2>6, <4>2, <4>3 DEF Recovery, B
    <3>. QED  BY <3>1, <3>2
  <2>. QED  BY <2>2, <2>4, <2>5, <2>6
<1>. QED
  BY <1>1, <1>2 DEF Next, vars, getProofOfWorkChallenge, verifyProofOfWork,
     refreshChallengeNonce, Tick

\* The doc of refreshMaximumAllowedHashValue: after the minutes that the way
\* back is divided into, and the one evaluation that takes the remainder, the
\* difficulty is the initial one again.
THEOREM Back == ASSUME LargeInitial PROVE Spec => []ComesBack
<1>1. Init => Recovery
  BY DEF Init, Recovery
<1>2. IInv /\ Recovery /\ [Next]_vars => Recovery'
  BY RecoveryStep
<1>3. Recovery => ComesBack
  BY Evaluations DEF Recovery, ComesBack
<1>. QED  BY <1>1, <1>2, <1>3, IInvInvariant, PTL DEF Spec

\* While solutions come faster than desired the difficulty rises at every
\* evaluation, but for maxima that no hash comes near.
THEOREM Harder == ASSUME Desired <= Scale PROVE Spec => FasterIsHarder
<1>. DEFINE E == difficultyEvaluationsPerMinute
<1>1. ASSUME NEW max \in Nat \ {0}, NEW solves \in Nat, solves > Desired,
             max >= (Scale + 1) * E
      PROVE  DecreaseAmount(max, solves) >= 1
  <2>. E \in Nat \ {0}
    BY Evaluations
  <2>. HIDE DEF E
  <2>1. PICK d \in Nat : /\ d * (Scale + 1) >= max
                         /\ DecreaseAmount(max, solves) = (d * Multiplier) \div E
    BY <1>1, ShareOfMaximum DEF E
  <2>2. d >= E
    <3>. SUFFICES ASSUME d + 1 <= E PROVE FALSE
      OBVIOUS
    <3>1. (d + 1) * (Scale + 1) <= E * (Scale + 1)
      OBVIOUS
    <3>2. (d + 1) * (Scale + 1) = d * (Scale + 1) + Scale + 1
      OBVIOUS
    <3>3. d * (Scale + 1) \in Nat /\ E * (Scale + 1) \in Nat
      OBVIOUS
    <3>. QED  BY <1>1, <2>1, <3>1, <3>2, <3>3
  <2>3. d * Multiplier \in Nat /\ 1 * E <= d * Multiplier
    <3>1. d * Multiplier >= d
      OBVIOUS
    <3>. QED  BY <2>2, <3>1
  <2>. QED  BY <2>1, <2>3, DivAbove
<1>2. IInv /\ [Next]_vars =>
        [Reevaluate /\ Cardinality(OfLastMinute) > Desired =>
            \/ maxHash' < maxHash
            \/ maxHash < (Scale + 1) * difficultyEvaluationsPerMinute]_vars
  <2>. SUFFICES ASSUME IInv, Reevaluate, Cardinality(OfLastMinute) > Desired,
                       maxHash >= (Scale + 1) * E
                PROVE  maxHash' < maxHash
    BY Evaluations DEF IInv, TypeOK
  <2>1. Cardinality(OfLastMinute) \in Nat
    <3>1. OfLastMinute \subseteq Response
      BY DEF IInv, TypeOK, OfLastMinute
    <3>. QED  BY <3>1, FS_Subset, FS_CardinalityType
  <2>2. maxHash \in Nat \ {0}
    BY DEF IInv, DifficultyInRange
  <2>3. /\ DecreaseAmount(maxHash, Cardinality(OfLastMinute)) >= 1
        /\ DecreaseAmount(maxHash, Cardinality(OfLastMinute)) \in 0 .. maxHash - 1
    BY <1>1, <2>1, <2>2, DecreaseBounds
  <2>. QED  BY <2>2, <2>3 DEF Reevaluate, makeHarder
<1>. QED  BY <1>2, IInvInvariant, PTL DEF Spec, FasterIsHarder
==============================================================================
