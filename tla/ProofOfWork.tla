----------------------------- MODULE ProofOfWork -----------------------------
(***************************************************************************)
(* ProofOfWorkManager without a challenge seed: the challenge nonces, the  *)
(* response nonces of the last minute, and the difficulty that follows the *)
(* rate of solutions.                                                      *)
(*                                                                         *)
(* Time passes in units that divide both timers' periods.  The code keeps  *)
(* timestamps; the model keeps how long ago they were taken.               *)
(***************************************************************************)
EXTENDS Integers, FiniteSets

CONSTANTS
    Challenge,           \* challenge nonces
    Response,            \* well-formed response nonces
    Client,              \* the clients that ask for a challenge
    Nil,                 \* no challenge
    Minute,              \* units of time in 60 seconds
    RefreshPeriod,       \* challengeRefreshFrequencyInSeconds
    ReevaluationPeriod,  \* difficultyReevaluationFrequencyInSeconds
    Desired,             \* desiredSolveCountPerMinute
    Multiplier,          \* difficultyIncreaseMultiplier
    Scale,               \* scaleFactor
    BackMinutes,         \* backToInitialDifficultyInMinutes
    Initial,             \* initialMaximumAllowedHashValue
    Hash                 \* the hashes that proofs come out with

difficultyEvaluationsPerMinute == Minute \div ReevaluationPeriod

\* Evaluations in the time that the difficulty takes to come back.
BackEvaluations == BackMinutes * difficultyEvaluationsPerMinute

ASSUME ProofOfWorkAssumption ==
    /\ IsFiniteSet(Response)
    /\ Nil \notin Challenge
    /\ Minute \in Nat \ {0}
    /\ RefreshPeriod \in Nat \ {0}
    /\ ReevaluationPeriod \in Nat \ {0}
    /\ Desired \in Nat \ {0}
    /\ Multiplier \in Nat \ {0}
    /\ Scale \in Nat \ {0}
    /\ BackMinutes \in Nat \ {0}
    /\ Initial \in Nat \ {0}
    /\ Hash \subseteq Nat

\* The evaluations of a minute are a whole number, as the six of the server are:
\* BigInt() throws a RangeError for any other.
ASSUME EvaluationsAssumption == Minute % ReevaluationPeriod = 0

\* With a multiplier as large as the number of evaluations in a minute one
\* evaluation may take the maximum below 1.  (The server leaves the multiplier
\* at 1 and evaluates six times a minute.)
ASSUME MultiplierAssumption == Multiplier < difficultyEvaluationsPerMinute

\* A maximum so large that one evaluation above the desired rate lowers it by
\* more than the evaluations of the way back can lose to rounding.  (The server:
\* six evaluations a minute, 60 of them on the way back, a scale of a million,
\* and an initial maximum near 2 ^ 256.)
LargeInitial ==
    /\ Desired <= Scale
    /\ Initial >= (Scale + 1) * difficultyEvaluationsPerMinute
                    * (BackEvaluations * (BackEvaluations - 1))

ASSUME ChallengeAssumption ==
    Cardinality(Challenge) >= Cardinality(Client) + 3

VARIABLES
    previous,   \* previousChallengeNonce
    current,    \* currentChallengeNonce
    held,       \* the challenge each client got last
    heldFor,    \* how long ago
    recent,     \* the keys of proofOfWorkOfLastMinute
    age,        \* how long ago each response nonce was accepted
    maxHash,    \* currentMaximumAllowedHashValueAsBigInt
    increment,  \* hashValueIncrementPerEvaluation
    refreshIn,  \* the timer of periodicallyRefreshChallengeNonce
    reevalIn,   \* the timer of periodicallyRefreshProofOfWorkDifficulty
    calm        \* evaluations since the last one that raised the difficulty

vars == <<previous, current, held, heldFor, recent, age, maxHash, increment,
          refreshIn, reevalIn, calm>>

Undefined == -1

\* Ages and counts beyond these are not told apart.
MaxAge  == Minute + ReevaluationPeriod + 1
MaxHeld == 2 * RefreshPeriod + 1
MaxCalm == BackEvaluations + 2

Up(n, max) == IF n < max THEN n + 1 ELSE max

TypeOK ==
    /\ previous \in Challenge
    /\ current \in Challenge
    /\ held \in [Client -> Challenge \cup {Nil}]
    /\ heldFor \in [Client -> 0 .. MaxHeld]
    /\ recent \subseteq Response
    /\ age \in [Response -> 0 .. MaxAge]
    /\ maxHash \in Nat
    /\ increment \in Nat \cup {Undefined}
    /\ refreshIn \in 0 .. RefreshPeriod
    /\ reevalIn \in 0 .. ReevaluationPeriod
    /\ calm \in 0 .. MaxCalm

\* The constructor and start(), which runs both refreshes once.
Init ==
    /\ previous \in Challenge
    /\ current \in Challenge \ {previous}
    /\ held = [c \in Client |-> Nil]
    /\ heldFor = [c \in Client |-> 0]
    /\ recent = {}
    /\ age = [n \in Response |-> MaxAge]
    /\ maxHash = Initial
    /\ increment = 1
    /\ refreshIn = RefreshPeriod
    /\ reevalIn = ReevaluationPeriod
    /\ calm = MaxCalm

------------------------------------------------------------------------------

getProofOfWorkChallenge(c) ==
    /\ held' = [held EXCEPT ![c] = current]
    /\ heldFor' = [heldFor EXCEPT ![c] = 0]
    /\ UNCHANGED <<previous, current, recent, age, maxHash, increment,
                   refreshIn, reevalIn, calm>>

Acceptable == {previous, current}

\* Mutant: a solution is not recorded.
verifyProofOfWorkUnrecorded(n, c, h) ==
    /\ n \notin recent
    /\ c \in Acceptable
    /\ h <= maxHash
    /\ age' = [age EXCEPT ![n] = 0]
    /\ UNCHANGED <<previous, current, held, heldFor, recent, maxHash,
                   increment, refreshIn, reevalIn, calm>>

\* A solution that passes every check is recorded; one that fails (a nonce
\* that was used, is malformed, has an unknown challenge or too high a hash)
\* changes nothing.
verifyProofOfWork(n, c, h) ==
    /\ n \notin recent
    /\ c \in Acceptable
    /\ h <= maxHash
    /\ recent' = recent \cup {n}
    /\ age' = [age EXCEPT ![n] = 0]
    /\ UNCHANGED <<previous, current, held, heldFor, maxHash, increment,
                   refreshIn, reevalIn, calm>>

\* Mutant: the new nonce replaces the current one and the old previous stays.
refreshChallengeNonceForgets ==
    /\ refreshIn = 0
    /\ \E new \in Challenge \ ({previous, current} \cup {held[c] : c \in Client}) :
          current' = new
    /\ refreshIn' = RefreshPeriod
    /\ UNCHANGED <<previous, held, heldFor, recent, age, maxHash, increment,
                   reevalIn, calm>>

\* A random nonce: never one that is in use.
refreshChallengeNonce ==
    /\ refreshIn = 0
    /\ previous' = current
    /\ \E new \in Challenge \ ({previous, current} \cup {held[c] : c \in Client}) :
          current' = new
    /\ refreshIn' = RefreshPeriod
    /\ UNCHANGED <<held, heldFor, recent, age, maxHash, increment, reevalIn,
                   calm>>

------------------------------------------------------------------------------
(* refreshMaximumAllowedHashValue.                                         *)

\* removeProofOfWorkOlderThanOneMinute.
OfLastMinute == {n \in recent : age[n] <= Minute}

\* Mutant: the scale multiplies and divides the wrong way round.
DecreaseAmountUnscaled(max, solves) ==
    LET rate   == (solves * Multiplier * Scale) \div Desired
        target == (max * rate) \div Scale
    IN  ((max - target) * Multiplier) \div difficultyEvaluationsPerMinute

\* What the maximum is lowered by when there were `solves' solutions in the
\* last minute, more than desired.
DecreaseAmount(max, solves) ==
    LET rate   == (solves * Multiplier * Scale) \div Desired
        target == (max * Scale) \div rate
    IN  ((max - target) * Multiplier) \div difficultyEvaluationsPerMinute

\* Mutant: the difference the wrong way round.
IncrementNegative == IF increment = Undefined
                     THEN (maxHash - Initial) \div BackEvaluations
                     ELSE increment

\* What it is raised by: fixed at the first evaluation after a decrease.
Increment == IF increment = Undefined
             THEN (Initial - maxHash) \div BackEvaluations
             ELSE increment

\* Mutant: the increment of an earlier recovery is used again.
makeHarderKeepingIncrement(solves) ==
    /\ maxHash' = maxHash - DecreaseAmount(maxHash, solves)
    /\ UNCHANGED increment
    /\ calm' = 0

makeHarder(solves) ==
    /\ maxHash' = maxHash - DecreaseAmount(maxHash, solves)
    /\ increment' = Undefined
    /\ calm' = 0

\* Mutant: the difficulty may fall below the initial one.
makeEasierUnbounded ==
    /\ maxHash' = maxHash + Increment
    /\ increment' = Increment
    /\ calm' = Up(calm, MaxCalm)

makeEasier ==
    /\ calm' = Up(calm, MaxCalm)
    /\ \/ /\ maxHash = Initial
          /\ UNCHANGED <<maxHash, increment>>
       \/ /\ maxHash # Initial
          /\ maxHash' = IF maxHash + Increment >= Initial
                        THEN Initial ELSE maxHash + Increment
          /\ increment' = Increment

Reevaluate ==
    /\ reevalIn = 0
    /\ recent' = OfLastMinute
    /\ IF Cardinality(OfLastMinute) > Desired
       THEN makeHarder(Cardinality(OfLastMinute))
       ELSE makeEasier
    /\ reevalIn' = ReevaluationPeriod
    /\ UNCHANGED <<previous, current, held, heldFor, age, refreshIn>>

\* A unit of time; timers that are due run first.
Tick ==
    /\ refreshIn > 0
    /\ reevalIn > 0
    /\ refreshIn' = refreshIn - 1
    /\ reevalIn' = reevalIn - 1
    /\ heldFor' = [c \in Client |-> Up(heldFor[c], MaxHeld)]
    /\ age' = [n \in Response |-> Up(age[n], MaxAge)]
    /\ UNCHANGED <<previous, current, held, recent, maxHash, increment, calm>>

Next ==
    \/ \E c \in Client : getProofOfWorkChallenge(c)
    \/ \E n \in Response, c \in Challenge, h \in Hash : verifyProofOfWork(n, c, h)
    \/ refreshChallengeNonce
    \/ Reevaluate
    \/ Tick

Spec == Init /\ [][Next]_vars

------------------------------------------------------------------------------
(* What is correct.                                                        *)

\* A response nonce is refused for a minute after it was accepted, and no
\* longer than it takes to the next evaluation after that.
ReuseWindow ==
    \A n \in Response :
        /\ age[n] <= Minute => n \in recent
        /\ n \in recent => age[n] <= Minute + ReevaluationPeriod

\* A challenge stays good for a whole refresh period from when it was given
\* out, whenever in the period that was.
ChallengeIsGood ==
    \A c \in Client :
        held[c] # Nil /\ heldFor[c] < RefreshPeriod => held[c] \in Acceptable

\* The scale of the doc: 1 is the hardest, and it is never easier than at
\* first.
DifficultyInRange == maxHash \in 1 .. Initial

\* Once solutions come no faster than desired, the difficulty is back at the
\* initial one after ten minutes: one evaluation more, for the remainder.
ComesBack == calm > BackEvaluations => maxHash = Initial

\* While solutions come faster than desired every evaluation makes it harder, as
\* long as the maximum is not so small that its share of a decrease rounds to
\* nothing.
FasterIsHarder ==
    [][Reevaluate /\ Cardinality(OfLastMinute) > Desired =>
           \/ maxHash' < maxHash
           \/ maxHash < (Scale + 1) * difficultyEvaluationsPerMinute]_vars
==============================================================================
