-------------------------------- MODULE Nonces ------------------------------
(***************************************************************************)
(* What a miner searches: the nonces it tries (NonceIncrementer,           *)
(* mining/miner.go) and the difficulty below which it keeps none           *)
(* (opr/difficulty.go). A byte has Base values (256).                      *)
(*                                                                         *)
(* The difficulty is computed in floats through the network's effective    *)
(* hash rate. A float64, and a big.Float made of one, keeps Precision bits *)
(* and every operation rounds to the nearest, a tie to the even one. Go    *)
(* does not define the conversion to uint64 of a float it cannot hold.     *)
(***************************************************************************)
EXTENDS Integers, Sequences, FiniteSets, FiniteSetsExt, SequencesExt

CONSTANTS
  Base,         \* values of a byte
  MinerIDs,     \* ids of the daemon's miners
  Space,        \* 2^64, as math.MaxUint64 rounds to it
  Precision,    \* bits of a float64 (53)
  MiningPeriod, \* seconds of mining in a block (480)
  SortedLists,  \* difficulties of a graded block, best first
  Spots,        \* the OPR the hash rate is estimated from: the 50th
  Cutoffs,      \* SubmissionCutOff
  MaxTries      \* bound: nonces tried

ASSUME NoncesAssumption ==
  /\ Base \in Nat /\ Base > 1 /\ MinerIDs \subseteq Nat /\ MaxTries \in Nat
  /\ Space \in Nat \ {0} /\ Precision \in Nat \ {0} /\ MiningPeriod \in Nat \ {0}
  /\ Spots \in Nat \ {0} /\ Cutoffs \subseteq Nat \ {0}
  /\ \A s \in SortedLists : s # <<>> /\ s \in Seq(0..(Space - 1))

VARIABLES
  nonce,      \* the nonce of each miner
  tried,      \* history: the nonces it has tried for the block, in order
  prior,      \* the difficulties of the block graded before
  cutoff

nonceVars == <<nonce, tried, prior, cutoff>>

(* The miner's id is the first byte, cut to a byte.                        *)
NewNonceIncrementer(id) == <<id % Base, 0>>

(* A counter that wraps around instead of growing, for the mutation runs.  *)
NextNonceWraps(n) ==
  LET i == Max({1} \cup {k \in 2..Len(n) : n[k] # Base - 1})
  IN  [k \in DOMAIN n |-> IF k > i THEN 0 ELSE IF k = i /\ i > 1 THEN n[k] + 1 ELSE n[k]]

(* NextNonce counts in the bytes after the first. The last byte below the  *)
(* maximum goes up and those after it to 0; when there is none, a byte 1   *)
(* is put behind the id.                                                   *)
NextNonce(n) ==
  LET i == Max({1} \cup {k \in 2..Len(n) : n[k] # Base - 1})
  IN  IF i = 1 THEN <<n[1], 1>> \o [k \in 1..(Len(n) - 1) |-> 0]
      ELSE [k \in DOMAIN n |-> IF k > i THEN 0 ELSE IF k = i THEN n[k] + 1 ELSE n[k]]
-----------------------------------------------------------------------------
(* A float is a fraction whose denominator is a power of 2, or Inf.        *)
Inf == [n |-> 1, d |-> 0]
Bits(k) == CHOOSE i \in 0..k : k \div 2^i = 1

(* The float nearest to n / d.                                             *)
Rounded(n, d) ==
  LET up(e)   == IF e > 0 THEN 2^e ELSE 1
      a       == Bits(n) - Bits(d) - Precision
      e       == CHOOSE x \in {a, a + 1} : /\ 2^(Precision - 1) * d * up(x) <= n * up(-x)
                                          /\ n * up(-x) < 2^Precision * d * up(x)
      whole   == (n * up(-e)) \div (d * up(e))
      rest    == (n * up(-e)) % (d * up(e))
      away    == 2 * rest > d * up(e) \/ (2 * rest = d * up(e) /\ whole % 2 = 1)
  IN  [n |-> (IF away THEN whole + 1 ELSE whole) * up(e), d |-> up(-e)]
Float(n, d) ==
  IF n > 0 THEN Rounded(n, d)
  ELSE IF n < 0 THEN [Rounded(-n, d) EXCEPT !.n = -@]
  ELSE [n |-> 0, d |-> 1]

Mul(x, y) == Float(x.n * y.n, x.d * y.d)
Quo(x, y) == IF y.n = 0 THEN Inf ELSE Float(x.n * y.d, x.d * y.n)
Sub(x, y) == Float(x.n * y.d - y.n * x.d, x.d * y.d)
Whole(k)  == Float(k, 1)

(* uint64(f) drops the fraction. What cannot be held becomes whatever the  *)
(* machine makes of it: 0, the number wrapped around, the middle of the    *)
(* range or its end.                                                       *)
ToUint64(f) ==
  LET t == IF f.n < 0 THEN -((-f.n) \div f.d) ELSE f.n \div f.d
  IN  IF t \in 0..(Space - 1) THEN {t} ELSE {0, t % Space, Space \div 2, Space - 1}

(* EffectiveHashRate: spot hashes in the part of the space above the       *)
(* difficulty, per second. A difficulty that rounds to 2^64 leaves none.   *)
EffectiveHashRate(min, spot) ==
  LET num == Mul(Whole(spot), Whole(Space))
      den == Sub(Whole(Space), Whole(min))
      ehr == Quo(num, den)
  IN  IF ehr = Inf THEN Inf ELSE Quo(ehr, Whole(MiningPeriod))

(* ExpectedMinimumDifficulty: space * (hashes - spot) / hashes; the values *)
(* it may return, none when Inf / Inf panics.                              *)
ExpectedMinimumDifficulty(hashrate, spot) ==
  LET ehrF  == Mul(hashrate, Whole(MiningPeriod))
      spotF == Sub(ehrF, Whole(spot))
      num   == Mul(Whole(Space), spotF)
  IN  IF hashrate = Inf THEN {} ELSE ToUint64(Quo(num, ehrF))

CalculateMinimumDifficulty(spot, difficulty, target) ==
  ExpectedMinimumDifficulty(EffectiveHashRate(difficulty, spot), target)

(* The 50th OPR counted from 0, for the mutation runs.                     *)
FloorFromZero(oprs, target) ==
  LET spot == IF Len(oprs) >= Spots THEN Spots - 1 ELSE Len(oprs) - 1
  IN  CalculateMinimumDifficulty(Max({spot, 1}), oprs[spot + 1], target)

(* CalculateMinimumDifficultyFromOPRs: from the 50th OPR, or the last.     *)
CalculateMinimumDifficultyFromOPRs(oprs, target) ==
  LET spot == Min({Len(oprs), Spots})
  IN  CalculateMinimumDifficulty(spot, oprs[spot], target)

(* What the floor of a block may be, by the list of the block before and   *)
(* the cutoff (opr.MinimumDifficulty in NewOpr).                           *)
Floors == [s \in SortedLists |-> [c \in Cutoffs |-> CalculateMinimumDifficultyFromOPRs(s, c)]]
-----------------------------------------------------------------------------
InitNonces ==
  /\ nonce = [m \in MinerIDs |-> NewNonceIncrementer(m)]
  /\ tried = [m \in MinerIDs |-> <<>>]
  /\ prior \in SortedLists /\ cutoff \in Cutoffs

(* One turn of the mining loop: the next nonce, and its hash.              *)
TryNonce(m) ==
  /\ Len(tried[m]) < MaxTries
  /\ nonce' = [nonce EXCEPT ![m] = NextNonce(@)]
  /\ tried' = [tried EXCEPT ![m] = Append(@, nonce'[m])]
  /\ UNCHANGED <<prior, cutoff>>

(* ResetNonce at the start of a block, whose prior block has been graded.  *)
ResetNonce ==
  /\ nonce' = [m \in MinerIDs |-> NewNonceIncrementer(m)]
  /\ tried' = [m \in MinerIDs |-> <<>>]
  /\ prior' \in SortedLists
  /\ UNCHANGED cutoff

NextNonces == ResetNonce \/ \E m \in MinerIDs : TryNonce(m)

NoncesSpec == InitNonces /\ [][NextNonces]_nonceVars
-----------------------------------------------------------------------------
(* In a block no nonce is tried twice, by one miner or by two whose ids    *)
(* differ as bytes: the id gives each its nonce space.                     *)
MinersSearchApart ==
  \A m, o \in MinerIDs : m % Base # o % Base \/ m = o =>
    \A i \in DOMAIN tried[m], j \in DOMAIN tried[o] :
      tried[m][i] = tried[o][j] => m = o /\ i = j

(* The floor a block starts with follows the cutoff. Where there is one    *)
(* floor, it is the difficulty at which the estimate expects the place     *)
(* asked for, to within two steps of a float64 at the top of the range for *)
(* each of the places measured and asked for; and there is one unless that *)
(* difficulty is as close to an end of the range, or below zero, since     *)
(* more places are asked for than hashes are expected. A place further     *)
(* down never raises it, to the unit (CalculateMinimumDifficulty).         *)
FloorFollowsTheCutoff ==
  LET spot      == Min({Len(prior), Spots})
      floors(c) == Floors[prior][c]
      single(c) == Cardinality(floors(c)) = 1
      exact     == spot * Space - cutoff * (Space - prior[spot])  \* times spot
      slack     == (2 * Space * (spot + cutoff)) \div 2^Precision \* times spot
  IN  /\ single(cutoff) => \A f \in floors(cutoff) : spot * f - exact \in -slack..slack
      /\ exact \in slack..(spot * Space - slack) => single(cutoff)
      /\ \A c \in Cutoffs : c <= cutoff /\ single(c) /\ single(cutoff) =>
           \A f \in floors(cutoff), g \in floors(c) : f <= g
=============================================================================
