---------------------------- MODULE WorkTargets ----------------------------
(***************************************************************************)
(* What a hash has to meet: how the miner turns the compact bits of a job  *)
(* or a block template and the pool's difficulty into targets, and how a   *)
(* worker compares a hash with them.  Hashes and targets are byte arrays,  *)
(* here functions from positions to digits of a small base; big.Int and    *)
(* big.Float are natural numbers and fractions.                            *)
(*                                                                         *)
(* The miner mines for a pool (handleSetDifficulty, handleNotify and       *)
(* RunMiner's workers) or for a node (Builder.Build and Pool.Mine).        *)
(***************************************************************************)
EXTENDS Naturals, FiniteSets, FiniteSetsExt, Powers

CONSTANTS Base,       \* 256, the values of a byte
          HalfBytes,  \* 16: DifficultyToTarget fills a hash in two halves
          UnitBytes,  \* 12: difficulty 1 stands for 2^96
          MaxExp,     \* bound: the largest exponent in compact bits, 255
          MaxNum,     \* bound: difficulties are fractions with a numerator ...
          MaxDen      \* ... and a denominator up to these

ASSUME BaseAssumption == Base \in Nat /\ Base >= 2
ASSUME HalfBytesAssumption == HalfBytes \in Nat \ {0}
ASSUME UnitBytesAssumption == UnitBytes \in 0 .. HalfBytes - 1
ASSUME BoundsAssumption ==
  MaxExp \in Nat /\ MaxNum \in Nat \ {0} /\ MaxDen \in Nat \ {0}

HashLen == 2 * HalfBytes
Idx     == 0 .. HashLen - 1
Byte    == 0 .. Base - 1
Hashes  == [Idx -> Byte]

\* Compact bits: the sign bit of the mantissa is masked away by both decoders.
Compact == [mantissa : 0 .. (Pow(Base, 3) \div 2) - 1, exponent : 0 .. MaxExp]
ZeroBits == [mantissa |-> 0, exponent |-> 0]

\* What a pool may send as a difficulty; 0 stands for all that is not positive.
Difficulties == [num : 0 .. MaxNum, den : 1 .. MaxDen]

VARIABLES
  mode,        \* "pool" or "solo", for the whole run
  difficulty,  \* Client.difficulty
  bits,        \* the bits of the latest job or template
  diff,        \* the difficulty of the latest job
  target,      \* Job.Target or BlockTemplate.Target
  netTarget    \* Job.NetTarget

vars == <<mode, difficulty, bits, diff, target, netTarget>>

-----------------------------------------------------------------------------
(* Numbers and bytes. *)

\* The byte of weight Pow(Base, i) in v, and the number of bytes of v without
\* leading zeros: big.Int's Bytes() is their sequence, the highest first.
Digit(v, i) == (v \div Pow(Base, i)) % Base
NumDigits(v) == IF v = 0 THEN 0 ELSE 1 + Max({i \in 0 .. v : Pow(Base, i) <= v})

\* The number that both decoders of compact bits compute.
CompactValue(c) ==
  IF c.exponent <= 3 THEN c.mantissa \div Pow(Base, 3 - c.exponent)
                     ELSE c.mantissa * Pow(Base, c.exponent - 3)

\* Mutant: the exponent counts the bytes above the mantissa's lowest.
CompactToHashShifted(c) ==
  [i \in Idx |-> Digit(c.mantissa * Pow(Base, c.exponent), i)]

\* stratum.CompactToHash: the lowest byte first; bytes beyond the hash are lost.
CompactToHash(c) == [i \in Idx |-> Digit(CompactValue(c), i)]

\* crypto.CompactToHash: the lowest byte last.
CompactToHashBE(c) == [i \in Idx |-> Digit(CompactValue(c), HashLen - 1 - i)]

\* The upper half of a target that stands for a difficulty.
High(d) ==
  LET quotient == IF d.num = 0 THEN Pow(Base, UnitBytes)
                  ELSE (Pow(Base, UnitBytes) * d.den) \div d.num
  IN  Min({quotient, Pow(Base, HalfBytes) - 1})

\* Mutant: the lower half of the target is left zero.
DifficultyToTargetLowZero(d) ==
  LET len == NumDigits(High(d))
  IN  [i \in Idx |-> IF i >= HashLen - len THEN Digit(High(d), i - HashLen + len)
                     ELSE 0]

\* The lower half is full.  The bytes of the upper half, without its leading
\* zeros, are written from the last position of the hash downwards.
DifficultyToTarget(d) ==
  LET len == NumDigits(High(d))
  IN  [i \in Idx |-> IF i < HalfBytes THEN Base - 1
                     ELSE IF i >= HashLen - len
                          THEN Digit(High(d), i - HashLen + len)
                     ELSE 0]

\* Hash.LessOrEqual: the highest position where the two differ decides.
LessOrEqual(h, t) ==
  LET differ == {i \in Idx : h[i] # t[i]}
  IN  differ = {} \/ h[Max(differ)] < t[Max(differ)]

\* The hashes a worker takes for a share or, mining solo, for a block.
Accepted(t) == {h \in Hashes : LessOrEqual(h, t)}

-----------------------------------------------------------------------------

TypeOK ==
  /\ mode \in {"pool", "solo"}
  /\ difficulty \in Difficulties /\ difficulty.num > 0
  /\ diff \in Difficulties /\ diff.num > 0
  /\ bits \in Compact
  /\ target \in Hashes /\ netTarget \in Hashes

\* NewClient's difficulty is 0.001, the smallest fraction here; before the first
\* job or template there is nothing to mine, which bits of zero stand for.
InitialDifficulty == [num |-> 1, den |-> MaxDen]

Init ==
  /\ mode \in {"pool", "solo"}
  /\ difficulty = InitialDifficulty
  /\ diff = InitialDifficulty
  /\ bits = ZeroBits
  /\ target = IF mode = "pool" THEN DifficultyToTarget(InitialDifficulty)
                               ELSE CompactToHashBE(ZeroBits)
  /\ netTarget = CompactToHash(ZeroBits)

\* Mutant: a difficulty that is not positive is taken over.
SetAnyDifficulty ==
  /\ mode = "pool"
  /\ \E d \in Difficulties : difficulty' = d
  /\ UNCHANGED <<mode, bits, diff, target, netTarget>>

\* mining.set_difficulty: it counts for the jobs to come.
SetDifficulty ==
  /\ mode = "pool"
  /\ \E d \in Difficulties : d.num > 0 /\ difficulty' = d
  /\ UNCHANGED <<mode, bits, diff, target, netTarget>>

\* mining.notify, with bits of any value: what is no hexadecimal number is 0.
Notify ==
  /\ mode = "pool"
  /\ \E c \in Compact :
       /\ bits' = c
       /\ netTarget' = CompactToHash(c)
  /\ diff' = difficulty
  /\ target' = DifficultyToTarget(difficulty)
  /\ UNCHANGED <<mode, difficulty>>

\* Builder.Build for a new tip: bits of zero are refused.
Build ==
  /\ mode = "solo"
  /\ \E c \in Compact \ {ZeroBits} :
       /\ bits' = c
       /\ target' = CompactToHashBE(c)
  /\ UNCHANGED <<mode, difficulty, diff, netTarget>>

Next == SetDifficulty \/ Notify \/ Build

Spec == Init /\ [][Next]_vars

-----------------------------------------------------------------------------
(* What the targets should mean. *)

\* The number a hash stands for, the byte LessOrEqual looks at first highest; its
\* k highest bytes alone stand for HighBytes(h)[k].
HighBytes(h) ==
  LET v[k \in 0 .. HashLen] ==
        IF k = 0 THEN 0 ELSE Base * v[k - 1] + h[HashLen - k]
  IN  v
Value(h) == HighBytes(h)[HashLen]

\* The network's target fits into a hash.
Fits(c) == CompactValue(c) < Pow(Base, HashLen)

\* Exactly the hashes that stand for numbers up to the one the job's bits encode
\* pass the network's target: the byte order the target is written in and the
\* one in which LessOrEqual reads it are the same.
NetTargetExact ==
  mode = "pool" /\ Fits(bits) =>
    \A h \in Hashes : LessOrEqual(h, netTarget) <=> Value(h) <= CompactValue(bits)

\* No share is missed: a hash whose upper half is at most the unit divided by the
\* difficulty, which is what the pool asks for, passes the job's target.  The
\* bytes that DifficultyToTarget writes too high make it only easier.
NoShareMissed ==
  mode = "pool" =>
    \A h \in Hashes :
      Value(h) \div Pow(Base, HalfBytes) <= High(diff) => LessOrEqual(h, target)

\* "returns true if this hash is <= target hash" (LessOrEqual), with the target
\* "for PoW comparison" of a template: in whichever byte order a hash is read as
\* a number, as many hashes pass as there are numbers up to the bits' value.
SoloTargetExact ==
  mode = "solo" /\ Fits(bits) =>
    Cardinality(Accepted(target)) = CompactValue(bits) + 1
=============================================================================
