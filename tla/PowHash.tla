------------------------------ MODULE PowHash ------------------------------
(***************************************************************************)
(* The sha256mem proof of work: a worker hashes one header after another   *)
(* in its workspace, with one of the hashers of package algorithm: the     *)
(* port of the reference (sha256mem.go), optHasher (sha256mem_opt.go) or   *)
(* amd64Hasher (sha256mem_amd64.go), with SHA-NI or without.  A hash is a  *)
(* seed, a scratchpad filled from it slot by slot, two passes of mixing    *)
(* that read the scratchpad at places the accumulator chooses, and a last  *)
(* SHA-256.                                                                *)
(*                                                                         *)
(* SHA-256 is a compression function, any one, applied to blocks of two    *)
(* halves, each the size of a hash.                                        *)
(***************************************************************************)
EXTENDS Integers

CONSTANTS NumWords,        \* 8, the words of a hash
          WordMod,         \* 2^32
          Slots,           \* 2097152
          HardenInterval,  \* 128
          MixRounds,       \* 32768
          Cycle,           \* 7, the words that pass B's index goes round
          IV, Compress(_, _),  \* SHA-256
          EndShort,        \* the second half of a block whose first ends a message
          EndLong,         \* the block after a message of one block
          Arx(_, _),       \* a word's ARX step, by an index
          Fronts,          \* the first 64 bytes of the headers to hash
          LastBlock(_),    \* their last block, by the nonce
          Nonces

Word    == 0 .. WordMod - 1
WordIdx == 0 .. NumWords - 1
Hash    == [WordIdx -> Word]
Block   == [left : Hash, right : Hash]
Slot    == 0 .. Slots - 1
Round   == 0 .. 2 * MixRounds - 1

ASSUME SizeAssumption ==
  /\ NumWords \in Nat \ {0} /\ WordMod \in Nat \ {0} /\ Slots \in Nat \ {0}
  /\ HardenInterval \in Nat \ {0} /\ MixRounds \in Nat /\ Cycle \in 1 .. NumWords
ASSUME ShaAssumption ==
  /\ IV \in Hash /\ EndShort \in Hash /\ EndLong \in Block
  /\ \A s, l, r \in Hash : Compress(s, [left |-> l, right |-> r]) \in Hash
ASSUME ArxAssumption == \A v \in Word, k \in 0 .. Slots + NumWords : Arx(v, k) \in Word
ASSUME HeaderAssumption ==
  /\ Fronts \subseteq Block
  /\ \A n \in Nonces : LastBlock(n) \in Block

Sha32(h)        == Compress(IV, [left |-> h, right |-> EndShort])
Sha64(a, b)     == Compress(Compress(IV, [left |-> a, right |-> b]), EndLong)
Midstate(front) == Compress(IV, front)
Sha80(front, n) == Compress(Midstate(front), LastBlock(n))

ArxFill(src, i) == [w \in WordIdx |-> Arx(src[w], i + w)]
Reversed(h)     == [w \in WordIdx |-> h[NumWords - 1 - w]]

VARIABLES
  hasher,  \* which hasher, for the whole run
  useSHA,  \* amd64Hasher's useSHA: the build tag sha_ni
  pc,
  front, nonce,  \* the header
  midState,      \* the caller's midstate, for the whole nonce loop
  mem,           \* the scratchpad; it keeps the last hash's contents
  ctr,           \* the loop counter
  acc,           \* the accumulator, the first half of mixBuf
  out

powVars == <<hasher, useSHA, pc, front, nonce, midState, mem, ctr, acc, out>>

\* The counter is a slot's while the scratchpad is filled, a round's while it is
\* mixed, or the number of them, after the last.
CtrInPhase ==
  /\ pc = "fill" => ctr \in 1 .. Slots
  /\ pc = "mix" => ctr \in 0 .. 2 * MixRounds

PowTypeOK ==
  /\ hasher \in {"cpu", "opt", "amd64"} /\ useSHA \in BOOLEAN
  /\ pc \in {"idle", "seed", "fill", "mix", "done"}
  /\ front \in Fronts /\ nonce \in Nonces
  /\ midState \in Hash
  /\ mem \in [Slot -> Hash]
  /\ ctr \in 0 .. (Slots + 2 * MixRounds) /\ CtrInPhase
  /\ acc \in Hash /\ out \in Hash

\* SHA-NI is used where amd64Hasher's own code calls it.
ShaNI == hasher = "amd64" /\ useSHA

ZeroHash == [w \in WordIdx |-> 0]

PowInit ==
  /\ hasher \in {"cpu", "opt", "amd64"} /\ useSHA \in BOOLEAN
  /\ pc = "idle"
  /\ front \in Fronts /\ nonce \in Nonces
  /\ midState = Midstate(front)
  /\ mem = [s \in Slot |-> ZeroHash]
  /\ ctr = 0 /\ acc = ZeroHash /\ out = ZeroHash

-----------------------------------------------------------------------------
(* The caller: a new header, then one nonce after the other. *)

\* Mutant: the midstate is computed once for all headers.
NewHeaderOldMidstate ==
  /\ pc \in {"idle", "done"}
  /\ front' \in Fronts /\ nonce' \in Nonces
  /\ pc' = "seed"
  /\ UNCHANGED <<hasher, useSHA, midState, mem, ctr, acc, out>>

NewHeader ==
  /\ pc \in {"idle", "done"}
  /\ front' \in Fronts /\ nonce' \in Nonces
  /\ midState' = Midstate(front')
  /\ pc' = "seed"
  /\ UNCHANGED <<hasher, useSHA, mem, ctr, acc, out>>

NextNonce ==
  /\ pc = "done"
  /\ nonce' \in Nonces
  /\ pc' = "seed"
  /\ UNCHANGED <<hasher, useSHA, front, midState, mem, ctr, acc, out>>

-----------------------------------------------------------------------------
(* The hash. *)

\* The seed, from the midstate where the caller has one (PoWHashMidstate), or
\* from the whole header (PoWHash; optHasher knows no other).
Seed ==
  /\ pc = "seed"
  /\ \/ hasher # "opt" /\ mem' = [mem EXCEPT ![0] = Compress(midState, LastBlock(nonce))]
     \/ mem' = [mem EXCEPT ![0] = Sha80(front, nonce)]
  /\ pc' = "fill" /\ ctr' = 1
  /\ UNCHANGED <<hasher, useSHA, front, nonce, midState, acc, out>>

\* Mutant: the hardened slots keep what the last hash has left there.
FillSkipsHardened ==
  /\ pc = "fill" /\ ctr < Slots
  /\ mem' = [mem EXCEPT ![ctr] = IF ctr % HardenInterval = 0 THEN @ ELSE ArxFill(mem[ctr - 1], ctr)]
  /\ ctr' = ctr + 1
  /\ UNCHANGED <<hasher, useSHA, pc, front, nonce, midState, acc, out>>

\* A hardened slot is the SHA-256 of the one before.  With SHA-NI it is one
\* compression whose state is not SHA-256's initial one but that slot itself.
Fill ==
  /\ pc = "fill" /\ ctr < Slots
  /\ mem' = [mem EXCEPT ![ctr] =
       IF ctr % HardenInterval # 0 THEN ArxFill(mem[ctr - 1], ctr)
       ELSE IF ShaNI THEN Compress(mem[ctr - 1], [left |-> mem[ctr - 1], right |-> EndShort])
       ELSE Sha32(mem[ctr - 1])]
  /\ ctr' = ctr + 1
  /\ UNCHANGED <<hasher, useSHA, pc, front, nonce, midState, acc, out>>

StartMix ==
  /\ pc = "fill" /\ ctr = Slots
  /\ pc' = "mix" /\ ctr' = 0
  /\ acc' = mem[Slots - 1]
  /\ UNCHANGED <<hasher, useSHA, front, nonce, midState, mem, out>>

\* Mutant: pass B goes round all the words.
OffsetAllWords(r) ==
  IF r < MixRounds THEN 0 ELSE (r - MixRounds) % NumWords

\* The word the index is taken from.  amd64Hasher runs the passes in one loop
\* and does not count pass B from 0 again.
Offset(r) ==
  IF r < MixRounds THEN 0
  ELSE IF hasher = "amd64" THEN r % Cycle
  ELSE (r - MixRounds) % Cycle

\* A round of pass A or B.  With SHA-NI it is one compression of the block by the
\* accumulator as its state, without the block that ends the message.
Mix ==
  /\ pc = "mix" /\ ctr < 2 * MixRounds
  /\ LET slot == mem[acc[Offset(ctr)] % Slots]
     IN  acc' = IF ShaNI THEN Compress(acc, [left |-> acc, right |-> slot])
                         ELSE Sha64(acc, slot)
  /\ ctr' = ctr + 1
  /\ UNCHANGED <<hasher, useSHA, pc, front, nonce, midState, mem, out>>

Finalize ==
  /\ pc = "mix" /\ ctr = 2 * MixRounds
  /\ pc' = "done"
  /\ out' = Reversed(Sha32(acc))
  /\ UNCHANGED <<hasher, useSHA, front, nonce, midState, mem, ctr, acc>>

PowNext == NewHeader \/ NextNonce \/ Seed \/ Fill \/ StartMix \/ Mix \/ Finalize

PowSpec == PowInit /\ [][PowNext]_powVars

-----------------------------------------------------------------------------
(* The reference: the algorithm as the repository's README defines it. *)

\* The scratchpad of a header, and the accumulator after each round.
RefMem(f, n) ==
  LET m[s \in Slot] == IF s = 0 THEN Sha80(f, n)
                       ELSE IF s % HardenInterval = 0 THEN Sha32(m[s - 1])
                       ELSE ArxFill(m[s - 1], s)
  IN  m
RefAcc(m) ==
  LET a[r \in 0 .. 2 * MixRounds] ==
        IF r = 0 THEN m[Slots - 1]
        ELSE LET prev == a[r - 1]
                 word == IF r <= MixRounds THEN 0 ELSE (r - 1 - MixRounds) % Cycle
             IN  Sha64(prev, m[prev[word] % Slots])
  IN  a
Reference(f, n) == Reversed(Sha32(RefAcc(RefMem(f, n))[2 * MixRounds]))

\* The port and optHasher compute the algorithm's hash of the header, whichever
\* header the midstate was computed for before, and whatever the last hash has
\* left in the scratchpad.
HashIsReference ==
  pc = "done" /\ hasher # "amd64" => out = Reference(front, nonce)

\* The slots below k are those of the header's scratchpad: the first is its
\* seed, and each other follows from the one before it.
FilledTo(k) ==
  \A s \in 0 .. k - 1 :
    mem[s] = IF s = 0 THEN Sha80(front, nonce)
             ELSE IF s % HardenInterval = 0 THEN Sha32(mem[s - 1])
             ELSE ArxFill(mem[s - 1], s)

\* Every hasher that does not use SHA-NI mixes over the scratchpad of its header
\* and of no other: nothing that was there before is left in it.
ScratchpadIsHeaders ==
  pc \in {"mix", "done"} /\ ~ShaNI => FilledTo(Slots)

\* "Every optimization must produce the identical hash output as the reference"
\* (README): amd64Hasher too, which algorithm.New returns.
OptimizedIdentical == pc = "done" => out = Reference(front, nonce)
=============================================================================
