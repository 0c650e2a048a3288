--------------------------- MODULE Hashing_proofs ---------------------------
(***************************************************************************)
(* For every compression function, every ARX step and every size: what the *)
(* hashers of PowHash mix over is the scratchpad of the header they were   *)
(* given, although the workspace is never cleared, and what they return is *)
(* the algorithm's hash.  For every base and size of hash: the network's   *)
(* target accepts what its bits encode, and a job's target misses no share.*)
(***************************************************************************)
EXTENDS PowHash, WorkTargets, NatFacts

-----------------------------------------------------------------------------
(* The hash functions return hashes. *)

\* A compression of two hashes is a hash, whichever way the block is written.
LEMMA CompressType ==
  ASSUME NEW s \in Hash, NEW b \in Block
  PROVE  Compress(s, b) \in Hash
<1>1. PICK l \in Hash, r \in Hash : b = [left |-> l, right |-> r]
  BY DEF Block
<1>2. QED
  BY <1>1, ShaAssumption

LEMMA Sha64Type ==
  ASSUME NEW a \in Hash, NEW b \in Hash
  PROVE  Sha64(a, b) \in Hash
<1>1. Compress(IV, [left |-> a, right |-> b]) \in Hash
  BY ShaAssumption
<1>2. QED
  BY <1>1, CompressType, ShaAssumption DEF Sha64

LEMMA ShaType ==
  ASSUME NEW a \in Hash, NEW b \in Hash, NEW f \in Fronts, NEW n \in Nonces
  PROVE  /\ Sha32(a) \in Hash
         /\ Sha64(a, b) \in Hash
         /\ Midstate(f) \in Hash
         /\ Compress(Midstate(f), LastBlock(n)) \in Hash
<1>1. Sha32(a) \in Hash
  BY ShaAssumption DEF Sha32
<1>3. Sha64(a, b) \in Hash
  BY Sha64Type
<1>4. Midstate(f) \in Hash
  BY CompressType, ShaAssumption, HeaderAssumption DEF Midstate
<1>5. Compress(Midstate(f), LastBlock(n)) \in Hash
  BY <1>4, CompressType, HeaderAssumption
<1>6. QED
  BY <1>1, <1>3, <1>4, <1>5

LEMMA ArxFillType ==
  ASSUME NEW src \in Hash, NEW s \in Slot
  PROVE  ArxFill(src, s) \in Hash
<1>1. ASSUME NEW w \in WordIdx
      PROVE  Arx(src[w], s + w) \in Word
  <2>1. src[w] \in Word
    BY DEF Hash
  <2>2. s + w \in 0 .. Slots + NumWords
    BY SizeAssumption DEF Slot, WordIdx
  <2>3. QED
    BY <2>1, <2>2, ArxAssumption
<1>2. QED
  BY <1>1 DEF ArxFill, Hash

LEMMA ReversedType ==
  ASSUME NEW h \in Hash
  PROVE  Reversed(h) \in Hash
<1>1. ASSUME NEW w \in WordIdx
      PROVE  h[NumWords - 1 - w] \in Word
  <2>1. NumWords - 1 - w \in WordIdx
    BY SizeAssumption DEF WordIdx
  <2>2. QED
    BY <2>1 DEF Hash
<1>2. QED
  BY <1>1 DEF Reversed, Hash

\* The word a round takes its index from is one of the hash, and the index one
\* of a slot.
LEMMA OffsetType ==
  ASSUME NEW r \in Round
  PROVE  Offset(r) \in WordIdx
<1>1. r \in Nat /\ MixRounds \in Nat /\ Cycle \in Nat \ {0} /\ Cycle <= NumWords
  BY SizeAssumption DEF Round
<1>2. 0 \in WordIdx
  BY SizeAssumption DEF WordIdx
<1>3. r % Cycle \in WordIdx
  BY <1>1, SizeAssumption DEF WordIdx
<1>4. r >= MixRounds => (r - MixRounds) % Cycle \in WordIdx
  BY <1>1, SizeAssumption DEF WordIdx
<1>5. QED
  BY <1>1, <1>2, <1>3, <1>4 DEF Offset

LEMMA SlotType ==
  ASSUME NEW v \in Word
  PROVE  v % Slots \in Slot
BY SizeAssumption DEF Word, Slot

-----------------------------------------------------------------------------
(* Types, which have the range of the counter in each phase. *)

LEMMA ZeroHashType == ZeroHash \in Hash
BY SizeAssumption DEF ZeroHash, Hash, Word

LEMMA TypeInit == PowInit => PowTypeOK
<1> SUFFICES ASSUME PowInit PROVE PowTypeOK
  OBVIOUS
<1>1. midState \in Hash
  BY ZeroHashType, ShaType DEF PowInit
<1>2. mem \in [Slot -> Hash]
  BY ZeroHashType DEF PowInit
<1>3. 0 \in 0 .. (Slots + 2 * MixRounds)
  BY SizeAssumption
<1>4. QED
  BY <1>1, <1>2, <1>3, ZeroHashType DEF PowInit, PowTypeOK, CtrInPhase

LEMMA TypeStep == PowTypeOK /\ [PowNext]_powVars => PowTypeOK'
<1> SUFFICES ASSUME PowTypeOK, [PowNext]_powVars PROVE PowTypeOK'
  OBVIOUS
<1>1. CASE NewHeader
  <2>1. midState' \in Hash
    BY <1>1, ZeroHashType, ShaType DEF NewHeader
  <2>2. QED
    BY <1>1, <2>1 DEF NewHeader, PowTypeOK, CtrInPhase
<1>2. CASE NextNonce
  BY <1>2 DEF NextNonce, PowTypeOK, CtrInPhase
<1>3. CASE Seed
  <2>1. Compress(midState, LastBlock(nonce)) \in Hash
    BY CompressType, HeaderAssumption DEF PowTypeOK
  <2>2. Sha80(front, nonce) \in Hash
    BY ZeroHashType, ShaType DEF PowTypeOK, Sha80
  <2>3. mem' \in [Slot -> Hash]
    BY <1>3, <2>1, <2>2 DEF Seed, PowTypeOK
  <2>4. ctr' \in 0 .. (Slots + 2 * MixRounds) /\ ctr' \in 1 .. Slots
    BY <1>3, SizeAssumption DEF Seed
  <2>5. QED
    BY <1>3, <2>3, <2>4 DEF Seed, PowTypeOK, CtrInPhase
<1>4. CASE Fill
  <2>1. ctr \in Slot /\ ctr - 1 \in Slot
    BY <1>4, SizeAssumption DEF Fill, PowTypeOK, CtrInPhase, Slot
  <2>2. mem[ctr - 1] \in Hash
    BY <2>1 DEF PowTypeOK
  <2>3. /\ ArxFill(mem[ctr - 1], ctr) \in Hash
        /\ Sha32(mem[ctr - 1]) \in Hash
        /\ Compress(mem[ctr - 1], [left |-> mem[ctr - 1], right |-> EndShort]) \in Hash
    BY <2>1, <2>2, ArxFillType, ShaType, ShaAssumption DEF PowTypeOK
  <2>4. mem' \in [Slot -> Hash]
    BY <1>4, <2>3 DEF Fill, PowTypeOK
  <2>5. ctr' \in 0 .. (Slots + 2 * MixRounds) /\ ctr' \in 1 .. Slots
    BY <1>4, SizeAssumption DEF Fill, PowTypeOK, CtrInPhase
  <2>6. QED
    BY <1>4, <2>4, <2>5 DEF Fill, PowTypeOK, CtrInPhase
<1>5. CASE StartMix
  <2>1. acc' \in Hash
    BY <1>5, SizeAssumption DEF StartMix, PowTypeOK, Slot
  <2>2. 0 \in 0 .. (Slots + 2 * MixRounds) /\ 0 \in 0 .. 2 * MixRounds
    BY SizeAssumption
  <2>3. QED
    BY <1>5, <2>1, <2>2 DEF StartMix, PowTypeOK, CtrInPhase
<1>6. CASE Mix
  <2> DEFINE slot == mem[acc[Offset(ctr)] % Slots]
  <2>1. ctr \in Round
    BY <1>6, SizeAssumption DEF Mix, PowTypeOK, CtrInPhase, Round
  <2>2. acc[Offset(ctr)] \in Word
    BY <2>1, OffsetType DEF PowTypeOK, Hash
  <2>3. slot \in Hash
    BY <2>2, SlotType DEF PowTypeOK
  <2>4. acc' = IF ShaNI THEN Compress(acc, [left |-> acc, right |-> slot]) ELSE Sha64(acc, slot)
    BY <1>6 DEF Mix
  <2>5. acc' \in Hash
    <3> HIDE DEF slot
    <3>1. QED
      BY <2>3, <2>4, ShaType, ShaAssumption DEF PowTypeOK
  <2>6. ctr' \in 0 .. (Slots + 2 * MixRounds) /\ ctr' \in 0 .. 2 * MixRounds
    BY <1>6, SizeAssumption DEF Mix, PowTypeOK, CtrInPhase
  <2>7. QED
    BY <1>6, <2>5, <2>6 DEF Mix, PowTypeOK, CtrInPhase
<1>7. CASE Finalize
  <2>1. out' \in Hash
    BY <1>7, ShaType, ReversedType DEF Finalize, PowTypeOK
  <2>2. QED
    BY <1>7, <2>1 DEF Finalize, PowTypeOK, CtrInPhase
<1>8. CASE UNCHANGED powVars
  BY <1>8 DEF powVars, PowTypeOK, CtrInPhase
<1>9. QED
  BY <1>1, <1>2, <1>3, <1>4, <1>5, <1>6, <1>7, <1>8 DEF PowNext

-----------------------------------------------------------------------------
(* The scratchpad. *)

\* While the scratchpad is filled, the slots below the counter are the header's;
\* the midstate is the header's too.
ScratchpadInv ==
  /\ midState = Midstate(front)
  /\ pc = "fill" /\ ~ShaNI => FilledTo(ctr)
  /\ ScratchpadIsHeaders

LEMMA ScratchpadStep ==
  PowTypeOK /\ ScratchpadInv /\ [PowNext]_powVars => ScratchpadInv'
<1> SUFFICES ASSUME PowTypeOK, ScratchpadInv, [PowNext]_powVars PROVE ScratchpadInv'
  OBVIOUS
<1> USE DEF ScratchpadInv, ScratchpadIsHeaders
<1>1. CASE NewHeader
  BY <1>1 DEF NewHeader
<1>2. CASE NextNonce
  BY <1>2 DEF NextNonce
<1>3. CASE Seed
  <2>1. mem'[0] = Sha80(front, nonce)
    BY <1>3, SizeAssumption DEF Seed, Sha80, PowTypeOK, Slot
  <2>2. FilledTo(ctr)'
    BY <1>3, <2>1 DEF Seed, FilledTo
  <2>3. QED
    BY <1>3, <2>2 DEF Seed
<1>4. CASE Fill
  <2> SUFFICES ASSUME ~ShaNI PROVE FilledTo(ctr)'
    BY <1>4 DEF Fill, ShaNI
  <2>1. ctr \in Slot /\ ctr \in 1 .. Slots - 1
    BY <1>4, SizeAssumption DEF Fill, PowTypeOK, CtrInPhase, Slot
  <2>2. FilledTo(ctr)
    BY <1>4 DEF Fill
  <2>3. ASSUME NEW s \in 0 .. ctr
        PROVE  mem'[s] = IF s = 0 THEN Sha80(front, nonce)
                         ELSE IF s % HardenInterval = 0 THEN Sha32(mem'[s - 1])
                         ELSE ArxFill(mem'[s - 1], s)
    <3>1. CASE s < ctr
      <4>1. s \in Slot /\ s - 1 # ctr /\ s # ctr
        BY <2>1, <3>1, SizeAssumption DEF Slot
      <4>2. mem'[s] = mem[s] /\ (s # 0 => mem'[s - 1] = mem[s - 1])
        BY <1>4, <2>1, <4>1 DEF Fill, PowTypeOK, Slot
      <4>3. s \in 0 .. ctr - 1
        BY <2>1, <3>1, SizeAssumption
      <4>4. QED
        BY <2>2, <4>2, <4>3 DEF FilledTo
    <3>2. CASE s = ctr
      <4>1. mem'[ctr - 1] = mem[ctr - 1]
        BY <1>4, <2>1 DEF Fill, PowTypeOK, Slot
      <4>2. mem'[ctr] = IF ctr % HardenInterval # 0 THEN ArxFill(mem[ctr - 1], ctr)
                        ELSE Sha32(mem[ctr - 1])
        BY <1>4, <2>1 DEF Fill, PowTypeOK
      <4>3. QED
        BY <2>1, <3>2, <4>1, <4>2
    <3>3. QED
      BY <2>1, <3>1, <3>2, SizeAssumption
  <2>4. 0 .. ctr' - 1 = 0 .. ctr
    BY <1>4, <2>1, SizeAssumption DEF Fill
  <2>5. front' = front /\ nonce' = nonce
    BY <1>4 DEF Fill
  <2>6. QED
    BY <2>3, <2>4, <2>5 DEF FilledTo
<1>5. CASE StartMix
  BY <1>5 DEF StartMix, FilledTo, ShaNI
<1>6. CASE Mix
  BY <1>6 DEF Mix, FilledTo, ShaNI
<1>7. CASE Finalize
  BY <1>7 DEF Finalize, FilledTo, ShaNI
<1>8. CASE UNCHANGED powVars
  BY <1>8 DEF powVars, FilledTo, ShaNI
<1>9. QED
  BY <1>1, <1>2, <1>3, <1>4, <1>5, <1>6, <1>7, <1>8 DEF PowNext

\* Every value the hashers keep has its type, whatever SHA-256 compresses to.
THEOREM TypeCorrect == PowSpec => []PowTypeOK
<1>1. QED
  BY TypeInit, TypeStep, PTL DEF PowSpec

\* Whatever the workspace held and however many headers were hashed in it, a
\* hasher without SHA-NI mixes over exactly the scratchpad that the README's
\* recurrence gives for its header (sha256mem.go, sha256mem_opt.go,
\* sha256mem_amd64.go: the loop over i).
THEOREM ScratchpadCorrect == PowSpec => []ScratchpadIsHeaders
<1>1. PowInit => ScratchpadInv
  BY DEF PowInit, ScratchpadInv, ScratchpadIsHeaders
<1>2. ScratchpadInv => ScratchpadIsHeaders
  BY DEF ScratchpadInv
<1>3. QED
  BY <1>1, <1>2, TypeInit, TypeStep, ScratchpadStep, PTL DEF PowSpec

-----------------------------------------------------------------------------
(* The hash is the reference's. *)

\* What the README's recurrence gives for the slot after one with contents x.
NextSlot(i, x) == IF i % HardenInterval = 0 THEN Sha32(x) ELSE ArxFill(x, i)

\* The reference's scratchpad exists and obeys that recurrence.
LEMMA RefMemSteps ==
  ASSUME NEW f \in Fronts, NEW n \in Nonces
  PROVE  /\ RefMem(f, n) \in [Slot -> Hash]
         /\ RefMem(f, n)[0] = Sha80(f, n)
         /\ \A s \in 1 .. Slots - 1 : RefMem(f, n)[s] = NextSlot(s, RefMem(f, n)[s - 1])
<1> DEFINE last == Slots - 1
           step == [i \in 1 .. last |-> [x \in Hash |-> NextSlot(i, x)]]
           Rhs(m) == [s \in Slot |-> IF s = 0 THEN Sha80(f, n)
                                     ELSE IF s % HardenInterval = 0 THEN Sha32(m[s - 1])
                                     ELSE ArxFill(m[s - 1], s)]
<1>1. last \in Nat /\ Slot = 0 .. last
  BY SizeAssumption DEF Slot
<1>2. Sha80(f, n) \in Hash
  BY ZeroHashType, ShaType DEF Sha80
<1>3. ASSUME NEW i \in 1 .. last, NEW x \in Hash
      PROVE  step[i][x] = NextSlot(i, x) /\ NextSlot(i, x) \in Hash
  <2>1. i \in Slot
    BY <1>1
  <2>2. Sha32(x) \in Hash /\ ArxFill(x, i) \in Hash
    BY <2>1, ShaType, ArxFillType
  <2> QED BY <2>2 DEF NextSlot
<1>4. Course(Hash, Sha80(f, n), step, last) # {}
  <2> HIDE DEF step, last
  <2> QED BY <1>1, <1>2, <1>3, CourseExists
<1>5. PICK m : m \in Course(Hash, Sha80(f, n), step, last)
  BY <1>4
<1>6. /\ m \in [Slot -> Hash] /\ m[0] = Sha80(f, n)
      /\ \A s \in 1 .. last : m[s] = NextSlot(s, m[s - 1])
  <2>1. ASSUME NEW s \in 1 .. last PROVE m[s - 1] \in Hash
    BY <1>1, <1>5 DEF Course
  <2> HIDE DEF step, last
  <2> QED BY <1>1, <1>3, <1>5, <2>1 DEF Course
<1>7. m = Rhs(m)
  <2>1. ASSUME NEW s \in Slot PROVE m[s] = Rhs(m)[s]
    BY <1>1, <1>6 DEF NextSlot
  <2>2. m = [s \in Slot |-> m[s]]
    BY <1>6
  <2> QED BY <2>1, <2>2
<1>8. RefMem(f, n) = Rhs(RefMem(f, n))
  BY <1>7 DEF RefMem
<1> DEFINE r == RefMem(f, n)
<1>9. r[0] = Sha80(f, n) /\ \A s \in 1 .. last : r[s] = NextSlot(s, r[s - 1])
  <2>1. \A s \in Slot : r[s] = Rhs(r)[s]
    BY <1>8
  <2> HIDE DEF r
  <2>2. 0 \in Slot /\ \A s \in 1 .. last : s \in Slot /\ s # 0
    BY <1>1
  <2> QED BY <2>1, <2>2 DEF NextSlot
<1>10. \A s \in Slot : r[s] \in Hash
  <2> DEFINE T == {s \in Nat : s \in Slot => r[s] \in Hash}
  <2>1. 0 \in T
    BY <1>2, <1>9
  <2>2. ASSUME NEW s \in Nat, s \in T PROVE s + 1 \in T
    <3> SUFFICES ASSUME s + 1 \in Slot PROVE r[s + 1] \in Hash
      OBVIOUS
    <3>1. s \in Slot /\ s + 1 \in 1 .. last /\ (s + 1) - 1 = s
      BY <1>1
    <3>2. r[s] \in Hash
      BY <2>2, <3>1
    <3>3. NextSlot(s + 1, r[s]) \in Hash
      BY <1>3, <3>1, <3>2
    <3> HIDE DEF r
    <3> QED BY <1>9, <3>1, <3>3
  <2>3. Nat \subseteq T
    <3> HIDE DEF T
    <3> QED BY <2>1, <2>2, SetInduction
  <2> QED BY <1>1, <2>3
<1>11. r \in [Slot -> Hash]
  <2>1. r = [s \in Slot |-> r[s]]
    <3>1. Rhs(r) = [s \in Slot |-> Rhs(r)[s]]
      OBVIOUS
    <3> QED BY <1>8, <3>1
  <2> HIDE DEF r
  <2> QED BY <1>10, <2>1
<1> QED BY <1>9, <1>11

\* What a round of the README's two passes gives after an accumulator x.
NextAcc(m, r, x) ==
  Sha64(x, m[x[IF r <= MixRounds THEN 0 ELSE (r - 1 - MixRounds) % Cycle] % Slots])

\* It is a hash, and what Mix computes without SHA-NI, whose rounds count from 0.
LEMMA NextAccType ==
  ASSUME NEW m \in [Slot -> Hash], NEW r \in 1 .. 2 * MixRounds, NEW x \in Hash
  PROVE  NextAcc(m, r, x) \in Hash
<1> DEFINE word == IF r <= MixRounds THEN 0 ELSE (r - 1 - MixRounds) % Cycle
<1>1. word \in WordIdx
  <2>1. MixRounds \in Nat /\ Cycle \in Nat \ {0} /\ Cycle <= NumWords /\ NumWords \in Nat \ {0}
    BY SizeAssumption
  <2>2. CASE r <= MixRounds
    BY <2>1, <2>2 DEF WordIdx
  <2>3. CASE ~(r <= MixRounds)
    <3>1. r - 1 - MixRounds \in Nat
      BY <2>1, <2>3
    <3>2. (r - 1 - MixRounds) % Cycle \in 0 .. Cycle - 1
      BY <2>1, <3>1, ModRange
    <3> QED BY <2>1, <2>3, <3>2 DEF WordIdx
  <2> QED BY <2>2, <2>3
<1>2. m[x[word] % Slots] \in Hash
  <2> HIDE DEF word
  <2>1. x[word] \in Word
    BY <1>1 DEF Hash
  <2> QED BY <2>1, SlotType
<1>3. Sha64(x, m[x[word] % Slots]) \in Hash
  <2> HIDE DEF word
  <2> QED BY <1>2, Sha64Type
<1> QED BY <1>3 DEF NextAcc

\* The reference's accumulators exist and follow one another in that way.
LEMMA RefAccSteps ==
  ASSUME NEW m \in [Slot -> Hash]
  PROVE  /\ RefAcc(m)[0] = m[Slots - 1]
         /\ \A r \in 1 .. 2 * MixRounds : RefAcc(m)[r] = NextAcc(m, r, RefAcc(m)[r - 1])
<1> DEFINE last == 2 * MixRounds
           step == [i \in 1 .. last |-> [x \in Hash |-> NextAcc(m, i, x)]]
           Rhs(a) == [r \in 0 .. 2 * MixRounds |->
                        IF r = 0 THEN m[Slots - 1]
                        ELSE Sha64(a[r - 1],
                               m[a[r - 1][IF r <= MixRounds THEN 0
                                          ELSE (r - 1 - MixRounds) % Cycle] % Slots])]
<1>1. last \in Nat
  BY SizeAssumption
<1>2. m[Slots - 1] \in Hash
  BY SizeAssumption DEF Slot
<1>3. ASSUME NEW i \in 1 .. last, NEW x \in Hash
      PROVE  step[i][x] = NextAcc(m, i, x) /\ NextAcc(m, i, x) \in Hash
  BY NextAccType
<1>4. Course(Hash, m[Slots - 1], step, last) # {}
  <2> HIDE DEF step, last
  <2> QED BY <1>1, <1>2, <1>3, CourseExists
<1>5. PICK a : a \in Course(Hash, m[Slots - 1], step, last)
  BY <1>4
<1>6. /\ a \in [0 .. last -> Hash] /\ a[0] = m[Slots - 1]
      /\ \A r \in 1 .. last : a[r] = NextAcc(m, r, a[r - 1])
  <2>1. ASSUME NEW r \in 1 .. last PROVE a[r - 1] \in Hash
    BY <1>1, <1>5 DEF Course
  <2> HIDE DEF step, last
  <2> QED BY <1>1, <1>3, <1>5, <2>1 DEF Course
<1>7. a = Rhs(a)
  <2>1. ASSUME NEW r \in 0 .. last PROVE a[r] = Rhs(a)[r]
    BY <1>1, <1>6 DEF NextAcc
  <2>2. a = [r \in 0 .. last |-> a[r]]
    BY <1>6
  <2> QED BY <2>1, <2>2
<1>8. RefAcc(m) = Rhs(RefAcc(m))
  BY <1>7 DEF RefAcc
<1> DEFINE r == RefAcc(m)
<1>9. \A i \in 0 .. last : r[i] = Rhs(r)[i]
  BY <1>8
<1> HIDE DEF r
<1>10. r[0] = m[Slots - 1] /\ \A i \in 1 .. last : r[i] = NextAcc(m, i, r[i - 1])
  <2>1. 0 \in 0 .. last /\ \A i \in 1 .. last : i \in 0 .. last /\ i # 0
    BY <1>1
  <2> QED BY <1>9, <2>1 DEF NextAcc
<1> QED BY <1>10 DEF r

\* A scratchpad that is filled is the reference's.
LEMMA FilledIsRef ==
  ASSUME PowTypeOK, FilledTo(Slots)
  PROVE  mem = RefMem(front, nonce)
<1> DEFINE ref == RefMem(front, nonce)
<1>1. /\ ref \in [Slot -> Hash] /\ ref[0] = Sha80(front, nonce)
      /\ \A s \in 1 .. Slots - 1 : ref[s] = NextSlot(s, ref[s - 1])
  BY RefMemSteps DEF PowTypeOK
<1> HIDE DEF ref
<1> DEFINE T == {s \in Nat : s \in Slot => mem[s] = ref[s]}
<1>2. Slots \in Nat \ {0} /\ Slot = 0 .. Slots - 1
  BY SizeAssumption DEF Slot
<1>3. 0 \in T
  BY <1>1, <1>2 DEF FilledTo
<1>4. ASSUME NEW s \in Nat, s \in T PROVE s + 1 \in T
  <2> SUFFICES ASSUME s + 1 \in Slot PROVE mem[s + 1] = ref[s + 1]
    OBVIOUS
  <2>1. /\ s \in Slot /\ s + 1 \in 1 .. Slots - 1 /\ s + 1 \in 0 .. Slots - 1
        /\ s + 1 # 0 /\ (s + 1) - 1 = s
    BY <1>2
  <2>2. mem[s] = ref[s]
    BY <1>4, <2>1
  <2>3. mem[s + 1] = NextSlot(s + 1, mem[s])
    BY <2>1 DEF FilledTo, NextSlot
  <2>4. ref[s + 1] = NextSlot(s + 1, ref[s])
    BY <1>1, <2>1
  <2> QED BY <2>2, <2>3, <2>4
<1>5. Nat \subseteq T
  <2> HIDE DEF T
  <2> QED BY <1>3, <1>4, SetInduction
<1>6. \A s \in Slot : mem[s] = ref[s]
  BY <1>2, <1>5
<1>7. mem \in [Slot -> Hash]
  BY DEF PowTypeOK
<1>8. mem = ref
  BY <1>1, <1>6, <1>7
<1> QED BY <1>8 DEF ref

\* While it mixes, a hasher other than amd64Hasher has the accumulator that the
\* reference has after as many rounds.
AccInv ==
  hasher # "amd64" =>
    /\ pc = "mix" => acc = RefAcc(mem)[ctr]
    /\ pc = "done" => out = Reversed(Sha32(RefAcc(mem)[2 * MixRounds]))

LEMMA AccStep == PowTypeOK /\ AccInv /\ [PowNext]_powVars => AccInv'
<1> SUFFICES ASSUME PowTypeOK, AccInv, [PowNext]_powVars, hasher' # "amd64"
             PROVE  /\ pc' = "mix" => acc' = RefAcc(mem')[ctr']
                    /\ pc' = "done" => out' = Reversed(Sha32(RefAcc(mem')[2 * MixRounds]))
  BY DEF AccInv
<1>0. hasher' = hasher
  BY DEF PowNext, NewHeader, NextNonce, Seed, Fill, StartMix, Mix, Finalize, powVars
<1>1. CASE NewHeader \/ NextNonce \/ Seed \/ Fill
  BY <1>1 DEF NewHeader, NextNonce, Seed, Fill
<1>2. CASE StartMix
  <2>1. RefAcc(mem)[0] = mem[Slots - 1]
    BY RefAccSteps DEF PowTypeOK
  <2> QED BY <1>2, <2>1 DEF StartMix
<1>3. CASE Mix
  <2>1. /\ ctr \in Nat /\ ctr < 2 * MixRounds /\ ctr' = ctr + 1 /\ mem' = mem
        /\ acc = RefAcc(mem)[ctr] /\ pc' = "mix" /\ MixRounds \in Nat
    BY <1>0, <1>3, SizeAssumption DEF Mix, AccInv, PowTypeOK
  <2>2. acc' = Sha64(acc, mem[acc[Offset(ctr)] % Slots])
    BY <1>0, <1>3 DEF Mix, ShaNI
  <2>3. Offset(ctr) = IF ctr + 1 <= MixRounds THEN 0 ELSE ((ctr + 1) - 1 - MixRounds) % Cycle
    <3>1. (ctr < MixRounds <=> ctr + 1 <= MixRounds) /\ (ctr + 1) - 1 - MixRounds = ctr - MixRounds
      BY <2>1
    <3> QED BY <1>0, <3>1 DEF Offset
  <2>4. acc' = NextAcc(mem, ctr + 1, acc)
    BY <2>2, <2>3 DEF NextAcc
  <2>5. ctr + 1 \in 1 .. 2 * MixRounds /\ (ctr + 1) - 1 = ctr
    BY <2>1
  <2>6. RefAcc(mem)[ctr + 1] = NextAcc(mem, ctr + 1, RefAcc(mem)[ctr])
    <3>1. mem \in [Slot -> Hash]
      BY DEF PowTypeOK
    <3>2. RefAcc(mem)[ctr + 1] = NextAcc(mem, ctr + 1, RefAcc(mem)[(ctr + 1) - 1])
      BY <3>1, <2>5, RefAccSteps
    <3> QED BY <2>5, <3>2
  <2> QED BY <2>1, <2>4, <2>6
<1>4. CASE Finalize
  BY <1>0, <1>4 DEF Finalize, AccInv
<1>5. CASE UNCHANGED powVars
  BY <1>5 DEF powVars, AccInv
<1> QED BY <1>1, <1>2, <1>3, <1>4, <1>5 DEF PowNext

\* Whatever SHA-256 compresses to, and whatever was hashed before in the same
\* workspace with whichever midstate, the reference port and optHasher return
\* the hash the README defines.
THEOREM HashesAreReference == PowSpec => []HashIsReference
<1>1. PowInit => ScratchpadInv /\ AccInv
  BY DEF PowInit, ScratchpadInv, ScratchpadIsHeaders, AccInv
<1>2. PowTypeOK /\ ScratchpadInv /\ AccInv => HashIsReference
  <2> SUFFICES ASSUME PowTypeOK, ScratchpadInv, AccInv, pc = "done", hasher # "amd64"
               PROVE  out = Reference(front, nonce)
    BY DEF HashIsReference
  <2>1. mem = RefMem(front, nonce)
    BY FilledIsRef DEF PowTypeOK, ScratchpadInv, ScratchpadIsHeaders, ShaNI
  <2>2. out = Reversed(Sha32(RefAcc(mem)[2 * MixRounds]))
    BY DEF AccInv
  <2> QED BY <2>1, <2>2 DEF Reference
<1> QED BY <1>1, <1>2, TypeInit, TypeStep, ScratchpadStep, AccStep, PTL DEF PowSpec

-----------------------------------------------------------------------------
(* WorkTargets: the number of a hash. *)

\* The sizes.
LEMMA Sizes ==
  /\ Base \in Nat \ {0} /\ Base >= 2
  /\ HalfBytes \in Nat \ {0} /\ HashLen \in Nat \ {0} /\ HashLen = 2 * HalfBytes
  /\ Idx = 0 .. HashLen - 1 /\ Byte = 0 .. Base - 1
<1> QED BY BaseAssumption, HalfBytesAssumption DEF HashLen, Idx, Byte

\* The recursion over the bytes has a solution.
LEMMA HighBytesSteps ==
  ASSUME NEW h \in Hashes
  PROVE  /\ HighBytes(h)[0] = 0
         /\ \A k \in 0 .. HashLen : HighBytes(h)[k] \in Nat
         /\ \A k \in 1 .. HashLen :
              HighBytes(h)[k] = Base * HighBytes(h)[k - 1] + h[HashLen - k]
<1> DEFINE step   == [i \in 1 .. HashLen |-> [x \in Nat |-> Base * x + h[HashLen - i]]]
           Rhs(v) == [k \in 0 .. HashLen |->
                        IF k = 0 THEN 0 ELSE Base * v[k - 1] + h[HashLen - k]]
<1>1. ASSUME NEW k \in 1 .. HashLen PROVE h[HashLen - k] \in Nat
  <2>1. HashLen - k \in Idx
    BY Sizes
  <2> QED BY <2>1, Sizes DEF Hashes
<1>2. ASSUME NEW i \in 1 .. HashLen, NEW x \in Nat
      PROVE  step[i][x] = Base * x + h[HashLen - i] /\ step[i][x] \in Nat
  <2>1. Base * x \in Nat
    BY Sizes, MulNat
  <2> QED BY <1>1, <2>1
<1>3. Course(Nat, 0, step, HashLen) # {}
  <2> HIDE DEF step
  <2> QED BY <1>2, Sizes, CourseExists
<1>4. PICK f : f \in Course(Nat, 0, step, HashLen)
  BY <1>3
<1>5. f = Rhs(f)
  <2>1. ASSUME NEW k \in 0 .. HashLen PROVE f[k] = Rhs(f)[k]
    <3>1. CASE k = 0
      BY <1>4, <3>1 DEF Course
    <3>2. CASE k # 0
      <4>1. k \in 1 .. HashLen /\ k - 1 \in 0 .. HashLen
        BY <3>2, Sizes
      <4>2. f[k - 1] \in Nat /\ f[k] = step[k][f[k - 1]]
        <5> HIDE DEF step
        <5> QED BY <1>4, <4>1 DEF Course
      <4>3. f[k] = Base * f[k - 1] + h[HashLen - k]
        <5> HIDE DEF step
        <5> QED BY <1>2, <4>1, <4>2
      <4> QED BY <3>2, <4>3
    <3> QED BY <3>1, <3>2
  <2>2. f = [k \in 0 .. HashLen |-> f[k]]
    BY <1>4 DEF Course
  <2> QED BY <2>1, <2>2
<1> DEFINE v == HighBytes(h)
<1>6. v = Rhs(v)
  BY <1>5 DEF HighBytes
<1>7. \A k \in 0 .. HashLen : v[k] = Rhs(v)[k]
  BY <1>6
<1> HIDE DEF v
<1>8. v[0] = 0 /\ \A k \in 1 .. HashLen : v[k] = Base * v[k - 1] + h[HashLen - k]
  <2>1. 0 \in 0 .. HashLen /\ \A k \in 1 .. HashLen : k \in 0 .. HashLen /\ k # 0
    BY Sizes
  <2> QED BY <1>7, <2>1
<1>9. \A k \in 0 .. HashLen : v[k] \in Nat
  <2> DEFINE T == {k \in Nat : k \in 0 .. HashLen => v[k] \in Nat}
  <2>1. 0 \in T
    BY <1>8
  <2>2. ASSUME NEW k \in Nat, k \in T PROVE k + 1 \in T
    <3> SUFFICES ASSUME k + 1 \in 0 .. HashLen PROVE v[k + 1] \in Nat
      OBVIOUS
    <3>1. k \in 0 .. HashLen /\ k + 1 \in 1 .. HashLen /\ (k + 1) - 1 = k
      BY Sizes
    <3>2. v[k + 1] = Base * v[k] + h[HashLen - (k + 1)]
      BY <1>8, <3>1
    <3>3. v[k] \in Nat /\ Base * v[k] \in Nat
      BY <2>2, <3>1, Sizes, MulNat
    <3> QED BY <1>1, <3>1, <3>2, <3>3
  <2>3. Nat \subseteq T
    <3> HIDE DEF T
    <3> QED BY <2>1, <2>2, SetInduction
  <2> QED BY <2>3, Sizes
<1> QED BY <1>8, <1>9 DEF v

\* A byte more, of each of two numbers.
LEMMA ByteBelow ==
  ASSUME NEW x \in Nat, NEW y \in Nat, NEW d \in Byte, NEW e \in Byte
  PROVE  /\ x < y => Base * x + d < Base * y + e
         /\ x = y /\ d < e => Base * x + d < Base * y + e
         /\ x <= y /\ d <= e => Base * x + d <= Base * y + e
<1>1. Base * x \in Nat /\ Base * y \in Nat /\ d \in Nat /\ e \in Nat /\ d < Base
  BY Sizes, MulNat
<1>2. x < y => Base * x + Base <= Base * y
  BY Sizes, MulGap
<1>3. x < y => Base * x + d < Base * y + e
  BY <1>1, <1>2, Sizes
<1>4. x <= y => x < y \/ x = y
  OBVIOUS
<1> DEFINE bx == Base * x
           by == Base * y
<1>5. bx \in Nat /\ by \in Nat /\ (x = y => bx = by)
  BY <1>1
<1> HIDE DEF bx, by
<1>6. /\ x = y /\ d < e => bx + d < by + e
      /\ x = y /\ d <= e => bx + d <= by + e
  BY <1>1, <1>5
<1>7. x < y => bx + d <= by + e
  BY <1>1, <1>3, <1>5 DEF bx, by
<1> QED BY <1>3, <1>4, <1>6, <1>7 DEF bx, by

\* The bytes of two hashes, one at a time from the highest.
LEMMA ByteOf ==
  ASSUME NEW h \in Hashes, NEW k \in Nat, k + 1 <= HashLen
  PROVE  /\ HashLen - (k + 1) \in Idx
         /\ h[HashLen - (k + 1)] \in Byte
         /\ HighBytes(h)[k] \in Nat
         /\ HighBytes(h)[k + 1] = Base * HighBytes(h)[k] + h[HashLen - (k + 1)]
<1>1. /\ HashLen - (k + 1) \in Idx /\ k + 1 \in 1 .. HashLen /\ k \in 0 .. HashLen
      /\ (k + 1) - 1 = k
  BY Sizes
<1> QED BY <1>1, HighBytesSteps DEF Hashes

\* The highest byte in which two hashes differ decides which number is smaller.
LEMMA HighestDecides ==
  ASSUME NEW h \in Hashes, NEW t \in Hashes, NEW m \in Idx, h[m] < t[m],
         \A i \in Idx : i > m => h[i] = t[i]
  PROVE  Value(h) < Value(t)
<1> DEFINE a == HighBytes(h)
           b == HighBytes(t)
           T == {k \in Nat : k <= HashLen => /\ k < HashLen - m => a[k] = b[k]
                                             /\ k >= HashLen - m => a[k] < b[k]}
<1>0. m \in Nat /\ m < HashLen /\ HashLen \in Nat
  BY Sizes
<1>1. 0 \in T
  <2>1. 0 < HashLen - m /\ a[0] = b[0]
    BY <1>0, HighBytesSteps
  <2> HIDE DEF a, b
  <2> QED BY <1>0, <2>1
<1>2. ASSUME NEW k \in Nat, k \in T PROVE k + 1 \in T
  <2> SUFFICES ASSUME k + 1 <= HashLen
               PROVE  /\ k + 1 < HashLen - m => a[k + 1] = b[k + 1]
                      /\ k + 1 >= HashLen - m => a[k + 1] < b[k + 1]
    OBVIOUS
  <2> DEFINE i == HashLen - (k + 1)
  <2>1. /\ i \in Idx /\ h[i] \in Byte /\ t[i] \in Byte /\ a[k] \in Nat /\ b[k] \in Nat
        /\ a[k + 1] = Base * a[k] + h[i] /\ b[k + 1] = Base * b[k] + t[i]
    BY ByteOf
  <2>2. /\ k < HashLen - m => a[k] = b[k]
        /\ k >= HashLen - m => a[k] < b[k]
    BY <1>0, <1>2
  <2> HIDE DEF a, b
  <2>3. CASE k + 1 < HashLen - m
    <3>1. i > m /\ k < HashLen - m
      BY <1>0, <2>3
    <3>2. h[i] = t[i] /\ a[k] = b[k]
      BY <2>1, <2>2, <3>1
    <3>3. a[k + 1] = b[k + 1]
      BY <2>1, <3>2
    <3> QED BY <1>0, <2>3, <3>3
  <2>4. CASE k + 1 = HashLen - m
    <3>1. i = m /\ k < HashLen - m
      BY <1>0, <2>4
    <3>2. a[k + 1] < b[k + 1]
      BY <2>1, <2>2, <3>1, ByteBelow
    <3> QED BY <1>0, <2>4, <3>2
  <2>5. CASE k + 1 > HashLen - m
    <3>1. a[k] < b[k]
      BY <1>0, <2>2, <2>5
    <3>2. a[k + 1] < b[k + 1]
      BY <2>1, <3>1, ByteBelow
    <3> QED BY <1>0, <2>5, <3>2
  <2> QED BY <1>0, <2>3, <2>4, <2>5
<1>3. Nat \subseteq T
  <2> HIDE DEF T
  <2> QED BY <1>1, <1>2, SetInduction
<1>4. HashLen >= HashLen - m /\ HashLen <= HashLen
  BY <1>0
<1>5. a[HashLen] < b[HashLen]
  <2> HIDE DEF a, b
  <2> QED BY <1>0, <1>3, <1>4
<1> QED BY <1>5 DEF Value

\* LessOrEqual compares numbers.
LEMMA ComparesNumbers ==
  ASSUME NEW h \in Hashes, NEW t \in Hashes
  PROVE  LessOrEqual(h, t) <=> Value(h) <= Value(t)
<1> DEFINE differ == {i \in Idx : h[i] # t[i]}
<1>0. Value(h) \in Nat /\ Value(t) \in Nat
  BY Sizes, HighBytesSteps DEF Value
<1>1. CASE differ = {}
  <2>1. h = t
    BY <1>1 DEF Hashes
  <2> QED BY <1>0, <1>1, <2>1 DEF LessOrEqual
<1>2. CASE differ # {}
  <2>1. \E x \in differ : \A y \in differ : y <= x
    <3>1. differ \in SUBSET (0 .. HashLen - 1) /\ HashLen - 1 \in Nat
      BY Sizes
    <3> HIDE DEF differ
    <3> QED BY <1>2, <3>1, GreatestNat
  <2> DEFINE m == Max(differ)
  <2>2. m \in differ /\ \A y \in differ : m >= y
    <3>1. \E x \in differ : \A y \in differ : x >= y
      <4>1. PICK x \in differ : \A y \in differ : y <= x
        BY <2>1
      <4>2. \A y \in differ : x \in Int /\ y \in Int
        BY Sizes
      <4> QED BY <4>1, <4>2
    <3> HIDE DEF differ
    <3> QED BY <3>1 DEF Max
  <2>3. /\ m \in Idx /\ h[m] # t[m] /\ \A i \in Idx : i > m => h[i] = t[i]
    <3>1. m \in Idx /\ h[m] # t[m]
      BY <2>2
    <3>2. \A i \in Idx : i \in differ => ~(i > m)
      BY <2>2, <3>1, Sizes
    <3> QED BY <3>1, <3>2
  <2>4. LessOrEqual(h, t) <=> h[m] < t[m]
    BY <1>2 DEF LessOrEqual
  <2> HIDE DEF m, differ
  <2>5. h[m] \in Nat /\ t[m] \in Nat
    BY <2>3, Sizes DEF Hashes
  <2>6. CASE h[m] < t[m]
    <3>1. Value(h) < Value(t)
      BY <2>3, <2>6, HighestDecides
    <3> QED BY <1>0, <2>4, <2>6, <3>1
  <2>7. CASE t[m] < h[m]
    <3>1. Value(t) < Value(h)
      BY <2>3, <2>7, HighestDecides
    <3> QED BY <1>0, <2>4, <2>5, <2>7, <3>1
  <2> QED BY <2>3, <2>5, <2>6, <2>7
<1> QED BY <1>1, <1>2

-----------------------------------------------------------------------------
(* WorkTargets: the bytes of a number. *)

\* Weights are positive, and grow by a byte at a time.
LEMMA Weights ==
  ASSUME NEW i \in Nat
  PROVE  Pow(Base, i) \in Nat \ {0} /\ Pow(Base, i + 1) = Base * Pow(Base, i)
<1> QED BY Sizes, PowSteps, PowPositive

\* A byte of a number is a byte.
LEMMA DigitType ==
  ASSUME NEW v \in Nat, NEW i \in Nat
  PROVE  Digit(v, i) \in Byte
<1>1. v \div Pow(Base, i) \in Nat
  BY Weights, DivNat
<1> QED BY <1>1, Sizes, ModRange DEF Digit

\* A hash whose highest bytes are those of a number stands, by them, for it.
LEMMA BytesOfNumber ==
  ASSUME NEW h \in Hashes, NEW v \in Nat, NEW len \in 0 .. HashLen, v < Pow(Base, len),
         \A j \in 0 .. len - 1 : h[HashLen - len + j] = Digit(v, j)
  PROVE  HighBytes(h)[len] = v
<1> DEFINE a == HighBytes(h)
           T == {k \in Nat : k <= len => a[k] = v \div Pow(Base, len - k)}
<1>0. len \in Nat /\ len <= HashLen /\ HashLen \in Nat
  BY Sizes
<1>1. 0 \in T
  <2>1. v \div Pow(Base, len) = 0
    <3>1. Pow(Base, len) * 0 + v = v /\ Pow(Base, len) \in Nat \ {0}
      BY <1>0, Weights, Z3
    <3>2. (Pow(Base, len) * 0 + v) \div Pow(Base, len) = 0
      BY <3>1, DivOf
    <3> QED BY <3>1, <3>2
  <2>2. a[0] = 0 /\ len - 0 = len
    BY <1>0, HighBytesSteps
  <2> HIDE DEF a
  <2> QED BY <2>1, <2>2
<1>2. ASSUME NEW k \in Nat, k \in T PROVE k + 1 \in T
  <2> SUFFICES ASSUME k + 1 <= len PROVE a[k + 1] = v \div Pow(Base, len - (k + 1))
    OBVIOUS
  <2> DEFINE j == len - (k + 1)
             q == v \div Pow(Base, j)
  <2>1. /\ j \in Nat /\ j \in 0 .. len - 1 /\ len - k = j + 1
        /\ HashLen - len + j = HashLen - (k + 1) /\ k + 1 <= HashLen
    BY <1>0
  <2>2. a[k] \in Nat /\ a[k + 1] = Base * a[k] + h[HashLen - (k + 1)]
    BY <2>1, ByteOf
  <2>3. h[HashLen - (k + 1)] = q % Base
    BY <2>1 DEF Digit
  <2>4. a[k] = v \div Pow(Base, j + 1)
    BY <1>0, <1>2, <2>1
  <2>5. Pow(Base, j + 1) = Pow(Base, j) * Base
    <3>1. Pow(Base, j) \in Nat \ {0} /\ Pow(Base, j + 1) = Base * Pow(Base, j)
      BY <2>1, Weights
    <3>2. \A x \in Nat : Base * x = x * Base
      BY Sizes, Z3
    <3> QED BY <3>1, <3>2
  <2>6. v \div Pow(Base, j + 1) = q \div Base
    <3>1. Pow(Base, j) \in Nat \ {0}
      BY <2>1, Weights
    <3>2. (v \div Pow(Base, j)) \div Base = v \div (Pow(Base, j) * Base)
      BY <3>1, Sizes, DivDiv
    <3> QED BY <2>5, <3>2
  <2>7. q \in Nat
    BY <2>1, Weights, DivNat
  <2>8. q = Base * (q \div Base) + (q % Base)
    <3> HIDE DEF q
    <3> QED BY <2>7, Sizes, DivMod
  <2>9. a[k + 1] = q
    <3> HIDE DEF a, q, j
    <3> QED BY <2>2, <2>3, <2>4, <2>6, <2>8
  <2> QED BY <2>9
<1>3. Nat \subseteq T
  <2> HIDE DEF T
  <2> QED BY <1>1, <1>2, SetInduction
<1>4. a[len] = v \div Pow(Base, len - len)
  <2> HIDE DEF a
  <2> QED BY <1>0, <1>3
<1>5. v \div Pow(Base, len - len) = v
  <2>1. len - len = 0 /\ Pow(Base, 0) = 1
    BY <1>0, Sizes, PowSteps
  <2>2. (1 * v + 0) \div 1 = v /\ 1 * v + 0 = v
    BY DivOf
  <2> QED BY <2>1, <2>2
<1> QED BY <1>4, <1>5

\* What the compact bits stand for.
LEMMA CompactValueType ==
  ASSUME NEW c \in Compact
  PROVE  CompactValue(c) \in Nat
<1>1. c.mantissa \in Nat /\ c.exponent \in Nat
  BY BoundsAssumption DEF Compact
<1>2. CASE c.exponent <= 3
  <2>1. 3 - c.exponent \in Nat
    BY <1>1, <1>2
  <2>2. c.mantissa \div Pow(Base, 3 - c.exponent) \in Nat
    BY <1>1, <2>1, Weights, DivNat
  <2> QED BY <1>2, <2>2 DEF CompactValue
<1>3. CASE ~(c.exponent <= 3)
  <2>1. c.exponent - 3 \in Nat
    BY <1>1, <1>3
  <2>2. c.mantissa * Pow(Base, c.exponent - 3) \in Nat
    BY <1>1, <2>1, Weights, MulNat
  <2> QED BY <1>3, <2>2 DEF CompactValue
<1> QED BY <1>2, <1>3

LEMMA CompactHashTypes ==
  ASSUME NEW c \in Compact
  PROVE  CompactToHash(c) \in Hashes /\ CompactToHashBE(c) \in Hashes
<1>1. \A i \in Idx : i \in Nat /\ HashLen - 1 - i \in Nat
  BY Sizes
<1>2. \A i \in Idx : /\ Digit(CompactValue(c), i) \in Byte
                     /\ Digit(CompactValue(c), HashLen - 1 - i) \in Byte
  BY <1>1, CompactValueType, DigitType
<1> QED BY <1>2 DEF CompactToHash, CompactToHashBE, Hashes

\* The network's target of a pool's job stands for what its bits encode.
LEMMA CompactHashValue ==
  ASSUME NEW c \in Compact, Fits(c)
  PROVE  Value(CompactToHash(c)) = CompactValue(c)
<1> DEFINE h == CompactToHash(c)
           v == CompactValue(c)
<1>1. h \in Hashes /\ v \in Nat /\ v < Pow(Base, HashLen)
  BY CompactHashTypes, CompactValueType DEF Fits
<1>2. ASSUME NEW j \in 0 .. HashLen - 1 PROVE h[HashLen - HashLen + j] = Digit(v, j)
  <2>1. HashLen - HashLen + j = j /\ j \in Idx
    BY Sizes
  <2> QED BY <2>1 DEF CompactToHash
<1> HIDE DEF h, v
<1>3. HashLen \in 0 .. HashLen
  BY Sizes
<1>4. HighBytes(h)[HashLen] = v
  BY <1>1, <1>2, <1>3, BytesOfNumber
<1> QED BY <1>4 DEF Value, h, v

-----------------------------------------------------------------------------
(* WorkTargets: the target of a difficulty. *)

\* The unit, divided by the difficulty, is cut to half a hash.
LEMMA HighRange ==
  ASSUME NEW d \in Difficulties
  PROVE  High(d) \in Nat /\ High(d) < Pow(Base, HalfBytes)
<1> DEFINE quotient == IF d.num = 0 THEN Pow(Base, UnitBytes)
                       ELSE (Pow(Base, UnitBytes) * d.den) \div d.num
           most == Pow(Base, HalfBytes) - 1
<1>1. d.num \in Nat /\ d.den \in Nat /\ UnitBytes \in Nat
  BY BoundsAssumption, UnitBytesAssumption, Sizes DEF Difficulties
<1>2. quotient \in Nat
  <2>1. Pow(Base, UnitBytes) \in Nat
    BY <1>1, Weights
  <2>2. Pow(Base, UnitBytes) * d.den \in Nat
    BY <1>1, <2>1, MulNat
  <2>3. d.num # 0 => (Pow(Base, UnitBytes) * d.den) \div d.num \in Nat
    BY <1>1, <2>2, DivNat
  <2> QED BY <2>1, <2>3
<1>3. most \in Nat /\ Pow(Base, HalfBytes) = most + 1
  <2>1. Pow(Base, HalfBytes) \in Nat \ {0}
    BY Sizes, Weights
  <2>2. \A x \in Nat \ {0} : x - 1 \in Nat /\ x = (x - 1) + 1
    OBVIOUS
  <2> QED BY <2>1, <2>2
<1>4. High(d) = Min({quotient, most})
  BY DEF High
<1> HIDE DEF quotient, most
<1>5. \E x \in {quotient, most} : \A y \in {quotient, most} : x =< y
  BY <1>2, <1>3
<1>6. /\ High(d) \in {quotient, most}
      /\ \A y \in {quotient, most} : High(d) =< y
  BY <1>4, <1>5 DEF Min
<1>7. High(d) \in Nat /\ High(d) <= most
  BY <1>2, <1>3, <1>6
<1> QED BY <1>3, <1>7

\* A number has as many bytes as it takes to hold it.
LEMMA NumDigitsHolds ==
  ASSUME NEW v \in Nat, NEW n \in Nat, v < Pow(Base, n)
  PROVE  NumDigits(v) \in 0 .. n /\ v < Pow(Base, NumDigits(v))
<1> DEFINE S == {i \in 0 .. v : Pow(Base, i) <= v}
<1>1. CASE v = 0
  <2>1. NumDigits(v) = 0 /\ Pow(Base, 0) = 1
    BY <1>1, Sizes, PowSteps DEF NumDigits
  <2> QED BY <1>1, <2>1
<1>2. CASE v # 0
  <2>1. S # {} /\ S \in SUBSET (0 .. v)
    <3>1. Pow(Base, 0) = 1 /\ 0 \in 0 .. v
      BY Sizes, PowSteps
    <3>2. 0 \in S
      BY <1>2, <3>1
    <3> QED BY <3>2
  <2>2. PICK x \in S : \A y \in S : y <= x
    <3> HIDE DEF S
    <3> QED BY <2>1, GreatestNat
  <2> DEFINE m == Max(S)
  <2>3. m \in S /\ \A y \in S : m >= y
    <3>1. \A y \in S : x \in Int /\ y \in Int /\ x >= y
      BY <2>2
    <3> HIDE DEF S
    <3> QED BY <2>2, <3>1 DEF Max
  <2>4. m \in Nat /\ m <= v /\ Pow(Base, m) <= v
    BY <2>3
  <2>5. NumDigits(v) = 1 + m
    BY <1>2 DEF NumDigits
  <2> HIDE DEF m
  <2>6. v < Pow(Base, m + 1)
    <3>1. CASE m + 1 <= v
      <4>1. m + 1 \in 0 .. v /\ ~(m >= m + 1)
        BY <2>4, <3>1
      <4>2. m + 1 \notin S
        BY <2>3, <4>1
      <4>3. Pow(Base, m + 1) \in Nat
        BY <2>4, Weights
      <4> QED BY <4>1, <4>2, <4>3
    <3>2. CASE ~(m + 1 <= v)
      <4>1. m = v
        BY <2>4, <3>2
      <4>2. v + 1 < Pow(Base, v + 1) /\ Pow(Base, v + 1) \in Nat
        BY Sizes, PowGrows, Weights
      <4> QED BY <4>1, <4>2
    <3> QED BY <3>1, <3>2
  <2>7. m + 1 <= n
    <3> SUFFICES ASSUME n <= m PROVE FALSE
      BY <2>4
    <3>1. Pow(Base, n) <= Pow(Base, m)
      BY <2>4, Sizes, PowMonotone
    <3>2. Pow(Base, n) \in Nat /\ Pow(Base, m) \in Nat
      BY <2>4, Weights
    <3> QED BY <2>4, <3>1, <3>2
  <2>8. NumDigits(v) = m + 1
    BY <2>4, <2>5
  <2> QED BY <2>4, <2>6, <2>7, <2>8
<1> QED BY <1>1, <1>2

\* The target of a difficulty is a hash.
LEMMA DifficultyTargetType ==
  ASSUME NEW d \in Difficulties
  PROVE  DifficultyToTarget(d) \in Hashes
<1> DEFINE len == NumDigits(High(d))
<1>1. len \in 0 .. HalfBytes
  BY HighRange, NumDigitsHolds, Sizes
<1>2. ASSUME NEW i \in Idx, i >= HashLen - len PROVE Digit(High(d), i - HashLen + len) \in Byte
  <2>1. i - HashLen + len \in Nat
    <3> HIDE DEF len
    <3> QED BY <1>1, <1>2, Sizes
  <2> QED BY <2>1, HighRange, DigitType
<1>3. Base - 1 \in Byte /\ 0 \in Byte
  BY Sizes
<1> QED BY <1>2, <1>3 DEF DifficultyToTarget, Hashes

\* The upper half of a number is what its upper bytes stand for.
LEMMA UpperHalf ==
  ASSUME NEW h \in Hashes
  PROVE  Value(h) \div Pow(Base, HalfBytes) = HighBytes(h)[HalfBytes]
<1> DEFINE a == HighBytes(h)
           T == {j \in Nat : j <= HalfBytes =>
                               a[HalfBytes + j] \div Pow(Base, j) = a[HalfBytes]}
<1>0. a[HalfBytes] \in Nat
  BY Sizes, HighBytesSteps
<1>1. 0 \in T
  <2>1. HalfBytes + 0 = HalfBytes /\ Pow(Base, 0) = 1
    BY Sizes, PowSteps
  <2>2. 1 * a[HalfBytes] + 0 = a[HalfBytes] /\ (1 * a[HalfBytes] + 0) \div 1 = a[HalfBytes]
    BY <1>0, DivOf
  <2> HIDE DEF a
  <2> QED BY <2>1, <2>2
<1>2. ASSUME NEW j \in Nat, j \in T PROVE j + 1 \in T
  <2> SUFFICES ASSUME j + 1 <= HalfBytes
               PROVE  a[HalfBytes + (j + 1)] \div Pow(Base, j + 1) = a[HalfBytes]
    OBVIOUS
  <2> DEFINE k == HalfBytes + j
             d == h[HashLen - (k + 1)]
  <2>1. /\ k \in Nat /\ k + 1 <= HashLen /\ HalfBytes + (j + 1) = k + 1
    BY Sizes
  <2>2. a[k] \in Nat /\ d \in Byte /\ a[k + 1] = Base * a[k] + d
    BY <2>1, ByteOf
  <2>3. a[k] \div Pow(Base, j) = a[HalfBytes]
    BY <1>2, Sizes
  <2> HIDE DEF a, d
  <2>4. a[k + 1] \div Base = a[k] /\ a[k + 1] \in Nat
    <3>1. d \in Nat /\ d < Base /\ Base * a[k] \in Nat
      BY <2>2, Sizes, MulNat
    <3>2. (Base * a[k] + d) \div Base = a[k]
      BY <2>2, <3>1, Sizes, DivOf
    <3> QED BY <2>2, <3>1, <3>2
  <2>5. (a[k + 1] \div Base) \div Pow(Base, j) = a[k + 1] \div (Base * Pow(Base, j))
    BY <2>4, Sizes, Weights, DivDiv
  <2>6. Pow(Base, j + 1) = Base * Pow(Base, j)
    BY Weights
  <2> QED BY <2>1, <2>3, <2>4, <2>5, <2>6
<1>3. Nat \subseteq T
  <2> HIDE DEF T
  <2> QED BY <1>1, <1>2, SetInduction
<1>4. a[HalfBytes + HalfBytes] \div Pow(Base, HalfBytes) = a[HalfBytes]
  <2> HIDE DEF a
  <2> QED BY <1>3, Sizes
<1>5. HashLen = HalfBytes + HalfBytes
  BY Sizes
<1> QED BY <1>4, <1>5 DEF Value

\* The upper half of the target of a difficulty is no less than the quotient it
\* is written from: the bytes that are written too high make it only greater.
LEMMA TargetUpperHalf ==
  ASSUME NEW d \in Difficulties
  PROVE  High(d) <= HighBytes(DifficultyToTarget(d))[HalfBytes]
<1> DEFINE t   == DifficultyToTarget(d)
           len == NumDigits(High(d))
           a   == HighBytes(t)
           T   == {k \in Nat : len <= k /\ k <= HalfBytes => High(d) <= a[k]}
<1>1. /\ len \in 0 .. HalfBytes /\ High(d) < Pow(Base, len) /\ High(d) \in Nat
      /\ t \in Hashes
  BY HighRange, NumDigitsHolds, Sizes, DifficultyTargetType
<1>2. ASSUME NEW j \in 0 .. len - 1 PROVE t[HashLen - len + j] = Digit(High(d), j)
  <2> DEFINE i == HashLen - len + j
  <2>1. /\ i \in Idx /\ ~(i < HalfBytes) /\ i >= HashLen - len /\ i - HashLen + len = j
    <3> HIDE DEF len
    <3> QED BY <1>1, Sizes
  <2>2. t[i] = IF i < HalfBytes THEN Base - 1
               ELSE IF i >= HashLen - len THEN Digit(High(d), i - HashLen + len) ELSE 0
    BY <2>1 DEF DifficultyToTarget
  <2> HIDE DEF len, t, i
  <2>3. t[i] = Digit(High(d), j)
    BY <2>1, <2>2
  <2> QED BY <2>3 DEF i
<1>3. a[len] = High(d)
  <2>1. len \in 0 .. HashLen
    BY <1>1, Sizes
  <2> HIDE DEF t, len
  <2> QED BY <1>1, <1>2, <2>1, BytesOfNumber
<1>4. 0 \in T
  <2>1. len <= 0 => len = 0
    BY <1>1
  <2> HIDE DEF a, len
  <2> QED BY <1>1, <1>3, <2>1
<1>5. ASSUME NEW k \in Nat, k \in T PROVE k + 1 \in T
  <2> SUFFICES ASSUME len <= k + 1, k + 1 <= HalfBytes PROVE High(d) <= a[k + 1]
    OBVIOUS
  <2>1. CASE len = k + 1
    <3> HIDE DEF a, len
    <3> QED BY <1>1, <1>3, <2>1
  <2>2. CASE len # k + 1
    <3>1. len <= k /\ k + 1 <= HashLen
      <4> HIDE DEF len
      <4> QED BY <1>1, <2>2, Sizes
    <3>2. High(d) <= a[k]
      <4> HIDE DEF a, len
      <4> QED BY <1>5, <3>1, Sizes
    <3>3. /\ a[k] \in Nat /\ t[HashLen - (k + 1)] \in Nat
          /\ a[k + 1] = Base * a[k] + t[HashLen - (k + 1)]
      <4> HIDE DEF t
      <4> QED BY <1>1, <3>1, ByteOf, Sizes
    <3>4. a[k] <= Base * a[k] /\ Base * a[k] \in Nat
      <4>1. \A x, b \in Nat : b # 0 => x <= b * x
        BY Z3
      <4> HIDE DEF a
      <4> QED BY <3>3, <4>1, Sizes, MulNat
    <3> DEFINE x == a[k]
               y == Base * a[k]
               z == t[HashLen - (k + 1)]
               w == a[k + 1]
               u == High(d)
    <3>5. u \in Nat /\ x \in Nat /\ y \in Nat /\ z \in Nat /\ u <= x /\ x <= y /\ w = y + z
      BY <1>1, <3>2, <3>3, <3>4
    <3> HIDE DEF x, y, z, w, u
    <3>6. u <= w
      BY <3>5
    <3> QED BY <3>6 DEF u, w
  <2> QED BY <2>1, <2>2
<1>6. Nat \subseteq T
  <2> HIDE DEF T
  <2> QED BY <1>4, <1>5, SetInduction
<1> HIDE DEF a, len
<1> QED BY <1>1, <1>6, Sizes DEF a, t

\* A hash whose upper half is at most that of a target whose lower half is full
\* stands for a number that is at most the target's.
LEMMA FullLowerHalf ==
  ASSUME NEW h \in Hashes, NEW t \in Hashes,
         HighBytes(h)[HalfBytes] <= HighBytes(t)[HalfBytes],
         \A i \in Idx : i < HalfBytes => t[i] = Base - 1
  PROVE  Value(h) <= Value(t)
<1> DEFINE a == HighBytes(h)
           b == HighBytes(t)
           T == {j \in Nat : j <= HalfBytes => a[HalfBytes + j] <= b[HalfBytes + j]}
<1>1. 0 \in T
  <2>1. HalfBytes + 0 = HalfBytes
    BY Sizes
  <2> QED BY <2>1
<1>2. ASSUME NEW j \in Nat, j \in T PROVE j + 1 \in T
  <2> SUFFICES ASSUME j + 1 <= HalfBytes
               PROVE  a[HalfBytes + (j + 1)] <= b[HalfBytes + (j + 1)]
    OBVIOUS
  <2> DEFINE k == HalfBytes + j
             i == HashLen - (k + 1)
  <2>1. k \in Nat /\ k + 1 <= HashLen /\ i < HalfBytes /\ HalfBytes + (j + 1) = k + 1
    BY Sizes
  <2>2. /\ i \in Idx /\ h[i] \in Byte /\ t[i] \in Byte /\ a[k] \in Nat /\ b[k] \in Nat
        /\ a[k + 1] = Base * a[k] + h[i] /\ b[k + 1] = Base * b[k] + t[i]
    BY <2>1, ByteOf
  <2>3. h[i] <= t[i]
    <3> HIDE DEF i
    <3> QED BY <2>1, <2>2, Sizes
  <2>4. a[k] <= b[k]
    BY <1>2, Sizes
  <2> HIDE DEF a, b, i
  <2>5. a[k + 1] <= b[k + 1]
    BY <2>2, <2>3, <2>4, ByteBelow
  <2> QED BY <2>1, <2>5
<1>3. Nat \subseteq T
  <2> HIDE DEF T
  <2> QED BY <1>1, <1>2, SetInduction
<1>4. HashLen = HalfBytes + HalfBytes
  BY Sizes
<1>5. a[HalfBytes + HalfBytes] <= b[HalfBytes + HalfBytes]
  <2> HIDE DEF a, b
  <2> QED BY <1>3, Sizes
<1> QED BY <1>4, <1>5 DEF Value

-----------------------------------------------------------------------------
(* WorkTargets: the invariant. *)

\* A pool's job has the targets of its own bits and of the difficulty it was
\* made under.
TargetsInv ==
  /\ TypeOK
  /\ mode = "pool" => netTarget = CompactToHash(bits) /\ target = DifficultyToTarget(diff)

LEMMA TargetsInit == Init => TargetsInv
<1> SUFFICES ASSUME Init PROVE TargetsInv
  OBVIOUS
<1>1. InitialDifficulty \in Difficulties /\ InitialDifficulty.num > 0
  BY BoundsAssumption DEF InitialDifficulty, Difficulties
<1>2. ZeroBits \in Compact
  <2>1. Pow(Base, 3) \in Nat /\ 3 < Pow(Base, 3)
    BY Sizes, Weights, PowGrows
  <2>2. \A x \in Nat : 3 < x => 0 \in 0 .. (x \div 2) - 1
    <3> SUFFICES ASSUME NEW x \in Nat, 3 < x PROVE 0 \in 0 .. (x \div 2) - 1
      OBVIOUS
    <3>1. x \div 2 \in Nat /\ x % 2 \in 0 .. 1 /\ x = 2 * (x \div 2) + (x % 2)
      BY DivNat, ModRange, DivMod
    <3> QED BY <3>1
  <2>3. 0 \in 0 .. (Pow(Base, 3) \div 2) - 1
    BY <2>1, <2>2
  <2> QED BY <2>3, BoundsAssumption DEF ZeroBits, Compact
<1> QED BY <1>1, <1>2, DifficultyTargetType, CompactHashTypes
        DEF Init, TargetsInv, TypeOK

LEMMA TargetsStep == TargetsInv /\ [Next]_vars => TargetsInv'
<1> SUFFICES ASSUME TargetsInv, [Next]_vars PROVE TargetsInv'
  OBVIOUS
<1> USE DEF TargetsInv, TypeOK
<1>1. CASE SetDifficulty
  BY <1>1 DEF SetDifficulty
<1>2. CASE Notify
  <2>1. PICK c \in Compact : bits' = c /\ netTarget' = CompactToHash(c)
    BY <1>2 DEF Notify
  <2> QED BY <1>2, <2>1, DifficultyTargetType, CompactHashTypes DEF Notify
<1>3. CASE Build
  <2>1. PICK c \in Compact : bits' = c /\ target' = CompactToHashBE(c)
    BY <1>3 DEF Build
  <2> QED BY <1>3, <2>1, CompactHashTypes DEF Build
<1>4. CASE UNCHANGED vars
  BY <1>4 DEF vars
<1> QED BY <1>1, <1>2, <1>3, <1>4 DEF Next

LEMMA TargetsInvariance == Spec => []TargetsInv
<1> QED BY TargetsInit, TargetsStep, PTL DEF Spec

\* Targets are hashes, byte for byte, for whatever bits and difficulty come in.
THEOREM TargetsTypeCorrect == Spec => []TypeOK
<1>1. TargetsInv => TypeOK
  BY DEF TargetsInv
<1> QED BY <1>1, TargetsInvariance, PTL

\* For a base and a size of hash of any value: stratum.CompactToHash writes the
\* bytes in the order in which Hash.LessOrEqual reads them, so that the hashes
\* taken for blocks are exactly those the network asks for.
THEOREM NetTargetIsExact == Spec => []NetTargetExact
<1>1. TargetsInv => NetTargetExact
  <2> SUFFICES ASSUME TargetsInv, mode = "pool", Fits(bits), NEW h \in Hashes
               PROVE  LessOrEqual(h, netTarget) <=> Value(h) <= CompactValue(bits)
    BY DEF NetTargetExact
  <2>1. netTarget = CompactToHash(bits) /\ bits \in Compact /\ netTarget \in Hashes
    BY DEF TargetsInv, TypeOK
  <2>2. Value(netTarget) = CompactValue(bits)
    BY <2>1, CompactHashValue
  <2> QED BY <2>1, <2>2, ComparesNumbers
<1> QED BY <1>1, TargetsInvariance, PTL

\* And DifficultyToTarget misses no share, although it writes the bytes of the
\* quotient without its leading zeros from the top of the hash.
THEOREM NoShareIsMissed == Spec => []NoShareMissed
<1>1. TargetsInv => NoShareMissed
  <2> SUFFICES ASSUME TargetsInv, mode = "pool", NEW h \in Hashes,
                      Value(h) \div Pow(Base, HalfBytes) <= High(diff)
               PROVE  LessOrEqual(h, target)
    BY DEF NoShareMissed
  <2>1. target = DifficultyToTarget(diff) /\ diff \in Difficulties /\ target \in Hashes
    BY DEF TargetsInv, TypeOK
  <2>2. HighBytes(h)[HalfBytes] <= High(diff)
    BY UpperHalf
  <2>3. High(diff) <= HighBytes(target)[HalfBytes]
    BY <2>1, TargetUpperHalf
  <2>4. /\ HighBytes(h)[HalfBytes] \in Nat /\ HighBytes(target)[HalfBytes] \in Nat
        /\ High(diff) \in Nat
    <3>1. HalfBytes \in 0 .. HashLen
      BY Sizes
    <3> QED BY <2>1, <3>1, HighBytesSteps, HighRange
  <2>5. HighBytes(h)[HalfBytes] <= HighBytes(target)[HalfBytes]
    BY <2>2, <2>3, <2>4
  <2>6. \A i \in Idx : i < HalfBytes => target[i] = Base - 1
    BY <2>1 DEF DifficultyToTarget
  <2>7. Value(h) <= Value(target)
    BY <2>1, <2>5, <2>6, FullLowerHalf
  <2> QED BY <2>1, <2>7, ComparesNumbers
<1> QED BY <1>1, TargetsInvariance, PTL
=============================================================================
