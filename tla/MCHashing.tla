----------------------------- MODULE MCHashing -----------------------------
(***************************************************************************)
(* The instance of the two modules that compute rather than interact:      *)
(* PowHash, what a hash is, and WorkTargets, what it has to meet.  They     *)
(* share no state, so a behaviour of the instance is one of either, and    *)
(* the other's variables keep their initial values.                        *)
(***************************************************************************)
EXTENDS PowHash, WorkTargets, Bitwise

CONSTANTS WordBits, RotateBits  \* 32 and 13

\* Constants of PowHash.  A compression function that lets every word of the
\* state and of the block count, and all of them in their places.
MCCompress(s, b) ==
  [w \in WordIdx |->
     (5 * s[w] + 3 * s[(w + 1) % NumWords] * b.left[w] + 7 * b.left[(w + 1) % NumWords]
        + b.right[w] * b.right[w] + 3 * b.right[(w + 1) % NumWords] + w + 1) % WordMod]

\* arxFillGeneric: v ^= k; v = v <<< RotateBits; v += the word.
MCArx(v, k) ==
  LET x == v ^^ (k % WordMod)
      up == 2 ^ RotateBits
      rotated == ((x * up) % WordMod) + (x \div 2 ^ (WordBits - RotateBits))
  IN  (rotated + v) % WordMod

MCIV       == [w \in WordIdx |-> (w + 1) % WordMod]
MCEndShort == [w \in WordIdx |-> IF w = 0 THEN WordMod \div 2 ELSE 0]
MCEndLong  == [left |-> MCEndShort, right |-> ZeroHash]
MCFronts   == {[left |-> MCIV, right |-> ZeroHash], [left |-> ZeroHash, right |-> MCIV]}
MCLastBlock(n)  == [left |-> [ZeroHash EXCEPT ![0] = n], right |-> MCEndShort]

\* The behaviours of PowHash, and those of WorkTargets, with the other at rest.
PowAtRest ==
  /\ pc = "idle" /\ hasher = "cpu" /\ ~useSHA
  /\ nonce = 0 /\ front.left = MCIV
TargetsAtRest == mode = "solo" /\ bits = ZeroBits

MCInit == Init /\ PowInit /\ (PowAtRest \/ TargetsAtRest)
MCNext ==
  \/ TargetsAtRest /\ PowNext /\ UNCHANGED vars
  \/ PowAtRest /\ Next /\ UNCHANGED powVars
MCSpec == MCInit /\ [][MCNext]_<<vars, powVars>>

\* The behaviours of PowHash alone.
MCPowSpec ==
  /\ Init /\ TargetsAtRest /\ PowInit
  /\ [][PowNext /\ UNCHANGED vars]_<<vars, powVars>>
=============================================================================
