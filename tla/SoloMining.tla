----------------------------- MODULE SoloMining -----------------------------
(***************************************************************************)
(* Mining for a node: the miner asks for the chain's tip and then for the  *)
(* block at its height (rpc/client.go), builds a template on it            *)
(* (builder.go), has the worker pool search for a nonce (WorkerPool),      *)
(* assembles the block with the nonce found and submits it.  The order of  *)
(* the calls is the one the functions' arguments and results require: their *)
(* caller is not in the repository.                                        *)
(*                                                                         *)
(* Blocks are numbered in the order the node learns of them.  A header     *)
(* serialized is the sequence of its fields in the order of their bytes.   *)
(***************************************************************************)
EXTENDS WorkerPool, Sequences

CONSTANTS Time(_),   \* a block's timestamp, at least 1
          Initial, Halving,  \* the chain's first subsidy, and the blocks between two halvings
          StartHeight, \* the height of the chain when the miner starts
          MaxBlocks, \* bound: the blocks the node learns of
          Nil

ASSUME TimeAssumption == \A b \in 1 .. MaxBlocks : Time(b) \in Nat \ {0}
ASSUME SubsidyAssumption == Initial \in Nat /\ Halving \in Nat \ {0}
ASSUME BlocksAssumption ==
  StartHeight \in Nat \ {0} /\ MaxBlocks \in Nat /\ MaxBlocks >= StartHeight

Blocks == 1 .. MaxBlocks

VARIABLES
  phase,    \* where the caller is
  chain,    \* the node's chain, by height
  learned,  \* the blocks the node has learned of are 1 .. learned
  info,     \* the answer to getblockchaininfo
  tip,      \* the answer to getblockbyheight, 0 for one without a block
  tmpl,     \* the template
  block,    \* what Assemble returns
  verdict,  \* what SubmitBlock returns
  torn      \* history: the last two answers do not belong together

callerVars == <<phase, info, tip, tmpl, block, verdict, torn>>
chainVars  == <<chain, learned>>
soloVars   == <<vars, callerVars, chainVars>>

-----------------------------------------------------------------------------
(* Package types, crypto and template. *)

Header(prev, merkle, time, bits, nonce) ==
  [version |-> 1, prev |-> prev, merkle |-> merkle, time |-> time, bits |-> bits, nonce |-> nonce]

\* SerializeToBytes and SerializeInto have the same layout.
Serialize(h) == <<h.version, h.prev, h.merkle, h.time, h.bits, h.nonce>>

\* A worker puts its nonce where the nonce is.
Stamp(bytes, nonce) == [bytes EXCEPT ![6] = nonce]

\* The root over one transaction is its hash; the header holds it reversed.
MerkleRoot(tx)   == [of |-> tx, reversed |-> FALSE]
ReversedRoot(tx) == [MerkleRoot(tx) EXCEPT !.reversed = TRUE]

\* HMAC under the key that is compiled in.
Sign(bytes) == [signed |-> bytes]

CalcSubsidy(height) ==
  IF height \div Halving >= 64 THEN 0 ELSE Initial \div 2 ^ (height \div Halving)

\* The first 8 bytes of the SHA-256 of devAddr, and what they are compared with:
\* little-endian words of 64 bits, here in groups of 16.
DevAddrDigest  == <<16349, 27585, 64353, 53342>>
ExpectedDigest == <<62051, 29699, 63861, 15519>>

EmptyTx == [inputs |-> <<>>, outputs |-> <<>>]

\* All to the developer in one minute of a hundred, all to anyone otherwise.
MakeCoinbaseTx(height, subsidy, isDevSlice) ==
  IF DevAddrDigest # ExpectedDigest THEN EmptyTx
  ELSE [inputs  |-> <<height>>,
        outputs |-> <<[value |-> subsidy, script |-> IF isDevSlice THEN "dev" ELSE "anyone"]>>]

Template(height, prev, bits, time, coinbase) ==
  LET bytes == Serialize(Header(prev, ReversedRoot(coinbase), time, bits, 0))
  IN  [height |-> height, prev |-> prev, bits |-> bits, time |-> time,
       merkle |-> ReversedRoot(coinbase), subsidy |-> CalcSubsidy(height),
       bytes |-> bytes, signature |-> Sign(bytes), txs |-> <<coinbase>>]

-----------------------------------------------------------------------------

SoloInit ==
  /\ Init
  /\ phase = "info"
  /\ learned = StartHeight
  /\ chain = [h \in 1 .. StartHeight |-> h]
  /\ info = Nil /\ tip = 0 /\ tmpl = Nil /\ block = Nil /\ verdict = Nil
  /\ torn = FALSE

(* The caller. *)

Keep(v) == UNCHANGED <<vars, v>>

\* GetBlockchainInfo; bits that are no number above 0 are 0.
GetInfo ==
  /\ phase = "info"
  /\ \E bits \in {0, 1} :
       info' = [height |-> Len(chain), best |-> chain[Len(chain)], bits |-> bits]
  /\ torn' = FALSE
  /\ phase' = "block"
  /\ Keep(<<tip, tmpl, block, verdict, chainVars>>)

\* Mutant: the parent is asked for as the newest block.
GetNewestBlock ==
  /\ phase = "block"
  /\ tip' \in {0, chain[Len(chain)]}
  /\ torn' = (torn \/ tip' = 0)
  /\ phase' = "build"
  /\ Keep(<<info, tmpl, block, verdict, chainVars>>)

\* GetBlockByHeight does not look at the status: an error that is a JSON object,
\* for a height that is not there or for any other reason, is a block of zeros.
GetBlock ==
  /\ phase = "block"
  /\ tip' \in {0} \cup {chain[h] : h \in {info.height} \cap DOMAIN chain}
  /\ torn' = (torn \/ tip' = 0)
  /\ phase' = "build"
  /\ Keep(<<info, tmpl, block, verdict, chainVars>>)

TipTime == IF tip = 0 THEN 0 ELSE Time(tip)

\* Build; bits of zero are an error, after which the caller asks again.  The tip
\* may have moved since it was asked for.
Build ==
  /\ phase = "build"
  /\ IF info.bits = 0
     THEN phase' = "info" /\ UNCHANGED <<tmpl, tipMoved>>
     ELSE /\ \E isDevSlice \in BOOLEAN :
               LET height == info.height + 1
               IN  tmpl' = Template(height, info.best, info.bits, TipTime + 1,
                             MakeCoinbaseTx(height, CalcSubsidy(height), isDevSlice))
          /\ tipMoved' = (tipMoved \/ info.best # chain[Len(chain)])
          /\ phase' = "mine"
  /\ info' = Nil /\ tip' = 0
  /\ UNCHANGED <<workerVars, chanVars, cancelled, detector, mineVars, winners, ctxDone,
                 block, verdict, torn, chainVars>>

\* Mutant: the workers put their nonces into the template's own header.
MineInPlace ==
  /\ phase \notin {"info", "block", "build"}
  /\ Next
  /\ tmpl' = [tmpl EXCEPT !.bytes = Stamp(@, pos'[0])]
  /\ UNCHANGED <<phase, info, tip, block, verdict, torn, chainVars>>

\* Mine runs; its detector may still be running when the caller goes on.
MineRuns ==
  /\ phase \notin {"info", "block", "build"}
  /\ Next
  /\ UNCHANGED <<callerVars, chainVars>>

\* Assemble panics when the signature is not the template's.
Assemble ==
  /\ phase = "mine" /\ mpc = "returned" /\ result # None
  /\ IF Sign(tmpl.bytes) # tmpl.signature
     THEN phase' = "panic" /\ UNCHANGED block
     ELSE /\ phase' = "submit"
          /\ block' = [header |-> Serialize(Header(tmpl.prev, tmpl.merkle, tmpl.time, tmpl.bits, result)),
                       txs |-> tmpl.txs]
  /\ Keep(<<info, tip, tmpl, verdict, torn, chainVars>>)

\* A round without a nonce ends there.
GiveUp ==
  /\ phase = "mine" /\ mpc = "returned" /\ result = None
  /\ phase' = "done"
  /\ Keep(<<info, tip, tmpl, block, verdict, torn, chainVars>>)

\* SubmitBlock: an answer that is lost counts as a rejection.
Submit ==
  /\ phase = "submit"
  /\ verdict' \in {"accepted", "rejected"}
  /\ phase' = "done"
  /\ Keep(<<info, tip, tmpl, block, torn, chainVars>>)

Caller == GetInfo \/ GetBlock \/ Build \/ Assemble \/ GiveUp \/ Submit

-----------------------------------------------------------------------------
(* The node: its chain changes at any time.  During the search TipMoves      *)
(* stands for it.                                                            *)

BeforeSearch == phase \in {"info", "block", "build"}

NodeMoves(newChain, replaced) ==
  /\ BeforeSearch /\ learned < MaxBlocks
  /\ learned' = learned + 1
  /\ chain' = newChain
  /\ torn' = (torn \/ (phase = "block" /\ replaced))
  /\ Keep(<<phase, info, tip, tmpl, block, verdict>>)

Extend == NodeMoves(Append(chain, learned + 1), FALSE)

\* Blocks at the top are replaced; the new chain may be the shorter one.
Reorg ==
  \E kept \in 1 .. Len(chain) - 1 :
    NodeMoves(Append(SubSeq(chain, 1, kept), learned + 1), TRUE)

SoloNext == Caller \/ MineRuns \/ Extend \/ Reorg

\* Goroutines that can run do, once the search is under way.  The ticker may
\* always win the detector's select.
Searching(A) == MineRuns /\ A
SoloFairness ==
  /\ \A w \in Workers : WF_soloVars(Searching(Worker(w)))
  /\ WF_soloVars(Searching(CloseResults))
  /\ WF_soloVars(Searching(Mine))
  /\ WF_soloVars(Searching(DetectorChecks))

SoloSpec == SoloInit /\ [][SoloNext]_soloVars /\ SoloFairness

-----------------------------------------------------------------------------
(* Properties. *)

Searches == ~BeforeSearch

SoloTypeOK ==
  /\ TypeOK
  /\ phase \in {"info", "block", "build", "mine", "submit", "done", "panic"}
  /\ learned \in Blocks /\ chain \in Seq(1 .. learned) /\ chain # <<>>
  /\ phase \in {"block", "build"} =>
       info.height \in Nat /\ info.best \in 1 .. learned /\ info.bits \in {0, 1}
  /\ tip \in {0} \cup 1 .. learned
  /\ Searches => /\ tmpl.height \in Nat /\ tmpl.prev \in Blocks
                 /\ tmpl.time \in Nat /\ tmpl.bits \in {1}
  /\ torn \in BOOLEAN

\* The header of the block that is submitted is, byte for byte, one that a worker
\* hashed and that won, although Assemble makes it from the template's fields and
\* the workers from the bytes written before; no worker's nonce gets into those
\* bytes, so that their signature is never refused.
SubmittedWins ==
  /\ phase # "panic"
  /\ phase = "submit" => \E nonce \in winners : block.header = Stamp(tmpl.bytes, nonce)

\* "Parent + 1" (builder.go): a template's timestamp is the one after that of the
\* block it names as its parent, although hash and timestamp come from two
\* answers, except after an error answer or a reorganization between the two.
TimestampFollowsParent ==
  Searches => tmpl.time = Time(tmpl.prev) + 1 \/ torn

\* A search that has begun ends, whatever the chain and the caller do.
SearchEnds == phase = "mine" ~> mpc = "returned"
=============================================================================
