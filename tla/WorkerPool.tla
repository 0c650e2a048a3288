----------------------------- MODULE WorkerPool -----------------------------
(***************************************************************************)
(* One call of Pool.Mine (pool.go): the nonce space of a block template is *)
(* split among workers, which stop at the first winning nonce, when the    *)
(* caller cancels, or when the stale-tip detector finds that the chain has *)
(* moved on; a closer closes the result channel after the last worker, and *)
(* the caller returns what it received from that channel.                  *)
(***************************************************************************)
EXTENDS Integers

CONSTANTS NumWorkers,  \* p.numWorkers, at least 1 (NewPool)
          NonceSpace   \* 0x100000000

ASSUME NumWorkersAssumption == NumWorkers \in Nat \ {0}
ASSUME NonceSpaceAssumption == NonceSpace \in Nat

Workers == 0 .. NumWorkers - 1
Nonces  == 0 .. NonceSpace - 1
None    == -1

\* Mutant: the remainder is nobody's.
EqualEndNonce(w) == (w + 1) * (NonceSpace \div NumWorkers)

\* The partition: equal ranges, and the last worker takes the remainder too.
RangeSize     == NonceSpace \div NumWorkers
StartNonce(w) == w * RangeSize
EndNonce(w)   == IF w = NumWorkers - 1 THEN NonceSpace ELSE StartNonce(w) + RangeSize

VARIABLES
  winners,    \* the nonces whose hash meets the template's target
  wpc,        \* wpc[w]: where worker w is
  pos,        \* pos[w]: the nonce it is at
  resultCh,   \* the nonce buffered in resultCh, None if it is empty
  closed,     \* resultCh is closed
  hashCount,  \* hashes done
  wins,       \* history: the winning nonces that workers have found
  cancelled,  \* mineCtx is done
  detector,   \* the stale-tip detector
  tipMoved,   \* the chain tip has changed
  ctxDone,    \* the caller's context is cancelled
  mpc,        \* Mine itself
  result      \* what it returns: the nonce, or None for Found = false

workerVars == <<wpc, pos, hashCount, wins>>
chanVars   == <<resultCh, closed>>
mineVars   == <<mpc, result>>
envVars    == <<winners, tipMoved, ctxDone>>
vars == <<workerVars, chanVars, cancelled, detector, mineVars, envVars>>

WorkerPcs == {"poll", "hash", "send", "cancel", "done"}

TypeOK ==
  /\ winners \in SUBSET Nonces
  /\ wpc \in [Workers -> WorkerPcs]
  /\ pos \in [Workers -> Nat]
  /\ resultCh \in Nonces \cup {None}
  /\ closed \in BOOLEAN
  /\ hashCount \in Nat
  /\ wins \in SUBSET Nonces
  /\ cancelled \in BOOLEAN
  /\ detector \in {"wait", "check", "done"}
  /\ tipMoved \in BOOLEAN
  /\ ctxDone \in BOOLEAN
  /\ mpc \in {"recv", "stop", "join", "returned"}
  /\ result \in Nonces \cup {None}

Init ==
  /\ winners \in SUBSET Nonces
  /\ wpc = [w \in Workers |-> "poll"]
  /\ pos = [w \in Workers |-> StartNonce(w)]
  /\ resultCh = None
  /\ closed = FALSE
  /\ hashCount = 0
  /\ wins = {}
  /\ cancelled = FALSE
  /\ detector = "wait"
  /\ tipMoved = FALSE
  /\ ctxDone = FALSE
  /\ mpc = "recv"
  /\ result = None

-----------------------------------------------------------------------------
(* A worker. *)

MoveTo(w, pc) == wpc' = [wpc EXCEPT ![w] = pc]

\* The head of the loop: the end of the range, or the cancellation, or a hash.
Poll(w) ==
  /\ wpc[w] = "poll"
  /\ MoveTo(w, IF pos[w] >= EndNonce(w) \/ cancelled THEN "done" ELSE "hash")
  /\ UNCHANGED <<pos, hashCount, wins, chanVars, cancelled, detector, mineVars, envVars>>

Hash(w) ==
  /\ wpc[w] = "hash"
  /\ hashCount' = hashCount + 1
  /\ \/ /\ pos[w] \in winners
        /\ MoveTo(w, "send")
        /\ wins' = wins \cup {pos[w]}
        /\ UNCHANGED pos
     \/ /\ pos[w] \notin winners
        /\ MoveTo(w, "poll")
        /\ pos' = [pos EXCEPT ![w] = @ + 1]
        /\ UNCHANGED wins
  /\ UNCHANGED <<chanVars, cancelled, detector, mineVars, envVars>>

\* Mutant: the nonce has been advanced when it is sent.
SendNext(w) ==
  /\ wpc[w] = "send"
  /\ MoveTo(w, "cancel")
  /\ resultCh' = IF resultCh = None THEN pos[w] + 1 ELSE resultCh
  /\ UNCHANGED <<pos, hashCount, wins, closed, cancelled, detector, mineVars, envVars>>

\* Mutant: a worker that is cancelled gives its result up.
SendUnlessCancelled(w) ==
  /\ wpc[w] = "send"
  /\ MoveTo(w, "cancel")
  /\ resultCh' = IF resultCh = None /\ ~cancelled THEN pos[w] ELSE resultCh
  /\ UNCHANGED <<pos, hashCount, wins, closed, cancelled, detector, mineVars, envVars>>

\* The send does not block: a second result is dropped while the first is there.
SendResult(w) ==
  /\ wpc[w] = "send"
  /\ MoveTo(w, "cancel")
  /\ resultCh' = IF resultCh = None THEN pos[w] ELSE resultCh
  /\ UNCHANGED <<pos, hashCount, wins, closed, cancelled, detector, mineVars, envVars>>

CancelOthers(w) ==
  /\ wpc[w] = "cancel"
  /\ MoveTo(w, "done")
  /\ cancelled' = TRUE
  /\ UNCHANGED <<pos, hashCount, wins, chanVars, detector, mineVars, envVars>>

Worker(w) == Poll(w) \/ Hash(w) \/ SendResult(w) \/ CancelOthers(w)

AllDone == \A w \in Workers : wpc[w] = "done"

-----------------------------------------------------------------------------
(* The other goroutines. *)

\* The detector wakes up: the context is done, or it is time to look.
DetectorWakes ==
  /\ detector = "wait"
  /\ \/ cancelled /\ detector' = "done"
     \/ detector' = "check"
  /\ UNCHANGED <<workerVars, chanVars, cancelled, mineVars, envVars>>

\* staleCheck returns.
DetectorChecks ==
  /\ detector = "check"
  /\ detector' = IF tipMoved THEN "done" ELSE "wait"
  /\ cancelled' = (cancelled \/ tipMoved)
  /\ UNCHANGED <<workerVars, chanVars, mineVars, envVars>>

\* Mutant: the closer waits for the cancellation too.
CloseWhenCancelled ==
  /\ ~closed /\ AllDone /\ cancelled
  /\ closed' = TRUE
  /\ UNCHANGED <<workerVars, resultCh, cancelled, detector, mineVars, envVars>>

\* The closer waits for the workers and closes the channel.
CloseResults ==
  /\ ~closed /\ AllDone
  /\ closed' = TRUE
  /\ UNCHANGED <<workerVars, resultCh, cancelled, detector, mineVars, envVars>>

\* Mine receives a result, or finds the channel closed and empty.
Receive ==
  /\ mpc = "recv"
  /\ resultCh # None \/ closed
  /\ result' = resultCh
  /\ resultCh' = None
  /\ mpc' = "stop"
  /\ UNCHANGED <<workerVars, closed, cancelled, detector, envVars>>

StopWorkers ==
  /\ mpc = "stop"
  /\ cancelled' = TRUE
  /\ mpc' = "join"
  /\ UNCHANGED <<workerVars, chanVars, detector, result, envVars>>

Return ==
  /\ mpc = "join" /\ AllDone
  /\ mpc' = "returned"
  /\ UNCHANGED <<workerVars, chanVars, cancelled, detector, result, envVars>>

Mine == Receive \/ StopWorkers \/ Return

-----------------------------------------------------------------------------
(* The caller and the chain. *)

CallerCancels ==
  /\ ~ctxDone
  /\ ctxDone' = TRUE
  /\ cancelled' = TRUE
  /\ UNCHANGED <<workerVars, chanVars, detector, mineVars, winners, tipMoved>>

TipMoves ==
  /\ ~tipMoved
  /\ tipMoved' = TRUE
  /\ UNCHANGED <<workerVars, chanVars, cancelled, detector, mineVars, winners, ctxDone>>

Terminated ==
  /\ mpc = "returned" /\ closed /\ detector = "done"
  /\ UNCHANGED vars

Next ==
  \/ \E w \in Workers : Worker(w)
  \/ DetectorWakes \/ DetectorChecks
  \/ CloseResults
  \/ Mine
  \/ CallerCancels \/ TipMoves
  \/ Terminated

Spec == Init /\ [][Next]_vars

-----------------------------------------------------------------------------
(* Safety. *)

\* Mine says it found a nonce only if that nonce wins.
FoundWins == mpc = "returned" /\ result # None => result \in winners

\* Mine says that it found nothing only if it was interrupted, or if no nonce
\* of the whole space wins: no nonce falls between the workers' ranges.
NothingMissed ==
  mpc = "returned" /\ result = None => ctxDone \/ tipMoved \/ winners = {}

\* A win is never lost: if any worker found a winning nonce, Mine returns one
\* that was found, however a cancellation, the closer or a second win come in
\* between.
WinIsReturned ==
  mpc = "returned" => IF wins = {} THEN result = None ELSE result \in wins

\* When Mine returns, no worker uses the template any more.
WorkersStopped == mpc = "returned" => AllDone
=============================================================================
