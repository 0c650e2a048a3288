-------------------------- MODULE WorkerPool_proofs --------------------------
(***************************************************************************)
(* Proofs about WorkerPool: the partition of the nonce space is disjoint   *)
(* and complete, and what Mine returns can be relied on, for any number of *)
(* workers and any nonce space; and about SoloMining: it implements        *)
(* WorkerPool, whose results carry over, and its templates and blocks are  *)
(* what they should be, for any chain.                                     *)
(***************************************************************************)
EXTENDS SoloMining, NatFacts, TLAPS

-----------------------------------------------------------------------------
(* The partition. *)

\* Ranges begin at naturals.
LEMMA RangeTypes ==
  /\ RangeSize \in Nat
  /\ \A w \in Workers : w \in Nat /\ StartNonce(w) \in Nat /\ EndNonce(w) \in Nat
  <1>1. RangeSize \in Nat
    BY DivNat, NumWorkersAssumption, NonceSpaceAssumption DEF RangeSize
  <1>2. ASSUME NEW w \in Workers
        PROVE  w \in Nat /\ StartNonce(w) \in Nat /\ EndNonce(w) \in Nat
    <2>1. w \in Nat
      BY NumWorkersAssumption DEF Workers
    <2>2. StartNonce(w) \in Nat
      BY <1>1, <2>1, MulNat DEF StartNonce
    <2> QED BY <1>1, <2>1, <2>2, NonceSpaceAssumption DEF EndNonce
  <1> QED BY <1>1, <1>2

\* The ranges of all workers but the last, taken together, fit.
LEMMA RangesFit == NumWorkers * RangeSize <= NonceSpace
  <1>1. NonceSpace = NumWorkers * RangeSize + (NonceSpace % NumWorkers)
    BY DivMod, NumWorkersAssumption, NonceSpaceAssumption DEF RangeSize
  <1>2. NonceSpace % NumWorkers \in Nat
    BY ModRange, NumWorkersAssumption, NonceSpaceAssumption
  <1>3. NumWorkers * RangeSize \in Nat
    BY MulNat, RangeTypes, NumWorkersAssumption
  <1> QED BY <1>1, <1>2, <1>3, NonceSpaceAssumption

\* A worker's range ends where a later worker's begins, or before.
LEMMA RangesInOrder ==
  ASSUME NEW u \in Nat, NEW w \in Nat, u < w
  PROVE  u * RangeSize + RangeSize <= w * RangeSize
  <1>1. RangeSize * u + RangeSize <= RangeSize * w
    BY MulGap, RangeTypes
  <1>2. RangeSize * u = u * RangeSize /\ RangeSize * w = w * RangeSize
    BY RangeTypes, Z3
  <1> QED BY <1>1, <1>2

\* No nonce is given to two workers.
THEOREM PartitionDisjoint ==
  \A u, w \in Workers : u < w => EndNonce(u) <= StartNonce(w)
  <1> SUFFICES ASSUME NEW u \in Workers, NEW w \in Workers, u < w
               PROVE  EndNonce(u) <= StartNonce(w)
    OBVIOUS
  <1>1. u \in Nat /\ w \in Nat /\ w <= NumWorkers - 1
    BY RangeTypes, NumWorkersAssumption DEF Workers
  <1>2. u # NumWorkers - 1
    BY <1>1, NumWorkersAssumption
  <1>3. u * RangeSize + RangeSize <= w * RangeSize
    BY <1>1, RangesInOrder
  <1> QED BY <1>2, <1>3 DEF EndNonce, StartNonce

\* Every nonce is given to a worker, whatever the remainder of the division.
THEOREM PartitionComplete ==
  \A n \in Nonces : \E w \in Workers : StartNonce(w) <= n /\ n < EndNonce(w)
  <1> SUFFICES ASSUME NEW n \in Nonces
               PROVE  \E w \in Workers : StartNonce(w) <= n /\ n < EndNonce(w)
    OBVIOUS
  <1> DEFINE last == NumWorkers - 1
  <1>0. /\ n \in Nat /\ n < NonceSpace
        /\ last \in Workers /\ last \in Nat /\ last + 1 = NumWorkers
        /\ RangeSize \in Nat
    BY RangeTypes, NumWorkersAssumption, NonceSpaceAssumption DEF Nonces, Workers
  <1>1. CASE StartNonce(last) <= n
    BY <1>0, <1>1 DEF EndNonce
  <1>2. CASE ~(StartNonce(last) <= n)
    <2>1. n < last * RangeSize /\ last * RangeSize \in Nat
      BY <1>0, <1>2, MulNat DEF StartNonce
    <2>2. RangeSize # 0
      <3> SUFFICES ASSUME RangeSize = 0 PROVE FALSE
        OBVIOUS
      <3>1. last * RangeSize = 0
        BY <1>0, Z3
      <3> QED BY <2>1, <3>1, <1>0
    <2> DEFINE w == n \div RangeSize
    <2>3. /\ w \in Nat
          /\ n = RangeSize * w + (n % RangeSize)
          /\ n % RangeSize \in 0 .. RangeSize - 1
      BY <1>0, <2>2, DivNat, DivMod, ModRange
    <2> HIDE DEF w
    <2>4. RangeSize * w = w * RangeSize /\ w * RangeSize \in Nat
      BY <1>0, <2>3, MulNat, Z3
    <2>5. w * RangeSize <= n /\ n < w * RangeSize + RangeSize
      BY <1>0, <2>3, <2>4
    <2>6. w < last
      <3>1. CASE w = last
        BY <2>1, <2>5, <3>1, <1>0
      <3>2. CASE last < w
        <4>1. last * RangeSize + RangeSize <= w * RangeSize
          BY <1>0, <2>3, <3>2, RangesInOrder
        <4> QED BY <4>1, <2>1, <2>4, <2>5, <1>0
      <3> QED BY <3>1, <3>2, <1>0, <2>3
    <2>7. w \in Workers /\ w # NumWorkers - 1
      BY <2>3, <2>6, <1>0, NumWorkersAssumption DEF Workers
    <2> QED BY <2>5, <2>7 DEF StartNonce, EndNonce
  <1> QED BY <1>1, <1>2

\* No range reaches beyond the nonce space.
LEMMA EndInSpace == \A w \in Workers : EndNonce(w) <= NonceSpace
  <1> SUFFICES ASSUME NEW w \in Workers PROVE EndNonce(w) <= NonceSpace
    OBVIOUS
  <1>1. w \in Nat /\ w < NumWorkers /\ NumWorkers \in Nat
    BY RangeTypes, NumWorkersAssumption DEF Workers
  <1>2. w * RangeSize + RangeSize <= NumWorkers * RangeSize
    BY <1>1, RangesInOrder
  <1>3. w * RangeSize \in Nat /\ NumWorkers * RangeSize \in Nat /\ RangeSize \in Nat
    BY <1>1, MulNat, RangeTypes
  <1> QED BY <1>2, <1>3, RangesFit, NonceSpaceAssumption DEF EndNonce, StartNonce

-----------------------------------------------------------------------------
(* The inductive invariant. *)

\* Where each worker is: what it has passed does not win, it hashes inside its
\* range, it reports only a win, and it stopped early only for a reason.
WorkerInv(w) ==
  /\ \A n \in Nonces : StartNonce(w) <= n /\ n < pos[w] => n \notin winners
  /\ wpc[w] \in {"hash", "send", "cancel"} => pos[w] < EndNonce(w)
  /\ wpc[w] \in {"send", "cancel"} => pos[w] \in wins
  /\ wpc[w] = "done" /\ pos[w] < EndNonce(w)
       => ctxDone \/ tipMoved \/ wins # {}

\* mineCtx is done only for a reason.
CancelInv ==
  cancelled => ctxDone \/ tipMoved \/ wins # {} \/ mpc \in {"join", "returned"}

\* A win is on its way to the channel, in it, or received.
ResultInv ==
  /\ wins \subseteq winners
  /\ resultCh # None => resultCh \in wins
  /\ result # None => result \in wins
  /\ wins # {} =>
       result # None \/ resultCh # None \/ \E w \in Workers : wpc[w] = "send"
  /\ mpc = "recv" => result = None

\* Mine goes on without a result only after the last worker.
EndInv ==
  /\ closed => AllDone
  /\ mpc # "recv" /\ result = None => AllDone /\ wins = {}
  /\ mpc = "returned" => AllDone

IInv ==
  /\ TypeOK
  /\ \A w \in Workers : WorkerInv(w)
  /\ CancelInv
  /\ ResultInv
  /\ EndInv

-----------------------------------------------------------------------------
(* Each step preserves the invariant. *)

\* A worker that is not moved keeps its part of the invariant: the reasons for
\* an early stop do not go away.
LEMMA WorkerInvStays ==
  ASSUME NEW v \in Workers, WorkerInv(v), wpc'[v] = wpc[v], pos'[v] = pos[v],
         winners' = winners, wins \subseteq wins',
         ctxDone => ctxDone', tipMoved => tipMoved'
  PROVE  WorkerInv(v)'
  BY DEF WorkerInv

\* A nonce that a worker holds lies in the nonce space.
LEMMA PosInSpace ==
  ASSUME TypeOK, NEW w \in Workers, pos[w] < EndNonce(w)
  PROVE  pos[w] \in Nonces
  <1>1. pos[w] \in Nat /\ EndNonce(w) \in Nat /\ EndNonce(w) <= NonceSpace
    BY EndInSpace, RangeTypes DEF TypeOK
  <1> QED BY <1>1, NonceSpaceAssumption DEF Nonces

\* A worker that looks at its range and at mineCtx.
LEMMA PollStep ==
  ASSUME IInv, NEW w \in Workers, Poll(w)
  PROVE  IInv'
  <1> USE DEF workerVars, chanVars, mineVars, envVars
  <1>t. wpc \in [Workers -> WorkerPcs] /\ pos \in [Workers -> Nat]
    BY DEF IInv, TypeOK
  <1>1. PICK pc \in {"done", "hash"} :
          /\ wpc' = [wpc EXCEPT ![w] = pc]
          /\ pc = "hash" => pos[w] < EndNonce(w)
          /\ pc = "done" => pos[w] >= EndNonce(w) \/ cancelled
    <2>1. pos[w] \in Nat /\ EndNonce(w) \in Nat
      BY <1>t, RangeTypes
    <2>2. CASE pos[w] >= EndNonce(w) \/ cancelled
      <3>1. wpc' = [wpc EXCEPT ![w] = "done"]
        BY <2>2 DEF Poll, MoveTo
      <3> QED BY <2>2, <3>1
    <2>3. CASE ~(pos[w] >= EndNonce(w) \/ cancelled)
      <3>1. wpc' = [wpc EXCEPT ![w] = "hash"]
        BY <2>3 DEF Poll, MoveTo
      <3>2. pos[w] < EndNonce(w)
        BY <2>1, <2>3
      <3> QED BY <3>1, <3>2
    <2> QED BY <2>2, <2>3
  <1>2. UNCHANGED <<pos, hashCount, wins, chanVars, cancelled, detector, mineVars, envVars>>
    BY DEF Poll
  <1>3. wpc[w] = "poll" /\ wpc'[w] = pc /\ \A v \in Workers : v # w => wpc'[v] = wpc[v]
    BY <1>1, <1>t DEF Poll
  <1>4. TypeOK'
    BY <1>1, <1>2 DEF IInv, TypeOK, WorkerPcs
  <1>5. ~AllDone /\ mpc # "returned" /\ (mpc # "recv" => result # None)
    BY <1>3 DEF AllDone, IInv, EndInv
  <1>6. ASSUME NEW v \in Workers PROVE WorkerInv(v)'
    <2>1. CASE v # w
      BY <1>2, <1>3, <2>1, WorkerInvStays DEF IInv
    <2>2. CASE v = w
      <3>1. cancelled => ctxDone \/ tipMoved \/ wins # {}
        BY <1>5 DEF IInv, CancelInv, ResultInv
      <3>2. EndNonce(w) \in Nat /\ pos[w] \in Nat
        BY <1>t, RangeTypes
      <3>3. /\ pc = "hash" => pos[w] < EndNonce(w)
            /\ pc = "done" /\ pos[w] < EndNonce(w) => ctxDone \/ tipMoved \/ wins # {}
        BY <1>1, <3>1, <3>2
      <3> QED BY <1>2, <1>3, <2>2, <3>3 DEF IInv, WorkerInv
    <2> QED BY <2>1, <2>2
  <1>7. CancelInv' /\ EndInv'
    BY <1>2, <1>5 DEF IInv, CancelInv, EndInv
  <1>8. ResultInv'
    BY <1>2, <1>3 DEF IInv, ResultInv
  <1> QED BY <1>4, <1>6, <1>7, <1>8 DEF IInv

\* A worker that hashes.
LEMMA HashStep ==
  ASSUME IInv, NEW w \in Workers, Hash(w)
  PROVE  IInv'
  <1> USE DEF workerVars, chanVars, mineVars, envVars
  <1>t. /\ wpc \in [Workers -> WorkerPcs] /\ pos \in [Workers -> Nat]
        /\ hashCount \in Nat /\ pos[w] \in Nat
    BY DEF IInv, TypeOK
  <1>1. /\ wpc[w] = "hash" /\ hashCount' = hashCount + 1
        /\ UNCHANGED <<chanVars, cancelled, detector, mineVars, envVars>>
    BY DEF Hash
  <1>2. pos[w] < EndNonce(w) /\ pos[w] \in Nonces
    BY <1>1, PosInSpace DEF IInv, WorkerInv
  <1>3. ~AllDone /\ mpc # "returned" /\ (mpc # "recv" => result # None)
    BY <1>1 DEF AllDone, IInv, EndInv
  <1>4. CASE pos[w] \in winners
    <2>1. wpc' = [wpc EXCEPT ![w] = "send"] /\ wins' = wins \cup {pos[w]} /\ pos' = pos
      BY <1>4 DEF Hash, MoveTo
    <2>2. wpc'[w] = "send" /\ \A v \in Workers : v # w => wpc'[v] = wpc[v]
      BY <2>1, <1>t
    <2>3. TypeOK'
      BY <1>1, <1>2, <1>t, <2>1 DEF IInv, TypeOK, WorkerPcs
    <2>4. ASSUME NEW v \in Workers PROVE WorkerInv(v)'
      <3>1. CASE v # w
        BY <1>1, <2>1, <2>2, <3>1, WorkerInvStays DEF IInv
      <3>2. CASE v = w
        BY <1>1, <1>2, <2>1, <2>2, <3>2 DEF IInv, WorkerInv
      <3> QED BY <3>1, <3>2
    <2>5. CancelInv' /\ EndInv'
      BY <1>1, <1>3, <2>1 DEF IInv, CancelInv, EndInv
    <2>6. ResultInv'
      BY <1>1, <1>4, <2>1, <2>2 DEF IInv, ResultInv
    <2> QED BY <2>3, <2>4, <2>5, <2>6 DEF IInv
  <1>5. CASE pos[w] \notin winners
    <2>1. wpc' = [wpc EXCEPT ![w] = "poll"] /\ wins' = wins /\ pos' = [pos EXCEPT ![w] = @ + 1]
      BY <1>5 DEF Hash, MoveTo
    <2>2. /\ wpc'[w] = "poll" /\ pos'[w] = pos[w] + 1
          /\ \A v \in Workers : v # w => wpc'[v] = wpc[v] /\ pos'[v] = pos[v]
      BY <2>1, <1>t
    <2>3. TypeOK'
      <3>1. pos' \in [Workers -> Nat] /\ wpc' \in [Workers -> WorkerPcs]
        BY <2>1, <1>t DEF WorkerPcs
      <3> QED BY <1>1, <1>t, <2>1, <3>1 DEF IInv, TypeOK
    <2>4. ASSUME NEW v \in Workers PROVE WorkerInv(v)'
      <3>1. CASE v # w
        BY <1>1, <2>1, <2>2, <3>1, WorkerInvStays DEF IInv
      <3>2. CASE v = w
        <4>1. \A n \in Nonces : n < pos[w] + 1 => n < pos[w] \/ n = pos[w]
          BY <1>t DEF Nonces
        <4>2. \A n \in Nonces : StartNonce(w) <= n /\ n < pos[w] => n \notin winners
          BY DEF IInv, WorkerInv
        <4> QED BY <1>1, <1>5, <2>2, <3>2, <4>1, <4>2 DEF WorkerInv
      <3> QED BY <3>1, <3>2
    <2>5. CancelInv' /\ EndInv'
      BY <1>1, <1>3, <2>1 DEF IInv, CancelInv, EndInv
    <2>6. ResultInv'
      BY <1>1, <2>1, <2>2 DEF IInv, ResultInv
    <2> QED BY <2>3, <2>4, <2>5, <2>6 DEF IInv
  <1> QED BY <1>4, <1>5

\* A worker that offers its result.
LEMMA SendStep ==
  ASSUME IInv, NEW w \in Workers, SendResult(w)
  PROVE  IInv'
  <1> USE DEF workerVars, chanVars, mineVars, envVars
  <1>t. wpc \in [Workers -> WorkerPcs] /\ pos \in [Workers -> Nat]
    BY DEF IInv, TypeOK
  <1>1. /\ wpc[w] = "send" /\ wpc' = [wpc EXCEPT ![w] = "cancel"]
        /\ resultCh' = IF resultCh = None THEN pos[w] ELSE resultCh
        /\ UNCHANGED <<pos, hashCount, wins, closed, cancelled, detector, mineVars, envVars>>
    BY DEF SendResult, MoveTo
  <1>2. pos[w] < EndNonce(w) /\ pos[w] \in wins /\ pos[w] \in Nonces
    BY <1>1, PosInSpace DEF IInv, WorkerInv
  <1>3. wpc'[w] = "cancel" /\ \A v \in Workers : v # w => wpc'[v] = wpc[v]
    BY <1>1, <1>t
  <1>4. ~AllDone
    BY <1>1 DEF AllDone
  <1>5. resultCh' \in wins /\ resultCh' # None /\ resultCh' \in Nonces
    <2>1. resultCh # None => resultCh \in wins
      BY DEF IInv, ResultInv
    <2>2. resultCh' \in wins
      BY <1>1, <1>2, <2>1
    <2>3. wins \subseteq Nonces
      BY DEF IInv, TypeOK
    <2> QED BY <2>2, <2>3 DEF Nonces, None
  <1>6. TypeOK'
    BY <1>1, <1>5 DEF IInv, TypeOK, WorkerPcs
  <1>7. ASSUME NEW v \in Workers PROVE WorkerInv(v)'
    <2>1. CASE v # w
      BY <1>1, <1>3, <2>1, WorkerInvStays DEF IInv
    <2>2. CASE v = w
      BY <1>1, <1>2, <1>3, <2>2 DEF IInv, WorkerInv
    <2> QED BY <2>1, <2>2
  <1>8. CancelInv' /\ EndInv'
    BY <1>1, <1>4 DEF IInv, CancelInv, EndInv
  <1>9. ResultInv'
    BY <1>1, <1>5 DEF IInv, ResultInv
  <1> QED BY <1>6, <1>7, <1>8, <1>9 DEF IInv

\* A worker that stops the others.
LEMMA CancelStep ==
  ASSUME IInv, NEW w \in Workers, CancelOthers(w)
  PROVE  IInv'
  <1> USE DEF workerVars, chanVars, mineVars, envVars
  <1>t. wpc \in [Workers -> WorkerPcs]
    BY DEF IInv, TypeOK
  <1>1. /\ wpc[w] = "cancel" /\ wpc' = [wpc EXCEPT ![w] = "done"] /\ cancelled' = TRUE
        /\ UNCHANGED <<pos, hashCount, wins, chanVars, detector, mineVars, envVars>>
    BY DEF CancelOthers, MoveTo
  <1>2. wpc'[w] = "done" /\ \A v \in Workers : v # w => wpc'[v] = wpc[v]
    BY <1>1, <1>t
  <1>3. wins # {} /\ ~AllDone
    BY <1>1 DEF IInv, WorkerInv, AllDone
  <1>4. TypeOK'
    BY <1>1 DEF IInv, TypeOK, WorkerPcs
  <1>5. ASSUME NEW v \in Workers PROVE WorkerInv(v)'
    <2>1. CASE v # w
      BY <1>1, <1>2, <2>1, WorkerInvStays DEF IInv
    <2>2. CASE v = w
      BY <1>1, <1>2, <1>3, <2>2 DEF IInv, WorkerInv
    <2> QED BY <2>1, <2>2
  <1>6. CancelInv' /\ EndInv'
    BY <1>1, <1>3 DEF IInv, CancelInv, EndInv
  <1>7. ResultInv'
    BY <1>1, <1>2 DEF IInv, ResultInv
  <1> QED BY <1>4, <1>5, <1>6, <1>7 DEF IInv

\* Steps that leave the workers alone.
LEMMA OtherStep ==
  ASSUME IInv,
         \/ DetectorWakes \/ DetectorChecks \/ CloseResults
         \/ Mine \/ CallerCancels \/ TipMoves \/ UNCHANGED vars
  PROVE  IInv'
  <1> USE DEF workerVars, chanVars, mineVars, envVars
  <1>1. /\ UNCHANGED <<wpc, pos, hashCount, wins, winners>>
        /\ ctxDone => ctxDone'
        /\ tipMoved => tipMoved'
    BY DEF DetectorWakes, DetectorChecks, CloseResults, Mine, Receive, StopWorkers, Return,
           CallerCancels, TipMoves, vars, IInv, TypeOK
  <1>2. TypeOK'
    BY DEF IInv, TypeOK, DetectorWakes, DetectorChecks, CloseResults, Mine, Receive,
           StopWorkers, Return, CallerCancels, TipMoves, vars
  <1>3. \A v \in Workers : WorkerInv(v)'
    BY <1>1, WorkerInvStays DEF IInv
  <1>4. CancelInv'
    BY DEF IInv, TypeOK, CancelInv, EndInv, DetectorWakes, DetectorChecks, CloseResults, Mine,
           Receive, StopWorkers, Return, CallerCancels, TipMoves, vars
  <1>5. AllDone' = AllDone
    BY <1>1 DEF AllDone
  <1>6. CASE Receive
    <2>1. /\ mpc = "recv" /\ (resultCh # None \/ closed) /\ result' = resultCh
          /\ resultCh' = None /\ mpc' = "stop" /\ closed' = closed
      BY <1>6 DEF Receive
    <2>2. result = None /\ (resultCh # None => resultCh \in wins)
      BY <2>1 DEF IInv, ResultInv
    <2>3. resultCh = None => AllDone /\ wins = {}
      <3> SUFFICES ASSUME resultCh = None PROVE AllDone /\ wins = {}
        OBVIOUS
      <3>1. AllDone
        BY <2>1 DEF IInv, EndInv
      <3>2. ~ \E w \in Workers : wpc[w] = "send"
        BY <3>1 DEF AllDone
      <3> QED BY <2>2, <3>1, <3>2 DEF IInv, ResultInv
    <2>4. ResultInv'
      BY <1>1, <2>1, <2>2, <2>3 DEF IInv, ResultInv
    <2>5. EndInv'
      BY <1>1, <1>5, <2>1, <2>3 DEF IInv, EndInv
    <2> QED BY <1>2, <1>3, <1>4, <2>4, <2>5 DEF IInv
  <1>7. CASE ~Receive
    <2>1. ResultInv'
      BY <1>1, <1>7
         DEF IInv, ResultInv, DetectorWakes, DetectorChecks, CloseResults, Mine, StopWorkers,
             Return, CallerCancels, TipMoves, vars
    <2>2. EndInv'
      BY <1>1, <1>5, <1>7
         DEF IInv, EndInv, DetectorWakes, DetectorChecks, CloseResults, Mine, StopWorkers,
             Return, CallerCancels, TipMoves, vars
    <2> QED BY <1>2, <1>3, <1>4, <2>1, <2>2 DEF IInv
  <1> QED BY <1>6, <1>7

\* The inductive invariant holds at first.
LEMMA InvInit == Init => IInv
  <1> SUFFICES ASSUME Init PROVE IInv
    OBVIOUS
  <1>1. pos \in [Workers -> Nat] /\ \A w \in Workers : pos[w] = StartNonce(w)
    BY RangeTypes DEF Init
  <1>2. TypeOK
    BY <1>1 DEF Init, TypeOK, WorkerPcs
  <1>3. ASSUME NEW w \in Workers PROVE WorkerInv(w)
    <2>1. StartNonce(w) \in Nat /\ \A n \in Nonces : n \in Int
      BY RangeTypes, NonceSpaceAssumption DEF Nonces
    <2>2. wpc[w] = "poll" /\ pos[w] = StartNonce(w)
      BY <1>1 DEF Init
    <2> QED BY <2>1, <2>2 DEF WorkerInv
  <1>4. CancelInv /\ ResultInv /\ EndInv
    BY DEF Init, CancelInv, ResultInv, EndInv
  <1> QED BY <1>2, <1>3, <1>4 DEF IInv

\* Every step preserves the inductive invariant.
LEMMA InvStep == IInv /\ [Next]_vars => IInv'
  <1> SUFFICES ASSUME IInv, [Next]_vars PROVE IInv'
    OBVIOUS
  <1>1. ASSUME NEW w \in Workers, Worker(w) PROVE IInv'
    BY <1>1, PollStep, HashStep, SendStep, CancelStep DEF Worker
  <1>2. CASE \/ DetectorWakes \/ DetectorChecks \/ CloseResults
             \/ Mine \/ CallerCancels \/ TipMoves \/ UNCHANGED vars
    BY <1>2, OtherStep
  <1> QED BY <1>1, <1>2 DEF Next, Terminated

\* The inductive invariant holds in every reachable state.
THEOREM Invariance == Spec => []IInv
  <1>1. Init => IInv
    BY InvInit
  <1>2. IInv /\ [Next]_vars => IInv'
    BY InvStep
  <1> QED BY <1>1, <1>2, PTL DEF Spec

-----------------------------------------------------------------------------
(* What Mine promises. *)

\* A nonce that Mine returns wins.
THEOREM MineIsSound == Spec => []FoundWins
  <1>1. IInv => FoundWins
    BY DEF IInv, ResultInv, FoundWins
  <1> QED BY <1>1, Invariance, PTL

\* A win that a worker found is not lost.
THEOREM MineLosesNoWin == Spec => []WinIsReturned
  <1>1. IInv => WinIsReturned
    BY DEF IInv, ResultInv, EndInv, WinIsReturned
  <1> QED BY <1>1, Invariance, PTL

\* When Mine returns nothing without having been interrupted, no nonce wins.
THEOREM MineIsComplete == Spec => []NothingMissed
  <1>1. IInv => NothingMissed
    <2> SUFFICES ASSUME IInv, mpc = "returned", result = None, ~ctxDone, ~tipMoved
                 PROVE  winners = {}
      BY DEF NothingMissed
    <2>1. AllDone /\ wins = {}
      BY DEF IInv, EndInv
    <2>2. \A w \in Workers : ~(pos[w] < EndNonce(w))
      BY <2>1 DEF IInv, WorkerInv, AllDone
    <2>3. ASSUME NEW n \in Nonces PROVE n \notin winners
      <3>1. PICK w \in Workers : StartNonce(w) <= n /\ n < EndNonce(w)
        BY PartitionComplete
      <3>2. n < pos[w]
        <4>1. pos[w] \in Nat /\ EndNonce(w) \in Nat /\ n \in Int
          BY RangeTypes, NonceSpaceAssumption DEF IInv, TypeOK, Nonces
        <4> QED BY <2>2, <3>1, <4>1
      <3> QED BY <3>1, <3>2 DEF IInv, WorkerInv
    <2> QED BY <2>3 DEF IInv, TypeOK
  <1> QED BY <1>1, Invariance, PTL

\* No worker outlives the call.
THEOREM MineJoinsWorkers == Spec => []WorkersStopped
  <1>1. IInv => WorkersStopped
    BY DEF IInv, EndInv, WorkersStopped
  <1> QED BY <1>1, Invariance, PTL

-----------------------------------------------------------------------------
(* SoloMining. *)

\* To the pool a step of the miner is a step of its own, or a tip that moved.
LEMMA SoloStepIsPools == IInv /\ [SoloNext]_soloVars => [Next]_vars
  <1> SUFFICES ASSUME IInv, [SoloNext]_soloVars PROVE [Next]_vars
    OBVIOUS
  <1> USE DEF envVars, vars
  <1>1. CASE Build
    <2>1. UNCHANGED <<workerVars, chanVars, cancelled, detector, mineVars, winners, ctxDone>>
      BY <1>1 DEF Build
    <2>2. tipMoved' = tipMoved \/ (~tipMoved /\ tipMoved' = TRUE)
      BY <1>1 DEF Build, IInv, TypeOK
    <2> QED BY <2>1, <2>2 DEF Next, TipMoves
  <1>2. CASE MineRuns
    BY <1>2 DEF MineRuns
  <1>3. CASE \/ GetInfo \/ GetBlock \/ Assemble \/ GiveUp \/ Submit
             \/ Extend \/ Reorg \/ UNCHANGED soloVars
    BY <1>3 DEF GetInfo, GetBlock, Assemble, GiveUp, Submit, Extend, Reorg, NodeMoves, Keep,
                soloVars
  <1> QED BY <1>1, <1>2, <1>3 DEF SoloNext, Caller

\* The pool's inductive invariant holds in SoloMining.
LEMMA SoloPoolInv == SoloSpec => []IInv
  <1>1. SoloInit => IInv
    BY InvInit DEF SoloInit
  <1>2. IInv /\ [SoloNext]_soloVars => IInv'
    BY SoloStepIsPools, InvStep
  <1> QED BY <1>1, <1>2, PTL DEF SoloSpec

\* Mining for a node implements WorkerPool: what it promises holds whatever the
\* node and the caller do.
THEOREM SoloImplementsPool == SoloSpec => Spec
  <1>1. SoloInit => Init
    BY DEF SoloInit
  <1>2. IInv /\ [SoloNext]_soloVars => [Next]_vars
    BY SoloStepIsPools
  <1> QED BY <1>1, <1>2, SoloPoolInv, PTL DEF SoloSpec, Spec

\* So whatever node and caller do, Mine loses no win and misses none.
THEOREM SoloLosesNoWin == SoloSpec => []WinIsReturned
  BY SoloImplementsPool, MineLosesNoWin, PTL

THEOREM SoloIsComplete == SoloSpec => []NothingMissed
  BY SoloImplementsPool, MineIsComplete, PTL

\* The template is signed as its header was written, and the block submitted is
\* the template's.
TemplateInv ==
  /\ phase # "panic"
  /\ Searches =>
       /\ tmpl.bytes = Serialize(Header(tmpl.prev, tmpl.merkle, tmpl.time, tmpl.bits, 0))
       /\ tmpl.signature = Sign(tmpl.bytes)
  /\ phase = "submit" =>
       \E nonce \in winners :
         block.header = Serialize(Header(tmpl.prev, tmpl.merkle, tmpl.time, tmpl.bits, nonce))

\* Every step keeps the template and the block what they are.
LEMMA TemplateStep == IInv /\ TemplateInv /\ [SoloNext]_soloVars => TemplateInv'
  <1> SUFFICES ASSUME IInv, TemplateInv, [SoloNext]_soloVars PROVE TemplateInv'
    OBVIOUS
  <1> USE DEF Searches, BeforeSearch
  <1>1. CASE GetInfo \/ GetBlock
    BY <1>1 DEF GetInfo, GetBlock, TemplateInv
  <1>2. CASE Build
    <2>1. CASE info.bits = 0
      BY <1>2, <2>1 DEF Build, TemplateInv
    <2>2. CASE info.bits # 0
      <3>1. phase' = "mine" /\ \E h, p, b, t, c : tmpl' = Template(h, p, b, t, c)
        BY <1>2, <2>2 DEF Build
      <3>2. /\ tmpl'.bytes = Serialize(Header(tmpl'.prev, tmpl'.merkle, tmpl'.time, tmpl'.bits, 0))
            /\ tmpl'.signature = Sign(tmpl'.bytes)
        BY <3>1 DEF Template
      <3> QED BY <3>1, <3>2 DEF TemplateInv
    <2> QED BY <2>1, <2>2
  <1>3. CASE MineRuns
    <2>1. winners' = winners
      BY <1>3 DEF MineRuns, Next, Worker, Poll, Hash, SendResult, CancelOthers, DetectorWakes,
                  DetectorChecks, CloseResults, Mine, Receive, StopWorkers, Return, CallerCancels,
                  TipMoves, Terminated, vars, envVars
    <2>2. UNCHANGED <<phase, tmpl, block>>
      BY <1>3 DEF MineRuns, callerVars
    <2> QED BY <2>1, <2>2 DEF TemplateInv
  <1>4. CASE Assemble
    <2>1. /\ phase = "mine" /\ mpc = "returned" /\ result # None
          /\ UNCHANGED <<tmpl, winners>>
      BY <1>4 DEF Assemble, Keep, vars, envVars
    <2>2. Sign(tmpl.bytes) = tmpl.signature
      BY <2>1 DEF TemplateInv
    <2>3. /\ phase' = "submit"
          /\ block'.header = Serialize(Header(tmpl.prev, tmpl.merkle, tmpl.time, tmpl.bits, result))
      BY <1>4, <2>2 DEF Assemble
    <2>4. result \in winners
      BY <2>1 DEF IInv, ResultInv
    <2> QED BY <2>1, <2>3, <2>4 DEF TemplateInv
  <1>5. CASE GiveUp \/ Submit
    BY <1>5 DEF GiveUp, Submit, Keep, TemplateInv
  <1>6. CASE Extend \/ Reorg \/ UNCHANGED soloVars
    <2>1. UNCHANGED <<phase, tmpl, block, winners>>
      BY <1>6 DEF Extend, Reorg, NodeMoves, Keep, soloVars, callerVars, vars, envVars
    <2> QED BY <2>1 DEF TemplateInv
  <1> QED BY <1>1, <1>2, <1>3, <1>4, <1>5, <1>6 DEF SoloNext, Caller

\* No worker's nonce gets into the template, no signature is refused, and the
\* block submitted carries a nonce that wins for the template.
THEOREM SubmissionsWin == SoloSpec => []SubmittedWins
  <1>1. SoloInit => TemplateInv
    BY DEF SoloInit, TemplateInv, Searches, BeforeSearch
  <1>2. IInv /\ TemplateInv /\ [SoloNext]_soloVars => TemplateInv'
    BY TemplateStep
  <1>3. TemplateInv => SubmittedWins
    <2>1. \A p, m, t, b, n : Serialize(Header(p, m, t, b, n)) = Stamp(Serialize(Header(p, m, t, b, 0)), n)
      BY DEF Serialize, Header, Stamp
    <2> QED BY <2>1 DEF TemplateInv, SubmittedWins, Searches, BeforeSearch
  <1> QED BY <1>1, <1>2, <1>3, SoloPoolInv, PTL DEF SoloSpec

-----------------------------------------------------------------------------
(* The template's parent. *)

\* Until the two answers are torn, the chain still has the block that was the
\* best at its height, and the second answer is that block.
ParentInv ==
  /\ learned \in Blocks
  /\ chain \in Seq(Blocks) /\ chain # <<>>
  /\ phase = "block" => info.best \in Blocks
  /\ phase = "block" /\ ~torn => info.height \in DOMAIN chain /\ chain[info.height] = info.best
  /\ phase = "build" /\ ~torn => tip = info.best /\ info.best \in Blocks
  /\ TimestampFollowsParent

\* Every step keeps the answers together, or they count as torn.
LEMMA ParentStep == ParentInv /\ [SoloNext]_soloVars => ParentInv'
  <1> SUFFICES ASSUME ParentInv, [SoloNext]_soloVars PROVE ParentInv'
    OBVIOUS
  <1> USE DEF Searches, BeforeSearch, TimestampFollowsParent
  <1>0. /\ Len(chain) \in Nat \ {0} /\ DOMAIN chain = 1 .. Len(chain)
        /\ chain[Len(chain)] \in Blocks
        /\ \A b \in Blocks : b \in Nat \ {0}
    BY BlocksAssumption DEF ParentInv, Blocks
  <1>1. CASE GetInfo
    <2>1. PICK bits \in {0, 1} :
            info' = [height |-> Len(chain), best |-> chain[Len(chain)], bits |-> bits]
      BY <1>1 DEF GetInfo
    <2>2. info'.height = Len(chain) /\ info'.best = chain[Len(chain)]
      BY <2>1
    <2> QED BY <1>0, <1>1, <2>2 DEF GetInfo, Keep, chainVars, ParentInv
  <1>2. CASE GetBlock
    <2>1. /\ phase = "block" /\ phase' = "build"
          /\ UNCHANGED <<info, tmpl, chain, learned>>
          /\ torn' = (torn \/ tip' = 0)
          /\ tip' \in {0} \cup {chain[h] : h \in {info.height} \cap DOMAIN chain}
      BY <1>2 DEF GetBlock, Keep, chainVars
    <2>2. ~torn' => tip' = chain[info.height] /\ ~torn
      BY <2>1
    <2> QED BY <2>1, <2>2 DEF ParentInv
  <1>3. CASE Build
    <2>1. phase = "build" /\ UNCHANGED <<torn, chain, learned>>
      BY <1>3 DEF Build, chainVars
    <2>2. CASE info.bits = 0
      BY <1>3, <2>1, <2>2 DEF Build, ParentInv
    <2>3. CASE info.bits # 0
      <3>1. phase' = "mine" /\ tmpl'.prev = info.best /\ tmpl'.time = TipTime + 1
        BY <1>3, <2>3 DEF Build, Template
      <3>2. ~torn => TipTime = Time(info.best)
        BY <1>0, <2>1 DEF ParentInv, TipTime
      <3> QED BY <2>1, <3>1, <3>2 DEF ParentInv
    <2> QED BY <2>2, <2>3
  <1>4. CASE MineRuns \/ UNCHANGED soloVars
    <2>1. UNCHANGED <<callerVars, chainVars>>
      BY <1>4 DEF MineRuns, soloVars
    <2> QED BY <2>1 DEF callerVars, chainVars, ParentInv
  <1>5. CASE Assemble \/ GiveUp \/ Submit
    <2>1. /\ UNCHANGED <<chain, learned, torn, tmpl>>
          /\ ~BeforeSearch /\ phase' \notin {"block", "build"}
      BY <1>5 DEF Assemble, GiveUp, Submit, Keep, chainVars
    <2> QED BY <2>1 DEF ParentInv
  <1>6. CASE Extend
    <2>1. /\ chain' = Append(chain, learned + 1) /\ learned' = learned + 1
          /\ learned < MaxBlocks /\ BeforeSearch
          /\ UNCHANGED <<phase, info, tip, tmpl>> /\ (~torn' => ~torn)
      BY <1>6 DEF Extend, NodeMoves, Keep
    <2>2. learned' \in Blocks
      BY <2>1, BlocksAssumption DEF ParentInv, Blocks
    <2>3. /\ chain' \in Seq(Blocks) /\ chain' # <<>>
          /\ \A h \in DOMAIN chain : h \in DOMAIN chain' /\ chain'[h] = chain[h]
      BY <1>0, <2>1, <2>2 DEF ParentInv
    <2> QED BY <2>1, <2>2, <2>3 DEF ParentInv
  <1>7. CASE Reorg
    <2>1. PICK kept \in 1 .. Len(chain) - 1 :
            NodeMoves(Append(SubSeq(chain, 1, kept), learned + 1), TRUE)
      BY <1>7 DEF Reorg
    <2>2. /\ chain' = Append(SubSeq(chain, 1, kept), learned + 1) /\ learned' = learned + 1
          /\ learned < MaxBlocks /\ BeforeSearch
          /\ UNCHANGED <<phase, info, tip, tmpl>>
          /\ ~torn' => ~torn /\ phase # "block"
      BY <2>1 DEF NodeMoves, Keep
    <2>3. learned' \in Blocks
      BY <2>2, BlocksAssumption DEF ParentInv, Blocks
    <2>4. SubSeq(chain, 1, kept) \in Seq(Blocks)
      BY <1>0 DEF ParentInv
    <2>5. chain' \in Seq(Blocks) /\ chain' # <<>>
      BY <2>2, <2>3, <2>4
    <2> QED BY <2>2, <2>3, <2>5 DEF ParentInv
  <1> QED BY <1>1, <1>2, <1>3, <1>4, <1>5, <1>6, <1>7 DEF SoloNext, Caller

\* A template's timestamp is its parent's plus one, unless the second answer was
\* an error or a reorganization came between the two.
THEOREM TimestampsFollow == SoloSpec => []TimestampFollowsParent
  <1>1. SoloInit => ParentInv
    <2> SUFFICES ASSUME SoloInit PROVE ParentInv
      OBVIOUS
    <2>1. /\ phase = "info" /\ learned = StartHeight
          /\ chain = [h \in 1 .. StartHeight |-> h]
      BY DEF SoloInit
    <2>2. StartHeight \in Blocks /\ 1 .. StartHeight \subseteq Blocks
      BY BlocksAssumption DEF Blocks
    <2>3. chain \in Seq(Blocks) /\ Len(chain) = StartHeight
      BY <2>1, <2>2, BlocksAssumption
    <2>4. chain # <<>>
      BY <2>3, BlocksAssumption
    <2> QED BY <2>1, <2>2, <2>3, <2>4
            DEF ParentInv, TimestampFollowsParent, Searches, BeforeSearch
  <1>2. ParentInv /\ [SoloNext]_soloVars => ParentInv'
    BY ParentStep
  <1>3. ParentInv => TimestampFollowsParent
    BY DEF ParentInv
  <1> QED BY <1>1, <1>2, <1>3, PTL DEF SoloSpec

-----------------------------------------------------------------------------
(* The types. *)

\* SoloTypeOK without the pool's part.
CallerTyped ==
  /\ phase \in {"info", "block", "build", "mine", "submit", "done", "panic"}
  /\ learned \in Blocks /\ chain \in Seq(1 .. learned) /\ chain # <<>>
  /\ phase \in {"block", "build"} =>
       info.height \in Nat /\ info.best \in 1 .. learned /\ info.bits \in {0, 1}
  /\ tip \in {0} \cup 1 .. learned
  /\ Searches => /\ tmpl.height \in Nat /\ tmpl.prev \in Blocks
                 /\ tmpl.time \in Nat /\ tmpl.bits \in {1}
  /\ torn \in BOOLEAN

\* A block the node learns of joins those it has learned of: the chain and the
\* answers stay among them.
LEMMA LearnStep ==
  ASSUME CallerTyped, NEW newChain, NEW replaced \in BOOLEAN, NodeMoves(newChain, replaced),
         newChain \in Seq(1 .. learned + 1), newChain # <<>>
  PROVE  CallerTyped'
  <1> USE DEF Searches, BeforeSearch
  <1>1. /\ learned' = learned + 1 /\ learned < MaxBlocks
        /\ chain' = newChain
        /\ BeforeSearch
        /\ UNCHANGED <<phase, info, tip, tmpl>>
        /\ torn' = (torn \/ (phase = "block" /\ replaced))
    BY DEF NodeMoves, Keep
  <1>2. learned' \in Blocks /\ 1 .. learned \subseteq 1 .. learned'
    BY <1>1, BlocksAssumption DEF CallerTyped, Blocks
  <1>3. torn' \in BOOLEAN
    BY <1>1
  <1>4. chain' \in Seq(1 .. learned') /\ chain' # <<>>
    BY <1>1
  <1> QED BY <1>1, <1>2, <1>3, <1>4 DEF CallerTyped

\* Every step keeps the caller's and the node's variables typed.
LEMMA CallerTypedStep == CallerTyped /\ [SoloNext]_soloVars => CallerTyped'
  <1> SUFFICES ASSUME CallerTyped, [SoloNext]_soloVars PROVE CallerTyped'
    OBVIOUS
  <1> USE DEF Searches, BeforeSearch
  <1>0. /\ Len(chain) \in Nat \ {0} /\ DOMAIN chain = 1 .. Len(chain)
        /\ \A h \in DOMAIN chain : chain[h] \in 1 .. learned
        /\ 1 .. learned \subseteq Blocks /\ learned \in Nat
    BY BlocksAssumption DEF CallerTyped, Blocks
  <1>1. CASE GetInfo
    <2>1. PICK bits \in {0, 1} :
            info' = [height |-> Len(chain), best |-> chain[Len(chain)], bits |-> bits]
      BY <1>1 DEF GetInfo
    <2>2. info'.height \in Nat /\ info'.best \in 1 .. learned /\ info'.bits \in {0, 1}
      BY <1>0, <2>1
    <2> QED BY <1>1, <2>2 DEF GetInfo, Keep, chainVars, CallerTyped
  <1>2. CASE GetBlock
    <2>1. /\ phase = "block" /\ phase' = "build"
          /\ UNCHANGED <<info, tmpl, chain, learned>>
          /\ torn' = (torn \/ tip' = 0)
          /\ tip' \in {0} \cup {chain[h] : h \in {info.height} \cap DOMAIN chain}
      BY <1>2 DEF GetBlock, Keep, chainVars
    <2>2. torn' \in BOOLEAN /\ tip' \in {0} \cup 1 .. learned
      BY <1>0, <2>1
    <2> QED BY <2>1, <2>2 DEF CallerTyped
  <1>3. CASE Build
    <2>1. /\ phase = "build" /\ tip' = 0
          /\ UNCHANGED <<torn, chain, learned>>
      BY <1>3 DEF Build, chainVars
    <2>2. CASE info.bits = 0
      BY <1>3, <2>1, <2>2 DEF Build, CallerTyped
    <2>3. CASE info.bits # 0
      <3>1. /\ phase' = "mine" /\ tmpl'.height = info.height + 1 /\ tmpl'.prev = info.best
            /\ tmpl'.time = TipTime + 1 /\ tmpl'.bits = info.bits
        BY <1>3, <2>3 DEF Build, Template
      <3>2. TipTime \in Nat
        <4>1. tip \in {0} \cup (1 .. MaxBlocks)
          BY <1>0 DEF CallerTyped, Blocks
        <4> QED BY <4>1, TimeAssumption DEF TipTime
      <3>3. info.height \in Nat /\ info.best \in Blocks /\ info.bits = 1
        BY <1>0, <2>1, <2>3 DEF CallerTyped
      <3>4. /\ tmpl'.height \in Nat /\ tmpl'.prev \in Blocks
            /\ tmpl'.time \in Nat /\ tmpl'.bits \in {1}
        BY <3>1, <3>2, <3>3
      <3> QED BY <2>1, <3>1, <3>4 DEF CallerTyped
    <2> QED BY <2>2, <2>3
  <1>4. CASE MineRuns \/ UNCHANGED soloVars
    <2>1. UNCHANGED <<callerVars, chainVars>>
      BY <1>4 DEF MineRuns, soloVars
    <2> QED BY <2>1 DEF callerVars, chainVars, CallerTyped
  <1>5. CASE Assemble \/ GiveUp \/ Submit
    <2>1. /\ UNCHANGED <<chain, learned, torn, tmpl, tip>>
          /\ ~BeforeSearch /\ phase' \in {"submit", "done", "panic"}
      BY <1>5 DEF Assemble, GiveUp, Submit, Keep, chainVars
    <2> QED BY <2>1 DEF CallerTyped
  <1>6. CASE Extend
    <2>1. Append(chain, learned + 1) \in Seq(1 .. learned + 1) /\ Append(chain, learned + 1) # <<>>
      <3>1. chain \in Seq(1 .. learned + 1) /\ learned + 1 \in 1 .. learned + 1
        BY <1>0 DEF CallerTyped
      <3> QED BY <3>1
    <2> QED BY <1>6, <2>1, LearnStep DEF Extend
  <1>7. CASE Reorg
    <2>1. PICK kept \in 1 .. Len(chain) - 1 :
            NodeMoves(Append(SubSeq(chain, 1, kept), learned + 1), TRUE)
      BY <1>7 DEF Reorg
    <2>2. SubSeq(chain, 1, kept) \in Seq(1 .. learned + 1) /\ learned + 1 \in 1 .. learned + 1
      <3>1. chain \in Seq(1 .. learned + 1)
        BY <1>0 DEF CallerTyped
      <3> QED BY <1>0, <3>1
    <2>3. /\ Append(SubSeq(chain, 1, kept), learned + 1) \in Seq(1 .. learned + 1)
          /\ Append(SubSeq(chain, 1, kept), learned + 1) # <<>>
      BY <2>2
    <2> QED BY <2>1, <2>3, LearnStep
  <1> QED BY <1>1, <1>2, <1>3, <1>4, <1>5, <1>6, <1>7 DEF SoloNext, Caller

\* Whatever the node answers, a template is built from a height, a block of the
\* chain and bits that are not zero, and no nonce leaves the nonce space.
THEOREM SoloTypeCorrect == SoloSpec => []SoloTypeOK
  <1>1. SoloInit => CallerTyped
    <2> SUFFICES ASSUME SoloInit PROVE CallerTyped
      OBVIOUS
    <2>1. /\ phase = "info" /\ learned = StartHeight /\ tip = 0 /\ torn = FALSE
          /\ chain = [h \in 1 .. StartHeight |-> h]
      BY DEF SoloInit
    <2>2. StartHeight \in Blocks
      BY BlocksAssumption DEF Blocks
    <2>3. chain \in Seq(1 .. learned) /\ Len(chain) = StartHeight
      BY <2>1, BlocksAssumption
    <2>4. chain # <<>>
      BY <2>3, BlocksAssumption
    <2> QED BY <2>1, <2>2, <2>3, <2>4 DEF CallerTyped, Searches, BeforeSearch
  <1>2. CallerTyped /\ [SoloNext]_soloVars => CallerTyped'
    BY CallerTypedStep
  <1>3. IInv /\ CallerTyped => SoloTypeOK
    BY DEF IInv, CallerTyped, SoloTypeOK
  <1> QED BY <1>1, <1>2, <1>3, SoloPoolInv, PTL DEF SoloSpec
=============================================================================
