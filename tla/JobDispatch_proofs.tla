------------------------- MODULE JobDispatch_proofs -------------------------
(***************************************************************************)
(* Proofs about JobDispatch: its safety properties hold, and it implements *)
(* LatestJob, for any number of workers, any nonce space, any check period *)
(* and any channel capacity.                                               *)
(***************************************************************************)
EXTENDS JobDispatch, NatFacts, SequenceTheorems, TLAPS

-----------------------------------------------------------------------------
(* The inductive invariant. *)

\* Publishing never goes backwards, and a worker's job was published.
JobOrder ==
  /\ current <= taken
  /\ mainPc # "publish" => current = taken
  /\ \A w \in Workers : wjob[w] <= current

\* The newest job exists while it is being sent.
SendingHasJob == rdPc \in {"send", "drain", "resend"} => notified > 0

\* How many pointless hashes worker w can have done at its place in the loop:
\* one for each nonce since the last multiple of CheckEvery.
Allowance(w) ==
  CASE wpc[w] = "hash"   -> pos[w] % CheckEvery
    [] wpc[w] = "submit" -> (pos[w] % CheckEvery) + 1
    [] wpc[w] = "scan" /\ (pos[w] % CheckEvery # 0) -> pos[w] % CheckEvery
    [] OTHER -> CheckEvery

\* Late hashes are within the allowance, and are counted only once the scan has
\* become obsolete, which it then stays.
LateWithinAllowance ==
  \A w \in Workers :
    /\ late[w] <= Allowance(w)
    /\ wpc[w] \in {"scan", "hash", "submit"} /\ late[w] > 0 => Obsolete(w)

IInv ==
  /\ TypeOK
  /\ QueueHoldsNewest
  /\ SendNeverBlocks
  /\ SendingHasJob
  /\ JobOrder
  /\ ParksOnlyAtStart
  /\ LateWithinAllowance


-----------------------------------------------------------------------------
(* Types. *)

\* The first nonce of every worker is a natural number.
LEMMA StartIsNat == \A w \in Workers : Start(w) \in Nat
  <1>1. RangeLen \in Nat
    BY DivNat, NumWorkersAssumption, NonceSpaceAssumption DEF RangeLen
  <1>2. \A w \in Workers : w \in Nat
    BY NumWorkersAssumption DEF Workers
  <1> QED BY <1>1, <1>2, MulNat DEF Start

\* The first state has the types of TypeOK.
LEMMA TypeInit == Init => TypeOK
  <1> SUFFICES ASSUME Init PROVE TypeOK
    OBVIOUS
  <1>1. <<>> \in Seq(Nat) /\ Len(<<>>) = 0
    BY EmptySeq
  <1>2. queue = <<>> /\ 0 <= JobCap
    BY JobCapAssumption DEF Init
  <1>3. queue \in Seq(Nat) /\ Len(queue) <= JobCap
    BY <1>1, <1>2, Zenon
  <1>4. /\ wpc \in [Workers -> {"top"}]
        /\ wjob \in [Workers -> Nat]
        /\ pos \in [Workers -> Nat]
        /\ late \in [Workers -> Nat]
    BY DEF Init, NoJob
  <1>5. notified = 0 /\ rdPc = "idle" /\ mainPc = "loop" /\ taken = 0 /\ current = 0 /\ ctxDone = FALSE
    BY DEF Init, NoJob
  <1> QED BY <1>3, <1>4, <1>5 DEF TypeOK, WorkerPcs

\* Every step preserves the types.
LEMMA TypeStep == TypeOK /\ [Next]_vars => TypeOK'
  <1> SUFFICES ASSUME TypeOK, [Next]_vars PROVE TypeOK'
    OBVIOUS
  <1> USE DEF readerVars, mainVars, workerVars
  <1>1. CASE NewJob
    BY <1>1 DEF TypeOK, WorkerPcs, NewJob
  <1>2. CASE TrySend
    <2>1. notified \in Nat /\ queue \in Seq(Nat)
      BY DEF TypeOK
    <2>2. CASE Len(queue) < JobCap /\ queue' = Append(queue, notified) /\ rdPc' = "idle"
      <3>1. queue' \in Seq(Nat) /\ Len(queue') = Len(queue) + 1
        BY <2>1, <2>2, AppendProperties
      <3>2. Len(queue') <= JobCap
        BY <3>1, <2>1, <2>2, LenProperties, JobCapAssumption
      <3> QED BY <1>2, <2>2, <3>1, <3>2 DEF TypeOK, WorkerPcs, TrySend
    <2>3. CASE rdPc' = "drain" /\ UNCHANGED queue
      BY <1>2, <2>3 DEF TypeOK, WorkerPcs, TrySend
    <2> QED BY <1>2, <2>2, <2>3 DEF TrySend
  <1>3. CASE DrainOldest
    <2>1. queue' \in Seq(Nat) /\ Len(queue') <= JobCap
      BY <1>3, HeadTailProperties, LenProperties, JobCapAssumption DEF DrainOldest, TypeOK
    <2> QED BY <1>3, <2>1 DEF TypeOK, WorkerPcs, DrainOldest
  <1>4. CASE Resend
    <2>1. notified \in Nat /\ queue \in Seq(Nat)
      BY DEF TypeOK
    <2>2. queue' \in Seq(Nat) /\ Len(queue') = Len(queue) + 1
      BY <1>4, <2>1, AppendProperties DEF Resend
    <2>3. Len(queue') <= JobCap
      BY <1>4, <2>1, <2>2, LenProperties, JobCapAssumption DEF Resend
    <2> QED BY <1>4, <2>2, <2>3 DEF TypeOK, WorkerPcs, Resend
  <1>5. CASE ReaderReturns
    BY <1>5 DEF TypeOK, WorkerPcs, ReaderReturns
  <1>6. CASE TakeJob
    <2>1. queue' \in Seq(Nat) /\ Len(queue') <= JobCap /\ taken' \in Nat
      BY <1>6, HeadTailProperties, LenProperties, JobCapAssumption DEF TakeJob, TypeOK
    <2> QED BY <1>6, <2>1 DEF TypeOK, WorkerPcs, TakeJob
  <1>7. CASE Publish
    BY <1>7 DEF TypeOK, WorkerPcs, Publish
  <1>8. CASE MainReturns
    BY <1>8 DEF TypeOK, WorkerPcs, MainReturns
  <1>9. ASSUME NEW w \in Workers, Worker(w)
        PROVE  TypeOK'
    <2>1. CASE LoopTop(w)
      BY <2>1 DEF TypeOK, WorkerPcs, LoopTop, MoveTo
    <2>2. CASE CheckJob(w)
      <3>1. CASE current # NoJob
        <4>1. /\ wjob' = [wjob EXCEPT ![w] = current]
              /\ pos' = [pos EXCEPT ![w] = Start(w)]
              /\ late' = [late EXCEPT ![w] = 0]
              /\ wpc' = [wpc EXCEPT ![w] = "scan"]
          BY <2>2, <3>1 DEF CheckJob, MoveTo
        <4>2. Start(w) \in Nat
          BY StartIsNat
        <4> QED BY <2>2, <4>1, <4>2 DEF TypeOK, WorkerPcs, CheckJob
      <3>2. CASE current = NoJob
        BY <2>2, <3>2 DEF TypeOK, WorkerPcs, CheckJob, MoveTo
      <3> QED BY <3>1, <3>2
    <2>3. CASE StartWait(w)
      BY <2>3 DEF TypeOK, WorkerPcs, StartWait, MoveTo
    <2>4. CASE RangeDone(w)
      BY <2>4 DEF TypeOK, WorkerPcs, RangeDone, MoveTo
    <2>5. CASE StartIteration(w)
      <3>1. PICK pc \in {"done", "top", "hash"} : wpc' = [wpc EXCEPT ![w] = pc]
        BY <2>5 DEF StartIteration, MoveTo
      <3> QED BY <2>5, <3>1 DEF TypeOK, WorkerPcs, StartIteration
    <2>6. CASE Hash(w)
      <3>1. late' \in [Workers -> Nat]
        <4>1. late' = [late EXCEPT ![w] = IF Obsolete(w) THEN late[w] + 1 ELSE late[w]]
          BY <2>6 DEF Hash
        <4>2. late[w] \in Nat /\ late[w] + 1 \in Nat
          BY DEF TypeOK
        <4> QED BY <4>1, <4>2 DEF TypeOK
      <3>2. CASE wpc' = [wpc EXCEPT ![w] = "submit"] /\ UNCHANGED pos
        BY <2>6, <3>1, <3>2 DEF TypeOK, WorkerPcs, Hash
      <3>3. CASE wpc' = [wpc EXCEPT ![w] = "scan"] /\ pos' = [pos EXCEPT ![w] = @ + 1]
        BY <2>6, <3>1, <3>3 DEF TypeOK, WorkerPcs, Hash
      <3> QED BY <2>6, <3>2, <3>3 DEF Hash, MoveTo
    <2>7. CASE Submit(w)
      BY <2>7 DEF TypeOK, WorkerPcs, Submit, MoveTo
    <2> QED BY <1>9, <2>1, <2>2, <2>3, <2>4, <2>5, <2>6, <2>7 DEF Worker
  <1>10. CASE Cancel
    BY <1>10 DEF TypeOK, WorkerPcs, Cancel
  <1>11. CASE UNCHANGED vars
    BY <1>11 DEF TypeOK, WorkerPcs, vars
  <1> QED
    BY <1>1, <1>2, <1>3, <1>4, <1>5, <1>6, <1>7, <1>8, <1>9, <1>10, <1>11
       DEF Next, Reader, Main, Terminated

-----------------------------------------------------------------------------
(* The job channel. *)

\* The part of the invariant that is about the channel and its sender.
QueueInv == QueueHoldsNewest /\ SendNeverBlocks /\ SendingHasJob

\* It is kept by every step that leaves the channel, its sender and the
\* receiver's last job alone.
LEMMA QueueUnchanged ==
  ASSUME QueueInv, UNCHANGED <<notified, rdPc, queue, taken>>
  PROVE  QueueInv'
  BY DEF QueueInv, QueueHoldsNewest, SendNeverBlocks, SendingHasJob, Enqueued

\* A job appended to the channel is the next one of the run it holds.
LEMMA AppendNewest ==
  ASSUME TypeOK, QueueInv, rdPc \in {"send", "resend"}, Len(queue) < JobCap,
         queue' = Append(queue, notified), rdPc' = "idle",
         UNCHANGED <<notified, taken>>
  PROVE  QueueInv'
  <1>1. queue \in Seq(Nat) /\ notified \in Nat /\ taken \in Nat /\ Len(queue) \in Nat
    BY LenProperties DEF TypeOK
  <1>2. /\ Len(queue') = Len(queue) + 1
        /\ \A i \in 1 .. Len(queue) : queue'[i] = queue[i]
        /\ queue'[Len(queue) + 1] = notified
        /\ queue' # <<>>
    BY <1>1, AppendProperties
  <1>3. Enqueued = notified - 1 /\ Enqueued' = notified
    BY DEF Enqueued
  <1>4. /\ \A i \in 1 .. Len(queue) : queue[i] = notified - 1 - Len(queue) + i
        /\ taken <= notified - 1 - Len(queue)
    BY <1>3 DEF QueueInv, QueueHoldsNewest
  <1>5. \A i \in 1 .. Len(queue') : queue'[i] = notified - Len(queue') + i
    BY <1>1, <1>2, <1>4
  <1>6. taken <= notified - Len(queue')
    BY <1>1, <1>2, <1>4
  <1> QED
    BY <1>2, <1>3, <1>5, <1>6
       DEF QueueInv, QueueHoldsNewest, SendNeverBlocks, SendingHasJob

\* What is left of the channel when its first job is gone.
LEMMA TailOfRun ==
  ASSUME TypeOK, QueueInv, queue # <<>>
  PROVE  /\ Len(Tail(queue)) = Len(queue) - 1
         /\ Len(queue) \in 1 .. JobCap
         /\ \A i \in 1 .. Len(Tail(queue)) :
               Tail(queue)[i] = Enqueued - Len(Tail(queue)) + i
         /\ Head(queue) = Enqueued - Len(Tail(queue))
         /\ taken < Head(queue)
         /\ Enqueued \in Nat
  <1>1. queue \in Seq(Nat) /\ taken \in Nat /\ notified \in Nat /\ Len(queue) <= JobCap
    BY DEF TypeOK
  <1>2. Len(queue) \in Nat \ {0}
    BY <1>1, EmptySeq
  <1>3. /\ Len(Tail(queue)) = Len(queue) - 1
        /\ \A i \in 1 .. Len(Tail(queue)) : Tail(queue)[i] = queue[i + 1]
    BY <1>1, HeadTailProperties
  <1>4. Head(queue) = queue[1]
    BY <1>1
  <1>5. Enqueued \in Nat
    BY <1>1 DEF Enqueued, QueueInv, SendingHasJob
  <1>6. /\ \A i \in 1 .. Len(queue) : queue[i] = Enqueued - Len(queue) + i
        /\ taken <= Enqueued - Len(queue)
    BY DEF QueueInv, QueueHoldsNewest
  <1>7. \A i \in 1 .. Len(Tail(queue)) :
          Tail(queue)[i] = Enqueued - Len(Tail(queue)) + i
    BY <1>2, <1>3, <1>5, <1>6
  <1> QED BY <1>1, <1>2, <1>3, <1>4, <1>5, <1>6, <1>7, JobCapAssumption

\* Every step preserves the channel's part of the invariant.
LEMMA QueueStep == TypeOK /\ QueueInv /\ [Next]_vars => QueueInv'
  <1> SUFFICES ASSUME TypeOK, QueueInv, [Next]_vars PROVE QueueInv'
    OBVIOUS
  <1> USE DEF readerVars, mainVars, workerVars
  <1>1. CASE NewJob
    <2>1. notified \in Nat /\ notified' = notified + 1 /\ Enqueued = notified /\ Enqueued' = notified
      BY <1>1 DEF TypeOK, NewJob, Enqueued
    <2> QED
      BY <1>1, <2>1 DEF NewJob, QueueInv, QueueHoldsNewest, SendNeverBlocks, SendingHasJob
  <1>2. CASE TrySend
    <2>1. CASE rdPc' = "drain" /\ UNCHANGED queue
      BY <1>2, <2>1
         DEF TrySend, QueueInv, QueueHoldsNewest, SendNeverBlocks, SendingHasJob, Enqueued
    <2> QED BY <1>2, <2>1, AppendNewest DEF TrySend
  <1>3. CASE DrainOldest
    <2>1. Enqueued' = Enqueued
      BY <1>3 DEF DrainOldest, Enqueued
    <2>2. CASE queue = <<>>
      <3>1. Len(queue) = 0
        BY <2>2, EmptySeq
      <3> QED
        BY <1>3, <2>1, <2>2, <3>1, JobCapAssumption
           DEF DrainOldest, QueueInv, QueueHoldsNewest, SendNeverBlocks, SendingHasJob
    <2>3. CASE queue # <<>>
      <3>1. queue' = Tail(queue) /\ taken \in Nat
        BY <1>3, <2>3 DEF DrainOldest, TypeOK
      <3>2. Len(queue') \in Nat /\ Len(queue') < JobCap
        BY <2>3, <3>1, TailOfRun, JobCapAssumption
      <3>3. taken <= Enqueued - Len(queue')
        BY <2>3, <3>1, TailOfRun
      <3>4. \A i \in 1 .. Len(queue') : queue'[i] = Enqueued - Len(queue') + i
        BY <2>3, <3>1, TailOfRun
      <3> QED
        BY <1>3, <2>1, <3>1, <3>2, <3>3, <3>4
           DEF DrainOldest, QueueInv, QueueHoldsNewest, SendNeverBlocks, SendingHasJob
    <2> QED BY <2>2, <2>3
  <1>4. CASE Resend
    BY <1>4, AppendNewest DEF Resend
  <1>5. CASE ReaderReturns
    BY <1>5 DEF ReaderReturns, QueueInv, QueueHoldsNewest, SendNeverBlocks, SendingHasJob, Enqueued
  <1>6. CASE TakeJob
    <2>1. Enqueued' = Enqueued
      BY <1>6 DEF TakeJob, Enqueued
    <2>2. queue # <<>> /\ queue' = Tail(queue) /\ taken' = Head(queue)
      BY <1>6 DEF TakeJob
    <2>3. /\ Len(queue') = Len(queue) - 1
          /\ Len(queue) \in 1 .. JobCap
          /\ \A i \in 1 .. Len(queue') : queue'[i] = Enqueued - Len(queue') + i
          /\ taken' = Enqueued - Len(queue')
          /\ Enqueued \in Nat
      BY <2>2, TailOfRun
    <2>4. taken' <= Enqueued - Len(queue')
      BY <2>3, JobCapAssumption
    <2>5. ASSUME queue' = <<>> PROVE taken' = Enqueued
      <3>1. Len(<<>>) = 0
        BY EmptySeq
      <3>2. Len(queue') = 0
        BY <2>5, <3>1, Zenon
      <3>3. taken' = Enqueued - Len(queue') /\ Enqueued \in Nat
        BY <2>3
      <3> QED BY <3>2, <3>3
    <2>6. rdPc = "resend" => Len(queue') < JobCap
      BY <2>3, JobCapAssumption
    <2> QED
      BY <1>6, <2>1, <2>3, <2>4, <2>5, <2>6
         DEF TakeJob, QueueInv, QueueHoldsNewest, SendNeverBlocks, SendingHasJob
  <1>7. CASE Publish
    BY <1>7, QueueUnchanged DEF Publish
  <1>8. CASE MainReturns
    BY <1>8, QueueUnchanged DEF MainReturns
  <1>9. ASSUME NEW w \in Workers, Worker(w)
        PROVE  QueueInv'
    BY <1>9, QueueUnchanged
       DEF Worker, LoopTop, CheckJob, StartWait, RangeDone, StartIteration, Hash, Submit
  <1>10. CASE Cancel
    BY <1>10, QueueUnchanged DEF Cancel
  <1>11. CASE UNCHANGED vars
    BY <1>11, QueueUnchanged DEF vars
  <1> QED
    BY <1>1, <1>2, <1>3, <1>4, <1>5, <1>6, <1>7, <1>8, <1>9, <1>10, <1>11
       DEF Next, Reader, Main, Terminated

-----------------------------------------------------------------------------
(* The order of jobs, and the workers. *)

\* Every step preserves the order taken >= current >= wjob[w].
LEMMA OrderStep == TypeOK /\ QueueInv /\ JobOrder /\ [Next]_vars => JobOrder'
  <1> SUFFICES ASSUME TypeOK, QueueInv, JobOrder, [Next]_vars PROVE JobOrder'
    OBVIOUS
  <1> USE DEF readerVars, mainVars, workerVars
  <1>t. taken \in Nat /\ current \in Nat /\ wjob \in [Workers -> Nat]
    BY DEF TypeOK
  <1>1. CASE Reader
    BY <1>1 DEF Reader, NewJob, TrySend, DrainOldest, Resend, ReaderReturns, JobOrder
  <1>2. CASE TakeJob
    <2>1. taken < taken' /\ taken' \in Int
      BY <1>2, TailOfRun, <1>t DEF TakeJob
    <2> QED BY <1>2, <1>t, <2>1 DEF TakeJob, JobOrder
  <1>3. CASE Publish
    BY <1>3, <1>t DEF Publish, JobOrder
  <1>4. CASE MainReturns
    BY <1>4 DEF MainReturns, JobOrder
  <1>5. ASSUME NEW w \in Workers, Worker(w)
        PROVE  JobOrder'
    <2>1. CASE CheckJob(w)
      <3>1. wjob' = [wjob EXCEPT ![w] = current] \/ wjob' = wjob
        BY <2>1 DEF CheckJob
      <3> QED BY <2>1, <3>1, <1>t DEF CheckJob, JobOrder
    <2>2. CASE ~CheckJob(w)
      BY <1>5, <2>2
         DEF Worker, LoopTop, StartWait, RangeDone, StartIteration, Hash, Submit, JobOrder
    <2> QED BY <2>1, <2>2
  <1>6. CASE Cancel
    BY <1>6 DEF Cancel, JobOrder
  <1>7. CASE UNCHANGED vars
    BY <1>7 DEF vars, JobOrder
  <1> QED
    BY <1>1, <1>2, <1>3, <1>4, <1>5, <1>6, <1>7 DEF Next, Main, Terminated

\* Every step preserves that a parked worker has never mined: a worker parks
\* only when it finds no job, and then its own last job, no newer, is none.
LEMMA ParkStep ==
  TypeOK /\ JobOrder /\ ParksOnlyAtStart /\ [Next]_vars => ParksOnlyAtStart'
  <1> SUFFICES ASSUME TypeOK, JobOrder, ParksOnlyAtStart, [Next]_vars,
                      NEW v \in Workers, wpc'[v] \in {"gap", "waiting"}
               PROVE  wjob'[v] = NoJob
    BY DEF ParksOnlyAtStart
  <1> USE DEF readerVars, mainVars, workerVars
  <1>t. wpc \in [Workers -> WorkerPcs] /\ wjob \in [Workers -> Nat] /\ current \in Nat
    BY DEF TypeOK
  <1>1. CASE Reader
    BY <1>1
       DEF Reader, NewJob, TrySend, DrainOldest, Resend, ReaderReturns, ParksOnlyAtStart
  <1>2. CASE TakeJob
    BY <1>2 DEF TakeJob, ParksOnlyAtStart
  <1>3. CASE Publish
    BY <1>3, <1>t DEF Publish, ParksOnlyAtStart
  <1>4. CASE MainReturns
    BY <1>4 DEF MainReturns, ParksOnlyAtStart
  <1>5. ASSUME NEW w \in Workers, Worker(w)
        PROVE  wjob'[v] = NoJob
    <2>1. CASE CheckJob(w)
      <3>1. CASE current # NoJob
        BY <2>1, <3>1, <1>t DEF CheckJob, MoveTo, ParksOnlyAtStart
      <3>2. CASE current = NoJob
        <4>1. wjob' = wjob /\ wpc' = [wpc EXCEPT ![w] = "gap"]
          BY <2>1, <3>2 DEF CheckJob, MoveTo
        <4>2. wjob[w] <= 0
          BY <3>2 DEF JobOrder, NoJob
        <4> QED BY <4>1, <4>2, <1>t DEF ParksOnlyAtStart, NoJob
      <3> QED BY <3>1, <3>2
    <2>2. CASE StartWait(w)
      BY <2>2, <1>t DEF StartWait, MoveTo, ParksOnlyAtStart
    <2>3. CASE StartIteration(w)
      <3>1. PICK pc \in {"done", "top", "hash"} : wpc' = [wpc EXCEPT ![w] = pc]
        BY <2>3 DEF StartIteration, MoveTo
      <3> QED BY <2>3, <3>1, <1>t DEF StartIteration, ParksOnlyAtStart
    <2>4. CASE LoopTop(w) \/ RangeDone(w) \/ Hash(w) \/ Submit(w)
      <3>1. PICK pc \in {"done", "check", "top", "submit", "scan"} :
              wpc' = [wpc EXCEPT ![w] = pc]
        BY <2>4 DEF LoopTop, RangeDone, Hash, Submit, MoveTo
      <3>2. wjob' = wjob
        BY <2>4 DEF LoopTop, RangeDone, Hash, Submit
      <3> QED BY <3>1, <3>2, <1>t DEF ParksOnlyAtStart
    <2> QED BY <1>5, <2>1, <2>2, <2>3, <2>4 DEF Worker
  <1>6. CASE Cancel
    BY <1>6 DEF Cancel, ParksOnlyAtStart
  <1>7. CASE UNCHANGED vars
    BY <1>7 DEF vars, ParksOnlyAtStart
  <1> QED
    BY <1>1, <1>2, <1>3, <1>4, <1>5, <1>6, <1>7 DEF Next, Main, Terminated

-----------------------------------------------------------------------------
(* Late hashes. *)

\* The allowance never exceeds the check period.
LEMMA AllowanceBound ==
  ASSUME TypeOK, NEW w \in Workers
  PROVE  /\ Allowance(w) \in 0 .. CheckEvery
         /\ pos[w] % CheckEvery \in 0 .. CheckEvery - 1
  <1>1. pos[w] \in Nat
    BY DEF TypeOK
  <1>2. pos[w] % CheckEvery \in 0 .. CheckEvery - 1
    BY <1>1, CheckEveryAssumption, ModRange
  <1> QED BY <1>2, CheckEveryAssumption DEF Allowance

\* After an iteration the allowance of the next one has grown by one.
LEMMA AllowanceNext ==
  ASSUME TypeOK, NEW w \in Workers, wpc'[w] = "scan", pos'[w] = pos[w] + 1
  PROVE  Allowance(w)' = (pos[w] % CheckEvery) + 1
  <1>1. pos[w] \in Nat
    BY DEF TypeOK
  <1>2. pos[w] % CheckEvery \in 0 .. CheckEvery - 1
    BY AllowanceBound
  <1>3. pos'[w] % CheckEvery
          = IF pos[w] % CheckEvery = CheckEvery - 1 THEN 0 ELSE (pos[w] % CheckEvery) + 1
    BY <1>1, CheckEveryAssumption, ModNext
  <1> QED BY <1>2, <1>3, CheckEveryAssumption DEF Allowance

\* The part of LateWithinAllowance that is about one worker.
LateOK(v) ==
  /\ late[v] <= Allowance(v)
  /\ wpc[v] \in {"scan", "hash", "submit"} /\ late[v] > 0 => Obsolete(v)

\* A scan that has become obsolete stays obsolete: currentJob only moves on.
LEMMA ObsoleteStays ==
  ASSUME TypeOK, JobOrder, NEW v \in Workers, Obsolete(v),
         current' = current \/ (mainPc = "publish" /\ current' = taken),
         wjob'[v] = wjob[v], ctxDone' = ctxDone \/ ctxDone' = TRUE
  PROVE  Obsolete(v)'
  BY DEF Obsolete, JobOrder, TypeOK

\* A step that leaves worker v where it is keeps its part of the invariant.
LEMMA LateUnchanged ==
  ASSUME TypeOK, JobOrder, NEW v \in Workers, LateOK(v),
         current' = current \/ (mainPc = "publish" /\ current' = taken),
         wjob'[v] = wjob[v], ctxDone' = ctxDone \/ ctxDone' = TRUE,
         wpc'[v] = wpc[v], pos'[v] = pos[v], late'[v] = late[v]
  PROVE  LateOK(v)'
  BY ObsoleteStays DEF LateOK, Allowance

\* A worker that is not scanning is within the allowance if it was before.
LEMMA LateOutsideScan ==
  ASSUME TypeOK, NEW v \in Workers, LateOK(v), late'[v] = late[v],
         wpc'[v] \in {"top", "check", "gap", "waiting", "done"}
  PROVE  LateOK(v)'
  <1>1. late[v] <= Allowance(v) /\ Allowance(v) \in 0 .. CheckEvery /\ late[v] \in Nat
    BY AllowanceBound DEF LateOK, TypeOK
  <1>2. Allowance(v)' = CheckEvery
    BY DEF Allowance
  <1> QED BY <1>1, <1>2, CheckEveryAssumption DEF LateOK

\* A worker's own steps keep its part of the invariant.
LEMMA LateOwnStep ==
  ASSUME TypeOK, TypeOK', JobOrder, NEW v \in Workers, LateOK(v), Worker(v)
  PROVE  LateOK(v)'
  <1> USE DEF readerVars, mainVars, workerVars
  <1>t. /\ wpc \in [Workers -> WorkerPcs] /\ pos \in [Workers -> Nat]
        /\ late \in [Workers -> Nat] /\ pos[v] \in Nat /\ late[v] \in Nat
    BY DEF TypeOK
  <1>m. pos[v] % CheckEvery \in 0 .. CheckEvery - 1
    BY AllowanceBound
  <1>1. CASE LoopTop(v)
    <2>1. late' = late /\ wpc'[v] \in {"done", "check"}
      BY <1>1, <1>t DEF LoopTop, MoveTo
    <2> QED BY <2>1, LateOutsideScan
  <1>2. CASE CheckJob(v)
    <2>1. CASE current # NoJob
      <3>1. late'[v] = 0
        BY <1>2, <2>1, <1>t DEF CheckJob
      <3>2. Allowance(v)' \in 0 .. CheckEvery
        <4>1. pos'[v] % CheckEvery \in 0 .. CheckEvery - 1
          BY CheckEveryAssumption, ModRange DEF TypeOK
        <4> QED BY <4>1, CheckEveryAssumption DEF Allowance
      <3> QED BY <3>1, <3>2, CheckEveryAssumption DEF LateOK
    <2>2. CASE current = NoJob
      <3>1. late' = late /\ wpc'[v] = "gap"
        BY <1>2, <2>2, <1>t DEF CheckJob, MoveTo
      <3> QED BY <3>1, LateOutsideScan
    <2> QED BY <2>1, <2>2
  <1>3. CASE StartWait(v)
    <2>1. late' = late /\ wpc'[v] = "waiting"
      BY <1>3, <1>t DEF StartWait, MoveTo
    <2> QED BY <2>1, LateOutsideScan
  <1>4. CASE RangeDone(v)
    <2>1. late' = late /\ wpc'[v] = "top"
      BY <1>4, <1>t DEF RangeDone, MoveTo
    <2> QED BY <2>1, LateOutsideScan
  <1>5. CASE StartIteration(v)
    <2>1. late' = late /\ pos' = pos /\ wjob' = wjob /\ current' = current /\ ctxDone' = ctxDone
      BY <1>5 DEF StartIteration
    <2>2. CASE wpc'[v] = "hash"
      <3>1. Allowance(v)' = pos[v] % CheckEvery
        BY <2>1, <2>2 DEF Allowance
      <3>2. CASE pos[v] % CheckEvery = 0
        <4>1. ~Obsolete(v)
          BY <1>5, <2>2, <3>2, <1>t DEF StartIteration, MoveTo, Obsolete
        <4>2. late[v] = 0
          BY <4>1, <1>5, <1>t DEF LateOK, StartIteration
        <4> QED BY <2>1, <3>1, <3>2, <4>2 DEF LateOK
      <3>3. CASE pos[v] % CheckEvery # 0
        <4>1. late[v] <= pos[v] % CheckEvery /\ (late[v] > 0 => Obsolete(v))
          BY <1>5, <3>3 DEF StartIteration, LateOK, Allowance
        <4>2. Obsolete(v) => Obsolete(v)'
          BY <2>1 DEF Obsolete
        <4> QED BY <2>1, <3>1, <4>1, <4>2 DEF LateOK
      <3> QED BY <3>2, <3>3
    <2>3. CASE wpc'[v] \in {"top", "done"}
      BY <2>1, <2>3, LateOutsideScan
    <2>4. wpc'[v] \in {"hash", "top", "done"}
      <3>1. PICK pc \in {"done", "top", "hash"} : wpc' = [wpc EXCEPT ![v] = pc]
        BY <1>5 DEF StartIteration, MoveTo
      <3> QED BY <3>1, <1>t
    <2> QED BY <2>2, <2>3, <2>4
  <1>6. CASE Hash(v)
    <2>1. late[v] <= pos[v] % CheckEvery /\ (late[v] > 0 => Obsolete(v))
      BY <1>6 DEF Hash, LateOK, Allowance
    <2>2. late'[v] = IF Obsolete(v) THEN late[v] + 1 ELSE late[v]
      BY <1>6, <1>t DEF Hash
    <2>3. late'[v] <= (pos[v] % CheckEvery) + 1 /\ (late'[v] > 0 => Obsolete(v))
      BY <2>1, <2>2, <1>t, <1>m, CheckEveryAssumption
    <2>4. Obsolete(v) => Obsolete(v)'
      BY <1>6 DEF Hash, Obsolete
    <2>5. CASE wpc' = [wpc EXCEPT ![v] = "submit"] /\ UNCHANGED pos
      <3>1. Allowance(v)' = (pos[v] % CheckEvery) + 1
        BY <2>5, <1>t DEF Allowance
      <3> QED BY <2>3, <2>4, <3>1 DEF LateOK
    <2>6. CASE wpc' = [wpc EXCEPT ![v] = "scan"] /\ pos' = [pos EXCEPT ![v] = @ + 1]
      <3>1. Allowance(v)' = (pos[v] % CheckEvery) + 1
        BY <2>6, <1>t, AllowanceNext
      <3> QED BY <2>3, <2>4, <3>1 DEF LateOK
    <2> QED BY <1>6, <2>5, <2>6 DEF Hash, MoveTo
  <1>7. CASE Submit(v)
    <2>1. late[v] <= (pos[v] % CheckEvery) + 1 /\ (late[v] > 0 => Obsolete(v))
      BY <1>7 DEF Submit, LateOK, Allowance
    <2>2. Allowance(v)' = (pos[v] % CheckEvery) + 1
      BY <1>7, <1>t, AllowanceNext DEF Submit, MoveTo
    <2>3. late' = late /\ (Obsolete(v) => Obsolete(v)')
      BY <1>7 DEF Submit, Obsolete
    <2> QED BY <2>1, <2>2, <2>3 DEF LateOK
  <1> QED BY <1>1, <1>2, <1>3, <1>4, <1>5, <1>6, <1>7 DEF Worker

\* Every step preserves the bound on late hashes.
LEMMA LateStep ==
  TypeOK /\ TypeOK' /\ JobOrder /\ LateWithinAllowance /\ [Next]_vars
    => LateWithinAllowance'
  <1> SUFFICES ASSUME TypeOK, TypeOK', JobOrder, LateWithinAllowance, [Next]_vars,
                      NEW v \in Workers
               PROVE  LateOK(v)'
    BY DEF LateWithinAllowance, LateOK
  <1> USE DEF readerVars, mainVars, workerVars
  <1>v. LateOK(v)
    BY DEF LateWithinAllowance, LateOK
  <1>t. wpc \in [Workers -> WorkerPcs] /\ wjob \in [Workers -> Nat]
        /\ pos \in [Workers -> Nat] /\ late \in [Workers -> Nat]
    BY DEF TypeOK
  <1>1. CASE Reader \/ TakeJob \/ MainReturns \/ Cancel \/ UNCHANGED vars
    <2>1. /\ wpc' = wpc /\ wjob' = wjob /\ pos' = pos /\ late' = late
          /\ current' = current
          /\ ctxDone' = ctxDone \/ ctxDone' = TRUE
      BY <1>1
         DEF Reader, NewJob, TrySend, DrainOldest, Resend, ReaderReturns,
             TakeJob, MainReturns, Cancel, vars
    <2> QED BY <2>1, <1>v, LateUnchanged
  <1>2. CASE Publish
    <2>1. /\ wjob' = wjob /\ pos' = pos /\ late' = late
          /\ mainPc = "publish" /\ current' = taken /\ ctxDone' = ctxDone
          /\ wpc'[v] = IF wpc[v] = "waiting" THEN "check" ELSE wpc[v]
      BY <1>2 DEF Publish
    <2>2. CASE wpc[v] = "waiting"
      BY <2>1, <2>2, <1>v, LateOutsideScan
    <2>3. CASE wpc[v] # "waiting"
      BY <2>1, <2>3, <1>v, LateUnchanged
    <2> QED BY <2>2, <2>3
  <1>3. ASSUME NEW w \in Workers, Worker(w)
        PROVE  LateOK(v)'
    <2>1. CASE w = v
      BY <1>3, <1>v, <2>1, LateOwnStep
    <2>2. CASE w # v
      <3>1. current' = current /\ ctxDone' = ctxDone
        BY <1>3
           DEF Worker, LoopTop, CheckJob, StartWait, RangeDone, StartIteration, Hash, Submit
      <3>2. wpc'[v] = wpc[v]
        BY <1>3, <2>2, <1>t
           DEF Worker, LoopTop, CheckJob, StartWait, RangeDone, StartIteration, Hash,
               Submit, MoveTo
      <3>3. wjob'[v] = wjob[v] /\ pos'[v] = pos[v] /\ late'[v] = late[v]
        BY <1>3, <2>2, <1>t
           DEF Worker, LoopTop, CheckJob, StartWait, RangeDone, StartIteration, Hash, Submit
      <3> QED BY <3>1, <3>2, <3>3, <1>v, LateUnchanged
    <2> QED BY <2>1, <2>2
  <1> QED BY <1>1, <1>2, <1>3 DEF Next, Main, Terminated

-----------------------------------------------------------------------------
(* The invariant. *)

\* The inductive invariant holds at first.
LEMMA InvInit == Init => IInv
  <1> SUFFICES ASSUME Init PROVE IInv
    OBVIOUS
  <1>1. TypeOK
    BY TypeInit
  <1>2. Len(queue) = 0 /\ Enqueued = 0 /\ rdPc = "idle" /\ taken = 0 /\ current = 0
    BY EmptySeq DEF Init, NoJob, Enqueued
  <1>3. QueueHoldsNewest /\ SendNeverBlocks /\ SendingHasJob
    BY <1>2 DEF QueueHoldsNewest, SendNeverBlocks, SendingHasJob
  <1>4. JobOrder /\ ParksOnlyAtStart
    BY <1>2 DEF Init, JobOrder, ParksOnlyAtStart, NoJob
  <1>5. LateWithinAllowance
    <2> SUFFICES ASSUME NEW w \in Workers PROVE LateOK(w)
      BY DEF LateWithinAllowance, LateOK
    <2>1. late[w] = 0 /\ wpc[w] = "top"
      BY DEF Init
    <2>2. Allowance(w) \in 0 .. CheckEvery
      BY <1>1, AllowanceBound
    <2> QED BY <2>1, <2>2, CheckEveryAssumption DEF LateOK
  <1> QED BY <1>1, <1>3, <1>4, <1>5 DEF IInv

\* Every step preserves the inductive invariant.
LEMMA InvStep == IInv /\ [Next]_vars => IInv'
  <1> SUFFICES ASSUME IInv, [Next]_vars PROVE IInv'
    OBVIOUS
  <1>1. TypeOK /\ QueueInv /\ JobOrder /\ ParksOnlyAtStart /\ LateWithinAllowance
    BY DEF IInv, QueueInv
  <1>2. TypeOK'
    BY <1>1, TypeStep
  <1>3. QueueInv'
    BY <1>1, QueueStep
  <1>4. JobOrder'
    BY <1>1, OrderStep
  <1>5. ParksOnlyAtStart'
    BY <1>1, ParkStep
  <1>6. LateWithinAllowance'
    BY <1>1, <1>2, LateStep
  <1> QED BY <1>2, <1>3, <1>4, <1>5, <1>6 DEF IInv, QueueInv

\* The invariant bounds the late hashes by the check period.
LEMMA InvBoundsLate == IInv => StaleWorkBounded
  <1> SUFFICES ASSUME IInv, NEW w \in Workers PROVE late[w] <= CheckEvery
    BY DEF StaleWorkBounded
  <1>1. late[w] <= Allowance(w) /\ late[w] \in Nat
    BY DEF IInv, LateWithinAllowance, TypeOK
  <1>2. Allowance(w) \in 0 .. CheckEvery
    BY AllowanceBound DEF IInv
  <1> QED BY <1>1, <1>2, CheckEveryAssumption

\* The inductive invariant holds in every reachable state.
THEOREM Invariance == Spec => []IInv
  <1>1. Init => IInv
    BY InvInit
  <1>2. IInv /\ [Next]_vars => IInv'
    BY InvStep
  <1> QED BY <1>1, <1>2, PTL DEF Spec

\* The variables always have their types.
THEOREM TypeCorrect == Spec => []TypeOK
  <1>1. IInv => TypeOK
    BY DEF IInv
  <1> QED BY <1>1, Invariance, PTL

\* jobCh always holds a gapless run of the newest jobs.
THEOREM NewestJobsKept == Spec => []QueueHoldsNewest
  <1>1. IInv => QueueHoldsNewest
    BY DEF IInv
  <1> QED BY <1>1, Invariance, PTL

\* The last send of handleNotify never finds the channel full.
THEOREM ReadLoopNeverBlocks == Spec => []SendNeverBlocks
  <1>1. IInv => SendNeverBlocks
    BY DEF IInv
  <1> QED BY <1>1, Invariance, PTL

\* A worker does at most CheckEvery hashes for a job that was replaced.
THEOREM StaleWorkIsBounded == Spec => []StaleWorkBounded
  <1>1. IInv => StaleWorkBounded
    BY InvBoundsLate
  <1> QED BY <1>1, Invariance, PTL

\* A worker parks only before its first job.
THEOREM ParkingOnlyAtStart == Spec => []ParksOnlyAtStart
  <1>1. IInv => ParksOnlyAtStart
    BY DEF IInv
  <1> QED BY <1>1, Invariance, PTL

-----------------------------------------------------------------------------
(* The refinement. *)

\* The first state is one of LatestJob.
LEMMA PromiseInit == Init => Promise!Init
  BY DEF Init, Promise!Init, NoJob

\* Every step is one of LatestJob, or leaves its variables alone.
LEMMA PromiseStep == IInv /\ [Next]_vars => [Promise!Next]_(Promise!vars)
  <1> SUFFICES ASSUME IInv, [Next]_vars PROVE [Promise!Next]_(Promise!vars)
    OBVIOUS
  <1> USE DEF readerVars, mainVars, workerVars, Promise!vars
  <1>t. /\ TypeOK /\ QueueInv /\ JobOrder /\ notified \in Nat /\ taken \in Nat
        /\ current \in Nat /\ wjob \in [Workers -> Nat]
    BY DEF IInv, QueueInv, TypeOK
  <1>1. CASE NewJob
    BY <1>1 DEF NewJob, Promise!Next, Promise!Offer
  <1>2. CASE TrySend \/ DrainOldest \/ Resend \/ ReaderReturns
    BY <1>2 DEF TrySend, DrainOldest, Resend, ReaderReturns
  <1>3. CASE TakeJob
    <2>1. queue # <<>> /\ taken' = Head(queue) /\ UNCHANGED <<notified, wjob>>
      BY <1>3 DEF TakeJob
    <2>2. Len(Tail(queue)) \in 0 .. JobCap - 1 /\ taken' = Enqueued - Len(Tail(queue))
          /\ taken < taken' /\ Enqueued \in Nat
      BY <2>1, <1>t, TailOfRun, JobCapAssumption
    <2>3. Enqueued <= notified /\ notified <= Enqueued + 1
      BY <1>t DEF Enqueued
    <2>4. taken' \in (taken + 1) .. notified /\ notified - taken' <= JobCap
      BY <2>2, <2>3, <1>t, JobCapAssumption
    <2> QED BY <2>1, <2>4 DEF Promise!Next, Promise!Adopt
  <1>4. CASE Publish \/ MainReturns \/ Cancel
    BY <1>4 DEF Publish, MainReturns, Cancel
  <1>5. ASSUME NEW w \in Workers, Worker(w)
        PROVE  [Promise!Next]_(Promise!vars)
    <2>1. CASE wjob' = wjob
      BY <1>5, <2>1
         DEF Worker, LoopTop, CheckJob, StartWait, RangeDone, StartIteration, Hash, Submit
    <2>2. CASE wjob' # wjob
      <3>1. wjob' = [wjob EXCEPT ![w] = current] /\ UNCHANGED <<notified, taken>>
        BY <1>5, <2>2
           DEF Worker, LoopTop, CheckJob, StartWait, RangeDone, StartIteration, Hash, Submit
      <3>2. current \in wjob[w] .. taken
        BY <1>t DEF JobOrder
      <3>3. Promise!TakeUp(w)
        BY <3>1, <3>2 DEF Promise!TakeUp
      <3> QED BY <3>3 DEF Promise!Next
    <2> QED BY <2>1, <2>2
  <1>6. CASE UNCHANGED vars
    BY <1>6 DEF vars
  <1> QED
    BY <1>1, <1>2, <1>3, <1>4, <1>5, <1>6 DEF Next, Reader, Main, Terminated

\* Job dispatch implements LatestJob: jobs are adopted and taken up in the
\* order the pool sent them, never one overtaken by more than JobCap others.
THEOREM DispatchImplementsLatestJob == Spec => ImplementsLatestJob
  <1>1. Init => Promise!Init
    BY PromiseInit
  <1>2. IInv /\ [Next]_vars => [Promise!Next]_(Promise!vars)
    BY PromiseStep
  <1> QED BY <1>1, <1>2, Invariance, PTL DEF Spec, ImplementsLatestJob, Promise!Spec
=============================================================================
