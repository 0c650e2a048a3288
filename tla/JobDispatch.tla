---------------------------- MODULE JobDispatch ----------------------------
(***************************************************************************)
(* The path of a job through the pool miner: the stratum read loop         *)
(* (client.go, handleNotify) puts it on the bounded channel jobCh, the     *)
(* main loop of RunMiner (stratum.go) takes it off, publishes it as        *)
(* currentJob and wakes the workers, and each worker scans its part of the *)
(* nonce space until it notices that its job is no longer the current one. *)
(*                                                                         *)
(* Every goroutine has a program counter and an action is the code between *)
(* two points where another goroutine can be seen.  A section of code that *)
(* holds jobMu without blocking is one action.  A job is its number in the *)
(* order of the mining.notify messages (each message allocates a *Job, and *)
(* the code compares the pointers); 0 is the nil pointer.                  *)
(***************************************************************************)
EXTENDS Naturals, Sequences

CONSTANTS NumWorkers,  \* RunMiner's numWorkers
          NonceSpace,  \* 0x100000000 in the code
          CheckEvery,  \* 1024: a worker looks for a new job at its multiples
          JobCap,      \* the capacity of jobCh, 4
          MaxJobs      \* bound: the pool sends this many jobs

ASSUME NumWorkersAssumption == NumWorkers \in Nat \ {0}
ASSUME NonceSpaceAssumption == NonceSpace \in Nat
ASSUME CheckEveryAssumption == CheckEvery \in Nat \ {0}
ASSUME JobCapAssumption     == JobCap \in Nat \ {0}
ASSUME MaxJobsAssumption    == MaxJobs \in Nat

Workers == 0 .. NumWorkers - 1
NoJob   == 0

\* The nonces worker w scans are sn <= pos < en.
RangeLen  == NonceSpace \div NumWorkers
Start(w)  == w * RangeLen
End(w)    == Start(w) + RangeLen

VARIABLES
  notified,  \* jobs made by handleNotify so far; the newest job's number
  rdPc,      \* the read loop: idle, or inside handleNotify's send
  queue,     \* jobCh
  mainPc,    \* the main loop of RunMiner
  taken,     \* the job the main loop last received from jobCh
  current,   \* RunMiner's currentJob
  wpc,       \* wpc[w]: where worker w is
  wjob,      \* wjob[w]: the worker's local job
  pos,       \* pos[w]: the next nonce it tries
  late,      \* history: hashes of this scan done after it had become pointless
  ctxDone    \* the context is cancelled

readerVars == <<notified, rdPc>>
mainVars   == <<mainPc, taken, current>>
workerVars == <<wpc, wjob, pos, late>>
vars       == <<readerVars, queue, mainVars, workerVars, ctxDone>>

\* Where a worker can be: "gap" is between giving the read lock up and taking
\* the write lock to wait, "hash" inside an iteration, "submit" in SubmitShare.
WorkerPcs ==
  {"top", "check", "gap", "waiting", "scan", "hash", "submit", "done"}

TypeOK ==
  /\ notified \in Nat
  /\ rdPc \in {"idle", "send", "drain", "resend", "returned"}
  /\ queue \in Seq(Nat) /\ Len(queue) <= JobCap
  /\ mainPc \in {"loop", "publish", "returned"}
  /\ taken \in Nat
  /\ current \in Nat
  /\ wpc \in [Workers -> WorkerPcs]
  /\ wjob \in [Workers -> Nat]
  /\ pos \in [Workers -> Nat]
  /\ late \in [Workers -> Nat]
  /\ ctxDone \in BOOLEAN

Init ==
  /\ notified = 0
  /\ rdPc = "idle"
  /\ queue = <<>>
  /\ mainPc = "loop"
  /\ taken = NoJob
  /\ current = NoJob
  /\ wpc = [w \in Workers |-> "top"]
  /\ wjob = [w \in Workers |-> NoJob]
  /\ pos = [w \in Workers |-> 0]
  /\ late = [w \in Workers |-> 0]
  /\ ctxDone = FALSE

-----------------------------------------------------------------------------
(* The read loop.  Connect runs it during the handshake and Run afterwards, *)
(* one after the other, so jobCh has a single sender.                       *)

\* mining.notify arrives: the job is built, and the send is still to come.
NewJob ==
  /\ rdPc = "idle"
  /\ notified < MaxJobs
  /\ notified' = notified + 1
  /\ rdPc' = "send"
  /\ UNCHANGED <<queue, mainVars, workerVars, ctxDone>>

\* Mutant: an off-by-one lets a send into the full channel.
TrySendOneMore ==
  /\ rdPc = "send"
  /\ \/ /\ Len(queue) <= JobCap
        /\ queue' = Append(queue, notified)
        /\ rdPc' = "idle"
     \/ /\ Len(queue) > JobCap
        /\ rdPc' = "drain"
        /\ UNCHANGED queue
  /\ UNCHANGED <<notified, mainVars, workerVars, ctxDone>>

\* Mutant: a job that finds the channel full is dropped, not the oldest one.
TrySendOrSkip ==
  /\ rdPc = "send"
  /\ rdPc' = "idle"
  /\ queue' = IF Len(queue) < JobCap THEN Append(queue, notified) ELSE queue
  /\ UNCHANGED <<notified, mainVars, workerVars, ctxDone>>

\* The outer select: send if there is room, else fall to its default.
TrySend ==
  /\ rdPc = "send"
  /\ \/ /\ Len(queue) < JobCap
        /\ queue' = Append(queue, notified)
        /\ rdPc' = "idle"
     \/ /\ Len(queue) = JobCap
        /\ rdPc' = "drain"
        /\ UNCHANGED queue
  /\ UNCHANGED <<notified, mainVars, workerVars, ctxDone>>

\* Mutant: nothing is dropped before the unconditional send.
DrainNothing ==
  /\ rdPc = "drain"
  /\ rdPc' = "resend"
  /\ UNCHANGED <<notified, queue, mainVars, workerVars, ctxDone>>

\* The inner select: drop the oldest waiting job, if one is still there.
DrainOldest ==
  /\ rdPc = "drain"
  /\ queue' = IF queue = <<>> THEN queue ELSE Tail(queue)
  /\ rdPc' = "resend"
  /\ UNCHANGED <<notified, mainVars, workerVars, ctxDone>>

\* The last, unconditional send: it blocks while the channel is full.
Resend ==
  /\ rdPc = "resend"
  /\ Len(queue) < JobCap
  /\ queue' = Append(queue, notified)
  /\ rdPc' = "idle"
  /\ UNCHANGED <<notified, mainVars, workerVars, ctxDone>>

\* A read or a reconnect fails once the context is cancelled, and Run returns.
ReaderReturns ==
  /\ rdPc = "idle"
  /\ ctxDone
  /\ rdPc' = "returned"
  /\ UNCHANGED <<notified, queue, mainVars, workerVars, ctxDone>>

Reader == NewJob \/ TrySend \/ DrainOldest \/ Resend \/ ReaderReturns

-----------------------------------------------------------------------------
(* The main loop.  When the context is cancelled and a job is ready, Go's   *)
(* select takes either case.                                                *)

\* Mutant: the newest waiting job is taken and the older ones are left.
TakeNewest ==
  /\ mainPc = "loop"
  /\ queue # <<>>
  /\ taken' = queue[Len(queue)]
  /\ queue' = SubSeq(queue, 1, Len(queue) - 1)
  /\ mainPc' = "publish"
  /\ UNCHANGED <<readerVars, current, workerVars, ctxDone>>

TakeJob ==
  /\ mainPc = "loop"
  /\ queue # <<>>
  /\ taken' = Head(queue)
  /\ queue' = Tail(queue)
  /\ mainPc' = "publish"
  /\ UNCHANGED <<readerVars, current, workerVars, ctxDone>>

\* currentJob = job and jobCond.Broadcast(), both under jobMu.  A woken worker
\* reacquires the lock and looks at currentJob again.
Publish ==
  /\ mainPc = "publish"
  /\ current' = taken
  /\ wpc' = [w \in Workers |-> IF wpc[w] = "waiting" THEN "check" ELSE wpc[w]]
  /\ mainPc' = "loop"
  /\ UNCHANGED <<readerVars, queue, taken, wjob, pos, late, ctxDone>>

MainReturns ==
  /\ mainPc = "loop"
  /\ ctxDone
  /\ mainPc' = "returned"
  /\ UNCHANGED <<readerVars, queue, taken, current, workerVars, ctxDone>>

Main == TakeJob \/ Publish \/ MainReturns

-----------------------------------------------------------------------------
(* A worker. *)

MoveTo(w, pc) == wpc' = [wpc EXCEPT ![w] = pc]

\* The top of the loop: stop if the context is cancelled.
LoopTop(w) ==
  /\ wpc[w] = "top"
  /\ MoveTo(w, IF ctxDone THEN "done" ELSE "check")
  /\ UNCHANGED <<readerVars, queue, mainVars, wjob, pos, late, ctxDone>>

\* Mutant: a worker that has scanned its range for a job waits for another job.
CheckJobIsNew(w) ==
  /\ wpc[w] = "check"
  /\ \/ /\ current # wjob[w]
        /\ wjob' = [wjob EXCEPT ![w] = current]
        /\ pos' = [pos EXCEPT ![w] = Start(w)]
        /\ late' = [late EXCEPT ![w] = 0]
        /\ MoveTo(w, "scan")
     \/ /\ current = wjob[w]
        /\ MoveTo(w, "gap")
        /\ UNCHANGED <<wjob, pos, late>>
  /\ UNCHANGED <<readerVars, queue, mainVars, ctxDone>>

\* Under the read lock: take the current job, and begin a scan of the range
\* for it, or find that there is none and give the read lock up.
CheckJob(w) ==
  /\ wpc[w] = "check"
  /\ \/ /\ current # NoJob
        /\ wjob' = [wjob EXCEPT ![w] = current]
        /\ pos' = [pos EXCEPT ![w] = Start(w)]
        /\ late' = [late EXCEPT ![w] = 0]
        /\ MoveTo(w, "scan")
     \/ /\ current = NoJob
        /\ MoveTo(w, "gap")
        /\ UNCHANGED <<wjob, pos, late>>
  /\ UNCHANGED <<readerVars, queue, mainVars, ctxDone>>

\* Under the write lock, and without a second look at currentJob: wait.
StartWait(w) ==
  /\ wpc[w] = "gap"
  /\ MoveTo(w, "waiting")
  /\ UNCHANGED <<readerVars, queue, mainVars, wjob, pos, late, ctxDone>>

RangeDone(w) ==
  /\ wpc[w] = "scan"
  /\ pos[w] >= End(w)
  /\ MoveTo(w, "top")
  /\ UNCHANGED <<readerVars, queue, mainVars, wjob, pos, late, ctxDone>>

\* Mutant: the periodic check looks at the context only.
StartIterationSameJob(w) ==
  /\ wpc[w] = "scan"
  /\ pos[w] < End(w)
  /\ MoveTo(w, IF pos[w] % CheckEvery = 0 /\ ctxDone THEN "done" ELSE "hash")
  /\ UNCHANGED <<readerVars, queue, mainVars, wjob, pos, late, ctxDone>>

\* The start of an iteration: at a multiple of CheckEvery the worker looks at
\* the context and then at currentJob.
StartIteration(w) ==
  /\ wpc[w] = "scan"
  /\ pos[w] < End(w)
  /\ LET checks == pos[w] % CheckEvery = 0
     IN  MoveTo(w, IF checks /\ ctxDone THEN "done"
                   ELSE IF checks /\ current # wjob[w] THEN "top"
                   ELSE "hash")
  /\ UNCHANGED <<readerVars, queue, mainVars, wjob, pos, late, ctxDone>>

\* The worker's scan is of no more use: its job was replaced, or the miner stops.
Obsolete(w) == current # wjob[w] \/ ctxDone

\* One proof-of-work hash; whether it meets job.Target is left open.
Hash(w) ==
  /\ wpc[w] = "hash"
  /\ late' = [late EXCEPT ![w] = IF Obsolete(w) THEN @ + 1 ELSE @]
  /\ \/ /\ MoveTo(w, "submit")
        /\ UNCHANGED pos
     \/ /\ MoveTo(w, "scan")
        /\ pos' = [pos EXCEPT ![w] = @ + 1]
  /\ UNCHANGED <<readerVars, queue, mainVars, wjob, ctxDone>>

\* Mutant: after a share the worker begins anew at the check for a job.
SubmitThenRestart(w) ==
  /\ wpc[w] = "submit"
  /\ MoveTo(w, "check")
  /\ UNCHANGED <<readerVars, queue, mainVars, wjob, pos, late, ctxDone>>

\* client.SubmitShare returns, its error is ignored and the scan goes on.
Submit(w) ==
  /\ wpc[w] = "submit"
  /\ MoveTo(w, "scan")
  /\ pos' = [pos EXCEPT ![w] = @ + 1]
  /\ UNCHANGED <<readerVars, queue, mainVars, wjob, late, ctxDone>>

Worker(w) ==
  \/ LoopTop(w) \/ CheckJob(w) \/ StartWait(w)
  \/ RangeDone(w) \/ StartIteration(w) \/ Hash(w) \/ Submit(w)

-----------------------------------------------------------------------------

\* The user stops the miner.
Cancel ==
  /\ ~ctxDone
  /\ ctxDone' = TRUE
  /\ UNCHANGED <<readerVars, queue, mainVars, workerVars>>

\* Nothing is left to happen: a worker has stopped or is parked for ever.
Terminated ==
  /\ rdPc = "returned"
  /\ mainPc = "returned"
  /\ \A w \in Workers : wpc[w] \in {"waiting", "done"}
  /\ UNCHANGED vars

Next ==
  \/ Reader
  \/ Main
  \/ \E w \in Workers : Worker(w)
  \/ Cancel
  \/ Terminated

\* A runnable goroutine is run: the Go scheduler is preemptive and jobMu is
\* held for a bounded time.  The pool and the user owe nothing.
Fairness ==
  /\ WF_vars(TrySend \/ DrainOldest \/ Resend)
  /\ WF_vars(Main)
  /\ \A w \in Workers : WF_vars(Worker(w))

Spec == Init /\ [][Next]_vars /\ Fairness

-----------------------------------------------------------------------------
(* Safety. *)

\* The newest job that has been put on jobCh.
Enqueued == IF rdPc \in {"send", "drain", "resend"} THEN notified - 1 ELSE notified

\* However the drain of handleNotify and the receive of the main loop fall
\* together, the channel holds a gapless run of the newest jobs, in order, all
\* newer than the one the main loop took last.  Only the job the read loop is
\* about to send may be missing, so a new job is never dropped for an old one.
QueueHoldsNewest ==
  /\ \A i \in 1 .. Len(queue) : queue[i] = Enqueued - Len(queue) + i
  /\ taken <= Enqueued - Len(queue)
  /\ rdPc # "resend" /\ queue = <<>> => taken = Enqueued

\* The unconditional send at the end of handleNotify never finds the channel
\* full, so the read loop cannot hang in it, whether or not the main loop is
\* still there to receive.
SendNeverBlocks == rdPc = "resend" => Len(queue) < JobCap

\* A worker that scans for a replaced job, or after the miner was told to stop,
\* does at most CheckEvery more hashes before it notices.
StaleWorkBounded == \A w \in Workers : late[w] <= CheckEvery

\* A worker waits on the condition variable only before its first job: once it
\* has mined, no later step of the main loop can make it park again.
ParksOnlyAtStart ==
  \A w \in Workers : wpc[w] \in {"gap", "waiting"} => wjob[w] = NoJob

\* The detailed dispatch implements the promise of LatestJob.  A job is adopted
\* when the main loop receives it.
Promise == INSTANCE LatestJob
             WITH Miners <- Workers, Lag <- JobCap,
                  offered <- notified, adopted <- taken, mining <- wjob

\* Every step of dispatch is a step LatestJob allows: jobs are adopted and taken
\* up in the order the pool sent them, and never one overtaken by more than
\* JobCap others.
ImplementsLatestJob == Promise!Spec

-----------------------------------------------------------------------------
(* Liveness. *)

\* A job the pool has sent reaches every worker that is mining, or is overtaken
\* by a newer one, unless the miner is stopped.
WorkersFollowPool ==
  \A n \in 1 .. MaxJobs, w \in Workers :
    (notified >= n /\ wjob[w] # NoJob) ~> (wjob[w] >= n \/ ctxDone)

\* Once the miner is stopped every worker stops, or is parked without a job.
WorkersStop ==
  \A w \in Workers : ctxDone ~> (wpc[w] \in {"done", "waiting"})

\* "The miner will automatically use all cores" (TUNING.md): when there is a job
\* every worker gets to mine, unless the miner is stopped first.
EveryWorkerMines ==
  \A w \in Workers : (current # NoJob) ~> (wjob[w] # NoJob \/ ctxDone)
=============================================================================
