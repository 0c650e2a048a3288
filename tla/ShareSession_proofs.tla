------------------------ MODULE ShareSession_proofs ------------------------
(***************************************************************************)
(* For any number of workers, connections, pushes, extranonce2 values and  *)
(* shares: the shares a worker submits for a job of the connection it      *)
(* writes on verify there, requestTimes never keeps an entry whose answer  *)
(* handleMessage has seen, a job's target is the pool's, and no coinbase   *)
(* is built twice before extranonce2 has run through its width.            *)
(***************************************************************************)
EXTENDS ShareSession, NatFacts, TLAPS, SequenceTheorems

\* The bytes NextExtranonce2 writes.
LEMMA DigitsType ==
  ASSUME NEW val \in Nat, NEW size \in Nat
  PROVE  Digits(val, size) \in Seq(Byte) /\ Len(Digits(val, size)) = size
<1>1. ASSUME NEW i \in 1 .. size
      PROVE  (val \div Pow(Base, size - i)) % Base \in Byte
  <2>1. size - i \in Nat
    OBVIOUS
  <2>2. Base \in Nat \ {0}
    BY SizesAssumption
  <2>3. val \div Pow(Base, size - i) \in Nat
    BY <2>1, <2>2, PowPositive, DivNat
  <2>4. QED
    BY <2>2, <2>3, ModRange DEF Byte
<1>2. Digits(val, size) \in [1 .. size -> Byte]
  BY <1>1 DEF Digits
<1>3. QED
  BY <1>2

LEMMA TypeInit == Init => TypeOK
<1> SUFFICES ASSUME Init PROVE TypeOK
  OBVIOUS
<1>1. ReaderTypeOK
  <2>1. <<>> \in Seq(Byte) /\ 0 \in 0 .. MaxConns /\ Default \in Nat
    BY SizesAssumption, PoolAssumption
  <2>2. QED
    BY <2>1 DEF Init, ReaderTypeOK, None
<1>2. JobsTypeOK
  BY DEF Init, JobsTypeOK, None
<1>3. NetTypeOK /\ IdsTypeOK
  BY DEF Init, NetTypeOK, IdsTypeOK, None
<1>4. WorkTypeOK
  <2>1. NoWork \in Work
    BY DEF NoWork, Work, None
  <2>2. QED
    BY <2>1 DEF Init, WorkTypeOK
<1>5. QED
  BY <1>1, <1>2, <1>3, <1>4 DEF TypeOK

-----------------------------------------------------------------------------
(* The reader and the pool: each keeps its types. *)

LEMMA PushType ==
  ASSUME TypeOK, pc # "dial", NEW line \in Line, HandlePush(line),
         UNCHANGED <<adopted, job>>
  PROVE  difficulty' \in Nat /\ JobsTypeOK'
<1>1. CASE line.kind = "diff"
  BY <1>1 DEF HandlePush, Line, TypeOK, JobsTypeOK
<1>2. CASE line.kind = "notify"
  <2> DEFINE new == [conn |-> conn, due |-> line.arg, target |-> difficulty]
  <2>1. new \in Job
    BY DEF Job, Line, TypeOK, ReaderTypeOK
  <2>2. jobs' = Append(jobs, new) /\ offered' = offered + 1 /\ difficulty' = difficulty
    BY <1>2 DEF HandlePush
  <2> HIDE DEF new
  <2>3. QED
    BY <2>1, <2>2 DEF TypeOK, ReaderTypeOK, JobsTypeOK
<1>3. QED
  BY <1>1, <1>2 DEF HandlePush

LEMMA ReaderType == TypeOK /\ Reader => TypeOK'
<1> SUFFICES ASSUME TypeOK, Reader PROVE TypeOK'
  OBVIOUS
<1> USE DEF readerVars, netVars, poolVars, idVars, workerVars
<1>1. CASE AssignConn
  <2>1. ReaderTypeOK'
    BY <1>1, SizesAssumption DEF AssignConn, TypeOK, ReaderTypeOK, Conns
  <2>2. JobsTypeOK' /\ NetTypeOK' /\ IdsTypeOK' /\ WorkTypeOK'
    BY <1>1 DEF AssignConn, TypeOK, JobsTypeOK, NetTypeOK, IdsTypeOK, WorkTypeOK, None
  <2>3. QED
    BY <2>1, <2>2 DEF TypeOK
<1>2. ASSUME NEW from \in {"subscribe", "authorize"}, NEW to \in {"subWait", "authWait"},
             SendHandshake(from, from, to)
      PROVE  TypeOK'
  <2>1. ReaderTypeOK'
    BY <1>2 DEF SendHandshake, TypeOK, ReaderTypeOK
  <2>2. NetTypeOK' /\ IdsTypeOK'
    <3>1. [kind |-> from, id |-> msgID + 1] \in Request
      BY DEF Request, TypeOK, IdsTypeOK
    <3>2. QED
      BY <1>2, <3>1 DEF SendHandshake, TypeOK, NetTypeOK, IdsTypeOK
  <2>3. JobsTypeOK' /\ WorkTypeOK'
    BY <1>2 DEF SendHandshake, TypeOK, JobsTypeOK, WorkTypeOK
  <2>4. QED
    BY <2>1, <2>2, <2>3 DEF TypeOK
<1>3. CASE ReadSubscribe
  <2>1. ReaderTypeOK'
    BY <1>3, PoolAssumption DEF ReadSubscribe, TypeOK, ReaderTypeOK, Conns
  <2>2. NetTypeOK'
    BY <1>3 DEF ReadSubscribe, TypeOK, NetTypeOK
  <2>3. JobsTypeOK' /\ IdsTypeOK' /\ WorkTypeOK'
    BY <1>3 DEF ReadSubscribe, TypeOK, JobsTypeOK, IdsTypeOK, WorkTypeOK
  <2>4. QED
    BY <2>1, <2>2, <2>3 DEF TypeOK
<1>4. CASE ReadAuthorize \/ ReadMessage
  <2> DEFINE line == Head(toCli)
  <2>1. line \in Line /\ toCli' \in Seq(Line)
    <3>1. toCli # <<>> /\ toCli' = Tail(toCli)
      BY <1>4 DEF ReadAuthorize, ReadMessage
    <3>2. QED
      BY <3>1 DEF TypeOK, NetTypeOK
  <2>2. pc # "dial" /\ pc' \in {"dial", "authWait", "run"} /\ up' \in BOOLEAN
    BY <1>4 DEF ReadAuthorize, ReadMessage, TypeOK, ReaderTypeOK
  <2>3. difficulty' \in Nat /\ JobsTypeOK'
    <3>1. CASE HandlePush(line)
      BY <1>4, <2>1, <2>2, <3>1, PushType DEF ReadAuthorize, ReadMessage
    <3>2. CASE UNCHANGED <<difficulty, jobs, offered>>
      BY <1>4, <3>2 DEF ReadAuthorize, ReadMessage, TypeOK, ReaderTypeOK, JobsTypeOK
    <3>3. QED
      BY <1>4, <3>1, <3>2 DEF ReadAuthorize, ReadMessage
  <2>4. ReaderTypeOK'
    BY <1>4, <2>2, <2>3 DEF ReadAuthorize, ReadMessage, TypeOK, ReaderTypeOK
  <2>5. NetTypeOK' /\ WorkTypeOK'
    BY <1>4, <2>1 DEF ReadAuthorize, ReadMessage, TypeOK, NetTypeOK, WorkTypeOK
  <2>6. IdsTypeOK'
    BY <1>4, <2>1 DEF ReadAuthorize, ReadMessage, TypeOK, IdsTypeOK, Line
  <2>7. QED
    BY <2>3, <2>4, <2>5, <2>6 DEF TypeOK
<1>5. CASE ConnectionLost
  <2>1. ReaderTypeOK' /\ JobsTypeOK' /\ IdsTypeOK' /\ WorkTypeOK'
    BY <1>5 DEF ConnectionLost, TypeOK, ReaderTypeOK, JobsTypeOK, IdsTypeOK, WorkTypeOK
  <2>2. NetTypeOK'
    BY <1>5 DEF ConnectionLost, TypeOK, NetTypeOK
  <2>3. QED
    BY <2>1, <2>2 DEF TypeOK
<1>6. QED
  BY <1>1, <1>2, <1>3, <1>4, <1>5 DEF Reader, SendSubscribe, SendAuthorize

LEMMA PoolType == TypeOK /\ Pool => TypeOK'
<1> SUFFICES ASSUME TypeOK, Pool PROVE TypeOK'
  OBVIOUS
<1> USE DEF readerVars, netVars, poolVars, idVars, workerVars
<1>1. /\ IdsTypeOK' /\ WorkTypeOK' /\ JobsTypeOK'
  BY DEF Pool, Answer, SetDifficulty, Notify, Break, TypeOK, IdsTypeOK, WorkTypeOK, JobsTypeOK
<1>2. ReaderTypeOK'
  BY DEF Pool, Answer, SetDifficulty, Notify, Break, TypeOK, ReaderTypeOK
<1>3. NetTypeOK'
  <2>1. CASE Answer
    <3>1. Head(toSrv) \in Request /\ toSrv' \in Seq(Request)
      BY <2>1 DEF Answer, TypeOK, NetTypeOK
    <3>2. PICK kind \in {"sub", "true", "false"} :
            toCli' = Append(toCli, [kind |-> kind, id |-> Head(toSrv).id, arg |-> 0])
      BY <2>1 DEF Answer
    <3>3. [kind |-> kind, id |-> Head(toSrv).id, arg |-> 0] \in Line
      BY <3>1 DEF Line, Request
    <3>4. QED
      BY <2>1, <3>1, <3>2, <3>3 DEF Answer, TypeOK, NetTypeOK
  <2>2. ASSUME NEW d \in Diffs, SetDifficulty(d)
        PROVE  NetTypeOK'
    <3>1. [kind |-> "diff", id |-> None, arg |-> d] \in Line /\ d \in Nat
      BY PoolAssumption DEF Line, None
    <3>2. QED
      BY <2>2, <3>1 DEF SetDifficulty, TypeOK, NetTypeOK
  <2>3. CASE Notify
    <3>1. [kind |-> "notify", id |-> None, arg |-> poolDiff] \in Line
      BY DEF Line, None, TypeOK, NetTypeOK
    <3>2. QED
      BY <2>3, <3>1 DEF Notify, TypeOK, NetTypeOK
  <2>4. CASE Break
    BY <2>4 DEF Break, TypeOK, NetTypeOK
  <2>5. QED
    BY <2>1, <2>2, <2>3, <2>4 DEF Pool
<1>4. QED
  BY <1>1, <1>2, <1>3 DEF TypeOK

-----------------------------------------------------------------------------
(* The workers. *)

\* Replacing a worker's work or place by one of the right type keeps the types.
LEMMA WorkerUpdate ==
  ASSUME TypeOK, NEW w \in Workers, NEW new \in Work,
         NEW place \in {"take", "en2", "build", "mine", "store", "write"},
         work' = [work EXCEPT ![w] = new] \/ UNCHANGED work,
         wpc' = [wpc EXCEPT ![w] = place]
  PROVE  /\ work' \in [Workers -> Work]
         /\ wpc' \in [Workers -> {"take", "en2", "build", "mine", "store", "write"}]
BY DEF TypeOK, WorkTypeOK

LEMMA WorkerType ==
  ASSUME TypeOK, NEW w \in Workers, Worker(w)
  PROVE  TypeOK'
<1> USE DEF readerVars, netVars, poolVars, idVars, workerVars
<1>1. work[w] \in Work
  BY DEF TypeOK, WorkTypeOK
<1>2. CASE Take(w)
  <2>1. JobsTypeOK'
    BY <1>2 DEF Take, TypeOK, JobsTypeOK
  <2>2. WorkTypeOK'
    BY <1>1, <1>2, WorkerUpdate DEF Take, TypeOK, WorkTypeOK
  <2>3. ReaderTypeOK' /\ NetTypeOK' /\ IdsTypeOK'
    BY <1>2 DEF Take, TypeOK, ReaderTypeOK, NetTypeOK, IdsTypeOK
  <2>4. QED
    BY <2>1, <2>2, <2>3 DEF TypeOK
<1>3. CASE NextExtranonce2(w)
  <2> DEFINE digits == Digits(en2ID + 1, extranonce2Len)
             new == [work[w] EXCEPT !.val = en2ID + 1, !.en2 = digits]
  <2>1. digits \in Seq(Byte) /\ en2ID + 1 \in Nat
    BY DigitsType DEF TypeOK, ReaderTypeOK, WorkTypeOK
  <2>2. new \in Work
    <3> HIDE DEF digits
    <3>1. QED
      BY <1>1, <2>1 DEF Work
  <2>3. work' = [work EXCEPT ![w] = new]
    BY <1>1, <1>3 DEF NextExtranonce2, Work, TypeOK, WorkTypeOK
  <2> HIDE DEF new
  <2>4. WorkTypeOK'
    <3>1. wpc' = [wpc EXCEPT ![w] = "build"]
      BY <1>3 DEF NextExtranonce2
    <3>2. en2ID' = en2ID + 1 /\ UNCHANGED <<shares, tried>>
      BY <1>3 DEF NextExtranonce2
    <3>3. QED
      BY <2>2, <2>3, <3>1, <3>2, WorkerUpdate DEF TypeOK, WorkTypeOK
  <2>5. ReaderTypeOK' /\ NetTypeOK' /\ IdsTypeOK' /\ JobsTypeOK'
    BY <1>3 DEF NextExtranonce2, TypeOK, ReaderTypeOK, NetTypeOK, IdsTypeOK, JobsTypeOK
  <2>6. QED
    BY <2>4, <2>5 DEF TypeOK
<1>4. CASE BuildHeader(w)
  <2> DEFINE coinbase == extranonce1 \o work[w].en2
             new == [work[w] EXCEPT !.coinbase = coinbase]
             try == [worker |-> w, job |-> job[w], val |-> work[w].val,
                     width |-> Len(work[w].en2), coinbase |-> coinbase]
  <2>1. coinbase \in Seq(Byte)
    BY <1>1 DEF Work, TypeOK, ReaderTypeOK
  <2> HIDE DEF coinbase
  <2>2. new \in Work
    BY <1>1, <2>1 DEF Work
  <2>3. try \in Tried
    <3>1. job[w] \in Nat /\ Len(work[w].en2) \in Nat
      BY <1>1 DEF Work, TypeOK, JobsTypeOK
    <3>2. QED
      BY <1>1, <2>1, <3>1 DEF Work, Tried
  <2>4. work' = [work EXCEPT ![w] = new] /\ tried' = tried \cup {try}
    BY <1>1, <1>4 DEF BuildHeader, Work, TypeOK, WorkTypeOK, coinbase
  <2> HIDE DEF new, try
  <2>5. WorkTypeOK'
    <3>1. wpc' = [wpc EXCEPT ![w] = "mine"] /\ UNCHANGED <<en2ID, shares>>
      BY <1>4 DEF BuildHeader
    <3>2. QED
      BY <2>2, <2>3, <2>4, <3>1, WorkerUpdate DEF TypeOK, WorkTypeOK
  <2>6. ReaderTypeOK' /\ NetTypeOK' /\ IdsTypeOK' /\ JobsTypeOK'
    BY <1>4 DEF BuildHeader, TypeOK, ReaderTypeOK, NetTypeOK, IdsTypeOK, JobsTypeOK
  <2>7. QED
    BY <2>5, <2>6 DEF TypeOK
<1>5. CASE EndBatch(w)
  <2>1. NoWork \in Work
    BY DEF NoWork, Work, None
  <2>2. WorkTypeOK'
    BY <1>5, <2>1, WorkerUpdate DEF EndBatch, TypeOK, WorkTypeOK
  <2>3. ReaderTypeOK' /\ NetTypeOK' /\ IdsTypeOK' /\ JobsTypeOK'
    BY <1>5 DEF EndBatch, TypeOK, ReaderTypeOK, NetTypeOK, IdsTypeOK, JobsTypeOK
  <2>4. QED
    BY <2>2, <2>3 DEF TypeOK
<1>6. CASE SubmitShare(w)
  <2> DEFINE new == [work[w] EXCEPT !.id = msgID + 1]
  <2>1. new \in Work
    BY <1>1 DEF Work, TypeOK, IdsTypeOK
  <2>2. work' = [work EXCEPT ![w] = new]
    BY <1>1, <1>6 DEF SubmitShare, Work, TypeOK, WorkTypeOK
  <2> HIDE DEF new
  <2>3. WorkTypeOK'
    <3>1. wpc' = [wpc EXCEPT ![w] = "store"]
      BY <1>6 DEF SubmitShare
    <3>2. shares' = shares + 1 /\ UNCHANGED <<en2ID, tried>>
      BY <1>6 DEF SubmitShare
    <3>3. QED
      BY <2>1, <2>2, <3>1, <3>2, WorkerUpdate DEF TypeOK, WorkTypeOK
  <2>4. ReaderTypeOK' /\ NetTypeOK' /\ IdsTypeOK' /\ JobsTypeOK'
    BY <1>6 DEF SubmitShare, TypeOK, ReaderTypeOK, NetTypeOK, IdsTypeOK, JobsTypeOK
  <2>5. QED
    BY <2>3, <2>4 DEF TypeOK
<1>7. CASE StoreRequest(w)
  <2>1. WorkTypeOK'
    BY <1>1, <1>7, WorkerUpdate DEF StoreRequest, TypeOK, WorkTypeOK
  <2>2. IdsTypeOK'
    BY <1>1, <1>7 DEF StoreRequest, TypeOK, IdsTypeOK, Work
  <2>3. ReaderTypeOK' /\ NetTypeOK' /\ JobsTypeOK'
    BY <1>7 DEF StoreRequest, TypeOK, ReaderTypeOK, NetTypeOK, JobsTypeOK
  <2>4. QED
    BY <2>1, <2>2, <2>3 DEF TypeOK
<1>8. CASE WriteRequest(w)
  <2> DEFINE new == [work[w] EXCEPT !.id = None]
  <2>1. new \in Work
    BY <1>1 DEF Work, None
  <2>2. work' = [work EXCEPT ![w] = new]
    BY <1>1, <1>8 DEF WriteRequest, Work, TypeOK, WorkTypeOK
  <2> HIDE DEF new
  <2>3. WorkTypeOK'
    <3>1. wpc' = [wpc EXCEPT ![w] = "mine"] /\ UNCHANGED <<en2ID, shares, tried>>
      BY <1>8 DEF WriteRequest
    <3>2. QED
      BY <2>1, <2>2, <3>1, WorkerUpdate DEF TypeOK, WorkTypeOK
  <2>4. NetTypeOK'
    <3>1. [kind |-> "share", id |-> work[w].id] \in Request
      BY <1>1 DEF Work, Request
    <3>2. toSrv' \in Seq(Request)
      BY <1>8, <3>1 DEF WriteRequest, TypeOK, NetTypeOK
    <3>3. QED
      BY <1>8, <3>2 DEF WriteRequest, TypeOK, NetTypeOK
  <2>5. ReaderTypeOK' /\ IdsTypeOK' /\ JobsTypeOK'
    BY <1>8 DEF WriteRequest, TypeOK, ReaderTypeOK, IdsTypeOK, JobsTypeOK
  <2>6. QED
    BY <2>3, <2>4, <2>5 DEF TypeOK
<1>9. QED
  BY <1>2, <1>3, <1>4, <1>5, <1>6, <1>7, <1>8 DEF Worker

LEMMA AdoptType == TypeOK /\ Adopt => TypeOK'
<1> SUFFICES ASSUME TypeOK, Adopt PROVE TypeOK'
  OBVIOUS
<1> USE DEF readerVars, netVars, poolVars, idVars
<1>1. JobsTypeOK'
  BY DEF Adopt, Dispatch!Adopt, TypeOK, JobsTypeOK
<1>2. ReaderTypeOK' /\ NetTypeOK' /\ IdsTypeOK' /\ WorkTypeOK'
  BY DEF Adopt, TypeOK, ReaderTypeOK, NetTypeOK, IdsTypeOK, WorkTypeOK
<1>3. QED
  BY <1>1, <1>2 DEF TypeOK

LEMMA TypeStep == TypeOK /\ [Next]_vars => TypeOK'
<1> SUFFICES ASSUME TypeOK, [Next]_vars PROVE TypeOK'
  OBVIOUS
<1>1. CASE UNCHANGED vars
  <2> USE <1>1 DEF vars, readerVars, netVars, poolVars, idVars, workerVars
  <2>1. ReaderTypeOK' /\ JobsTypeOK' /\ NetTypeOK'
    BY DEF TypeOK, ReaderTypeOK, JobsTypeOK, NetTypeOK
  <2>2. IdsTypeOK' /\ WorkTypeOK'
    BY DEF TypeOK, IdsTypeOK, WorkTypeOK
  <2>3. QED
    BY <2>1, <2>2 DEF TypeOK
<1>2. QED
  BY <1>1, ReaderType, AdoptType, WorkerType, PoolType DEF Next

\* Every value the client and its workers keep has its type: each byte of an
\* extranonce2 is one, and the workers' jobs are adopted ones.
THEOREM TypeCorrect == Spec => []TypeOK
BY TypeInit, TypeStep, PTL DEF Spec

-----------------------------------------------------------------------------
(* Shares. *)

\* The client has what the pool assigned to the connection.
Assigned == extranonce1 = En1[conn] /\ extranonce2Len = Width[conn]

\* It has once subscribe has read its answer, and from then on there may be jobs
\* of the connection.  No job is of a later one.
JobsOfAssigned ==
  /\ pc \in {"authorize", "authWait", "run"} => Assigned
  /\ \A j \in 1 .. Len(jobs) : /\ jobs[j].conn <= conn
                               /\ jobs[j].conn = conn => Assigned

\* What a worker makes of a job of the connection.
OwnWork(w) ==
  /\ wpc[w] # "take" => job[w] \in 1 .. Len(jobs)
  /\ wpc[w] \notin {"take", "en2"} /\ jobs[job[w]].conn = conn
       => Len(work[w].en2) = Width[conn]
  /\ wpc[w] \notin {"take", "en2", "build"} /\ jobs[job[w]].conn = conn
       => work[w].coinbase = En1[conn] \o work[w].en2

ShareInv == JobsOfAssigned /\ \A w \in Workers : OwnWork(w)

\* A step that changes neither the connection, nor what was assigned to it, nor
\* the jobs, and leaves the workers alone.
LEMMA ShareUnchanged ==
  ASSUME ShareInv, pc' \in {"authorize", "authWait", "run"} => Assigned,
         UNCHANGED <<conn, extranonce1, extranonce2Len, jobs, wpc, job, work>>
  PROVE  ShareInv'
BY DEF ShareInv, JobsOfAssigned, Assigned, OwnWork

\* handleNotify's new job is of the connection the reader reads from, and the
\* jobs the workers have stay what they are.
LEMMA SharePush ==
  ASSUME TypeOK, ShareInv, pc \in {"authWait", "run"}, NEW line, HandlePush(line),
         UNCHANGED <<conn, extranonce1, extranonce2Len, wpc, job, work>>
  PROVE  ShareInv'
<1>1. CASE UNCHANGED jobs
  <2>1. Assigned
    BY DEF ShareInv, JobsOfAssigned
  <2>2. QED
    BY <1>1, <2>1, ShareUnchanged
<1>2. CASE line.kind = "notify"
  <2>1. jobs' = Append(jobs, [conn |-> conn, due |-> line.arg, target |-> difficulty])
    BY <1>2 DEF HandlePush
  <2>2. /\ Len(jobs') = Len(jobs) + 1 /\ Len(jobs) \in Nat
        /\ \A j \in 1 .. Len(jobs) : jobs'[j] = jobs[j]
        /\ jobs'[Len(jobs) + 1].conn = conn
    BY <2>1 DEF TypeOK, JobsTypeOK
  <2>3. Assigned'
    BY DEF ShareInv, JobsOfAssigned, Assigned
  <2>4. JobsOfAssigned'
    <3>1. conn \in Nat
      BY DEF TypeOK, ReaderTypeOK
    <3>2. ASSUME NEW j \in 1 .. Len(jobs')
          PROVE  jobs'[j].conn <= conn'
      <4>1. CASE j \in 1 .. Len(jobs)
        BY <2>2, <4>1 DEF ShareInv, JobsOfAssigned
      <4>2. CASE j = Len(jobs) + 1
        BY <2>2, <3>1, <4>2
      <4>3. QED
        BY <2>2, <4>1, <4>2
    <3>3. QED
      BY <2>3, <3>2 DEF JobsOfAssigned
  <2>5. ASSUME NEW w \in Workers
        PROVE  OwnWork(w)'
    <3>1. OwnWork(w)
      BY DEF ShareInv
    <3>2. CASE wpc[w] = "take"
      BY <3>2 DEF OwnWork
    <3>3. CASE wpc[w] # "take"
      <4>1. job[w] \in 1 .. Len(jobs) /\ jobs'[job[w]] = jobs[job[w]]
        BY <2>2, <3>1, <3>3 DEF OwnWork
      <4>2. job[w] \in 1 .. Len(jobs')
        BY <2>2, <4>1
      <4>3. QED
        BY <3>1, <4>1, <4>2 DEF OwnWork
    <3>4. QED
      BY <3>2, <3>3
  <2>6. QED
    BY <2>4, <2>5 DEF ShareInv
<1>3. QED
  BY <1>1, <1>2 DEF HandlePush

LEMMA ShareReader == TypeOK /\ ShareInv /\ Reader => ShareInv'
<1> SUFFICES ASSUME TypeOK, ShareInv, Reader PROVE ShareInv'
  OBVIOUS
<1> USE DEF workerVars
<1>1. CASE AssignConn
  <2>1. /\ pc' = "subscribe" /\ conn' = conn + 1 /\ conn \in Nat
        /\ UNCHANGED <<extranonce1, extranonce2Len, jobs, wpc, job, work>>
    BY <1>1 DEF AssignConn, TypeOK, ReaderTypeOK
  <2>2. \A j \in 1 .. Len(jobs) : jobs[j].conn <= conn /\ jobs[j].conn \in Nat
    <3> TAKE j \in 1 .. Len(jobs)
    <3>1. jobs[j] \in Job
      BY DEF TypeOK, JobsTypeOK
    <3>2. QED
      BY <3>1, SizesAssumption DEF ShareInv, JobsOfAssigned, Job, Conns
  <2>3. \A j \in 1 .. Len(jobs) : jobs[j].conn < conn'
    BY <2>1, <2>2
  <2>4. JobsOfAssigned'
    BY <2>1, <2>2, <2>3 DEF JobsOfAssigned
  <2>5. \A w \in Workers : OwnWork(w)'
    <3> TAKE w \in Workers
    <3>1. OwnWork(w)
      BY DEF ShareInv
    <3>2. wpc[w] # "take" => jobs[job[w]].conn # conn'
      BY <2>1, <2>2, <2>3, <3>1 DEF OwnWork
    <3>3. QED
      BY <2>1, <3>1, <3>2 DEF OwnWork
  <2>6. QED
    BY <2>4, <2>5 DEF ShareInv
<1>2. CASE SendSubscribe \/ SendAuthorize \/ ConnectionLost
  <2>1. pc' \in {"authorize", "authWait", "run"} => Assigned
    BY <1>2 DEF SendSubscribe, SendAuthorize, SendHandshake, ConnectionLost, ShareInv, JobsOfAssigned
  <2>2. QED
    BY <1>2, <2>1, ShareUnchanged DEF SendSubscribe, SendAuthorize, SendHandshake, ConnectionLost
<1>3. CASE ReadSubscribe
  <2>1. CASE Head(toCli).kind = "sub"
    <3>1. Assigned' /\ UNCHANGED <<conn, jobs, wpc, job, work>>
      BY <1>3, <2>1 DEF ReadSubscribe, Assigned
    <3>2. QED
      BY <3>1 DEF ShareInv, JobsOfAssigned, OwnWork
  <2>2. CASE Head(toCli).kind # "sub"
    BY <1>3, <2>2, ShareUnchanged DEF ReadSubscribe
  <2>3. QED
    BY <2>1, <2>2
<1>4. CASE ReadAuthorize \/ ReadMessage
  <2>1. Assigned /\ pc \in {"authWait", "run"}
    BY <1>4 DEF ReadAuthorize, ReadMessage, ShareInv, JobsOfAssigned
  <2>2. UNCHANGED <<conn, extranonce1, extranonce2Len, wpc, job, work>>
    BY <1>4 DEF ReadAuthorize, ReadMessage
  <2>3. CASE HandlePush(Head(toCli))
    BY <2>1, <2>2, <2>3, SharePush
  <2>4. CASE UNCHANGED jobs
    BY <2>1, <2>2, <2>4, ShareUnchanged
  <2>5. QED
    BY <1>4, <2>3, <2>4 DEF ReadAuthorize, ReadMessage
<1>5. QED
  BY <1>1, <1>2, <1>3, <1>4 DEF Reader

LEMMA ShareWorker ==
  ASSUME TypeOK, ShareInv, NEW w \in Workers, Worker(w)
  PROVE  ShareInv'
<1>1. UNCHANGED <<pc, conn, extranonce1, extranonce2Len, jobs>>
  BY DEF Worker, Take, NextExtranonce2, BuildHeader, EndBatch, SubmitShare, StoreRequest,
         WriteRequest, readerVars
<1>2. JobsOfAssigned'
  BY <1>1 DEF ShareInv, JobsOfAssigned, Assigned
<1>3. ASSUME NEW v \in Workers, v # w
      PROVE  OwnWork(v)'
  <2>1. wpc'[v] = wpc[v] /\ job'[v] = job[v] /\ work'[v] = work[v]
    BY <1>3 DEF Worker, Take, NextExtranonce2, BuildHeader, EndBatch, SubmitShare, StoreRequest,
       WriteRequest, TypeOK, JobsTypeOK, WorkTypeOK
  <2>2. QED
    BY <1>1, <2>1 DEF ShareInv, OwnWork
<1>4. OwnWork(w)'
  <2> USE DEF TypeOK, JobsTypeOK, WorkTypeOK
  <2>0. OwnWork(w) /\ work[w] \in Work
    BY DEF ShareInv
  <2>1. CASE Take(w)
    <3>1. wpc'[w] = "en2" /\ job'[w] = adopted
      BY <2>1 DEF Take
    <3>2. adopted \in 1 .. Len(jobs)
      BY <2>1 DEF Take, None
    <3>3. QED
      BY <1>1, <3>1, <3>2 DEF OwnWork
  <2>2. CASE NextExtranonce2(w)
    <3>1. /\ wpc[w] = "en2" /\ wpc'[w] = "build" /\ job' = job
          /\ work'[w].en2 = Digits(en2ID + 1, extranonce2Len)
      BY <2>0, <2>2 DEF NextExtranonce2, Work
    <3>2. Len(work'[w].en2) = extranonce2Len
      BY <3>1, DigitsType DEF ReaderTypeOK
    <3>3. job[w] \in 1 .. Len(jobs) /\ (jobs[job[w]].conn = conn => extranonce2Len = Width[conn])
      BY <2>0, <3>1 DEF OwnWork, ShareInv, JobsOfAssigned, Assigned
    <3>4. QED
      BY <1>1, <3>1, <3>2, <3>3 DEF OwnWork
  <2>3. CASE BuildHeader(w)
    <3>1. /\ wpc[w] = "build" /\ wpc'[w] = "mine" /\ job' = job
          /\ work'[w].en2 = work[w].en2
          /\ work'[w].coinbase = extranonce1 \o work[w].en2
      BY <2>0, <2>3 DEF BuildHeader, Work
    <3>2. job[w] \in 1 .. Len(jobs) /\ (jobs[job[w]].conn = conn => extranonce1 = En1[conn])
      BY <2>0, <3>1 DEF OwnWork, ShareInv, JobsOfAssigned, Assigned
    <3>3. QED
      BY <1>1, <2>0, <3>1, <3>2 DEF OwnWork
  <2>4. CASE EndBatch(w)
    BY <1>1, <2>4 DEF EndBatch, OwnWork
  <2>5. CASE SubmitShare(w) \/ StoreRequest(w) \/ WriteRequest(w)
    <3>1. /\ wpc[w] \in {"mine", "store", "write"} /\ wpc'[w] \in {"mine", "store", "write"}
          /\ job' = job
      BY <2>5 DEF SubmitShare, StoreRequest, WriteRequest
    <3>2. work'[w].en2 = work[w].en2 /\ work'[w].coinbase = work[w].coinbase
      BY <2>0, <2>5 DEF SubmitShare, StoreRequest, WriteRequest, Work
    <3>3. QED
      BY <1>1, <2>0, <3>1, <3>2 DEF OwnWork
  <2>6. QED
    BY <2>1, <2>2, <2>3, <2>4, <2>5 DEF Worker
<1>5. QED
  BY <1>2, <1>3, <1>4 DEF ShareInv

LEMMA ShareStep == TypeOK /\ ShareInv /\ [Next]_vars => ShareInv'
<1> SUFFICES ASSUME TypeOK, ShareInv, [Next]_vars PROVE ShareInv'
  OBVIOUS
<1>1. CASE Adopt \/ Pool \/ UNCHANGED vars
  <2>1. UNCHANGED <<pc, conn, extranonce1, extranonce2Len, jobs, wpc, job, work>>
    BY <1>1 DEF Adopt, Dispatch!Adopt, Pool, Answer, SetDifficulty, Notify, Break, vars,
       readerVars, workerVars
  <2>2. QED
    BY <2>1, ShareUnchanged DEF ShareInv, JobsOfAssigned
<1>2. QED
  BY <1>1, ShareReader, ShareWorker DEF Next

\* A share for a job of the connection it is written to verifies there, although
\* the reader replaces c.conn first, extranonce1 and the width later (subscribe),
\* and the workers read each of them at a step of its own.
THEOREM SharesVerified == Spec => []SharesVerify
<1>1. Init => ShareInv
  BY DEF Init, ShareInv, JobsOfAssigned, OwnWork
<1>2. ShareInv => SharesVerify
  BY DEF ShareInv, OwnWork, SharesVerify
<1>3. QED
  BY <1>1, <1>2, TypeInit, TypeStep, ShareStep, PTL DEF Spec

-----------------------------------------------------------------------------
(* requestTimes. *)

Ids(q) == {q[k].id : k \in 1 .. Len(q)}

LEMMA IdsAppend ==
  ASSUME NEW S, NEW q \in Seq(S), NEW x \in S
  PROVE  Ids(Append(q, x)) = Ids(q) \cup {x.id}
<1>1. Len(Append(q, x)) = Len(q) + 1 /\ Len(q) \in Nat
  OBVIOUS
<1>2. Append(q, x)[Len(q) + 1] = x /\ \A k \in 1 .. Len(q) : Append(q, x)[k] = q[k]
  OBVIOUS
<1>3. 1 .. Len(q) + 1 = 1 .. Len(q) \cup {Len(q) + 1}
  BY <1>1
<1>4. QED
  BY <1>1, <1>2, <1>3 DEF Ids

LEMMA IdsTail ==
  ASSUME NEW S, NEW q \in Seq(S), q # <<>>
  PROVE  Ids(Tail(q)) \subseteq Ids(q) /\ Head(q).id \in Ids(q)
<1>1. /\ Len(q) \in Nat \ {0} /\ Len(Tail(q)) = Len(q) - 1 /\ Head(q) = q[1]
      /\ \A k \in 1 .. Len(q) - 1 : Tail(q)[k] = q[k + 1]
  OBVIOUS
<1>2. \A k \in 1 .. Len(q) - 1 : k + 1 \in 1 .. Len(q)
  BY <1>1
<1>3. QED
  BY <1>1, <1>2 DEF Ids

\* The ids that are on their way, or whose answer handleMessage has seen.
Seen == handled \cup Ids(toSrv) \cup Ids(toCli)

LEMMA SeenType == TypeOK => Seen \subseteq Nat
<1> SUFFICES ASSUME TypeOK PROVE Seen \subseteq Nat
  OBVIOUS
<1>1. \A k \in 1 .. Len(toSrv) : toSrv[k] \in Request
  BY DEF TypeOK, NetTypeOK
<1>2. \A k \in 1 .. Len(toCli) : toCli[k] \in Line
  BY DEF TypeOK, NetTypeOK
<1>3. Ids(toSrv) \subseteq Nat /\ Ids(toCli) \subseteq Nat
  BY <1>1, <1>2 DEF Ids, Request, Line
<1>4. QED
  BY <1>3 DEF Seen, TypeOK, IdsTypeOK

Sending(w) == wpc[w] \in {"store", "write"}

\* An id is seen only after its entry is made: until its write it is no other's,
\* not in flight and not answered.
IdsInv ==
  /\ \A i \in Seen : i <= msgID
  /\ \A w \in Workers : Sending(w) => /\ work[w].id # None /\ work[w].id <= msgID
                                      /\ work[w].id \notin Seen
  /\ \A v, w \in Workers : Sending(v) /\ Sending(w) /\ v # w => work[v].id # work[w].id

LEMMA IdsQuiet ==
  ASSUME TypeOK, IdsInv, Seen' \subseteq Seen \cup {None}, UNCHANGED <<msgID, wpc, work>>
  PROVE  IdsInv'
<1>1. msgID \in Nat
  BY DEF TypeOK, IdsTypeOK
<1>2. \A w \in Workers : Sending(w)' = Sending(w)
  BY DEF Sending
<1>3. QED
  BY <1>1, <1>2 DEF IdsInv, None

LEMMA IdsHandshake ==
  ASSUME TypeOK, IdsInv, NEW from, NEW kind \in {"subscribe", "authorize"}, NEW to,
         SendHandshake(from, kind, to)
  PROVE  IdsInv'
<1>1. /\ msgID \in Nat /\ msgID' = msgID + 1 /\ UNCHANGED <<handled, toCli, wpc, work>>
      /\ toSrv' = Append(toSrv, [kind |-> kind, id |-> msgID + 1])
  BY DEF SendHandshake, TypeOK, IdsTypeOK, workerVars
<1>2. [kind |-> kind, id |-> msgID + 1] \in Request
  BY <1>1 DEF Request
<1>3. Ids(toSrv') = Ids(toSrv) \cup {msgID + 1}
  BY <1>1, <1>2, IdsAppend DEF TypeOK, NetTypeOK
<1>4. Seen' = Seen \cup {msgID + 1}
  BY <1>1, <1>3 DEF Seen
<1>5. \A i \in Seen : i \in Nat
  BY SeenType
<1>6. \A w \in Workers : work[w].id \in Nat /\ Sending(w)' = Sending(w)
  BY <1>1 DEF TypeOK, WorkTypeOK, Work, Sending
<1>7. QED
  BY <1>1, <1>4, <1>5, <1>6 DEF IdsInv

LEMMA LedgerReader == TypeOK /\ IdsInv /\ LedgerExact /\ Reader => IdsInv' /\ LedgerExact'
<1> SUFFICES ASSUME TypeOK, IdsInv, LedgerExact, Reader PROVE IdsInv' /\ LedgerExact'
  OBVIOUS
<1> USE DEF idVars, workerVars
<1>1. CASE AssignConn \/ ConnectionLost
  <2>1. /\ toSrv' = <<>> /\ toCli' = <<>>
        /\ UNCHANGED <<msgID, wpc, work, handled, requestTimes>>
    BY <1>1 DEF AssignConn, ConnectionLost
  <2>2. Ids(toSrv') = {} /\ Ids(toCli') = {}
    BY <2>1 DEF Ids
  <2>3. Seen' \subseteq Seen
    BY <2>1, <2>2 DEF Seen
  <2>4. QED
    BY <2>1, <2>3, IdsQuiet DEF LedgerExact
<1>2. CASE SendSubscribe \/ SendAuthorize
  <2>1. IdsInv'
    BY <1>2, IdsHandshake DEF SendSubscribe, SendAuthorize
  <2>2. requestTimes' = requestTimes \cup {msgID + 1} /\ handled' = handled
    BY <1>2 DEF SendSubscribe, SendAuthorize, SendHandshake
  <2>3. msgID + 1 \notin handled
    BY DEF IdsInv, Seen, TypeOK, IdsTypeOK
  <2>4. QED
    BY <2>1, <2>2, <2>3 DEF LedgerExact
<1>3. CASE ReadSubscribe \/ ReadAuthorize \/ ReadMessage
  <2>1. /\ toCli # <<>> /\ toCli' = Tail(toCli)
        /\ UNCHANGED <<msgID, wpc, work, toSrv>>
    BY <1>3 DEF ReadSubscribe, ReadAuthorize, ReadMessage
  <2>2. Ids(toCli') \subseteq Ids(toCli) /\ Head(toCli).id \in Ids(toCli)
    BY <2>1, IdsTail DEF TypeOK, NetTypeOK
  <2>3. \/ UNCHANGED <<handled, requestTimes>>
        \/ /\ handled' = handled \cup {Head(toCli).id}
           /\ requestTimes' = requestTimes \ {Head(toCli).id}
    BY <1>3 DEF ReadSubscribe, ReadAuthorize, ReadMessage
  <2>4. Seen' \subseteq Seen
    BY <2>1, <2>2, <2>3 DEF Seen
  <2>5. QED
    BY <2>1, <2>3, <2>4, IdsQuiet DEF LedgerExact
<1>4. QED
  BY <1>1, <1>2, <1>3 DEF Reader

LEMMA LedgerPool == TypeOK /\ IdsInv /\ LedgerExact /\ Pool => IdsInv' /\ LedgerExact'
<1> SUFFICES ASSUME TypeOK, IdsInv, LedgerExact, Pool PROVE IdsInv' /\ LedgerExact'
  OBVIOUS
<1>1. UNCHANGED <<msgID, wpc, work, handled, requestTimes>>
  BY DEF Pool, Answer, SetDifficulty, Notify, Break, idVars, workerVars
<1>2. Seen' \subseteq Seen \cup {None}
  <2>1. CASE Answer
    <3>1. /\ toSrv # <<>> /\ toSrv' = Tail(toSrv) /\ Head(toSrv) \in Request
      BY <2>1 DEF Answer, TypeOK, NetTypeOK
    <3>2. PICK kind \in {"sub", "true", "false"} :
            toCli' = Append(toCli, [kind |-> kind, id |-> Head(toSrv).id, arg |-> 0])
      BY <2>1 DEF Answer
    <3>3. [kind |-> kind, id |-> Head(toSrv).id, arg |-> 0] \in Line
      BY <3>1 DEF Line, Request
    <3>4. Ids(toCli') = Ids(toCli) \cup {Head(toSrv).id}
      BY <3>2, <3>3, IdsAppend DEF TypeOK, NetTypeOK
    <3>5. Ids(toSrv') \subseteq Ids(toSrv) /\ Head(toSrv).id \in Ids(toSrv)
      BY <3>1, IdsTail DEF TypeOK, NetTypeOK
    <3>6. QED
      BY <1>1, <3>4, <3>5 DEF Seen
  <2>2. ASSUME NEW d \in Diffs, SetDifficulty(d)
        PROVE  Seen' \subseteq Seen \cup {None}
    <3>1. [kind |-> "diff", id |-> None, arg |-> d] \in Line
      BY PoolAssumption DEF Line, None
    <3>2. Ids(toCli') = Ids(toCli) \cup {None}
      BY <2>2, <3>1, IdsAppend DEF SetDifficulty, TypeOK, NetTypeOK
    <3>3. QED
      BY <1>1, <2>2, <3>2 DEF SetDifficulty, Seen
  <2>3. CASE Notify
    <3>1. [kind |-> "notify", id |-> None, arg |-> poolDiff] \in Line
      BY DEF Line, None, TypeOK, NetTypeOK
    <3>2. Ids(toCli') = Ids(toCli) \cup {None}
      BY <2>3, <3>1, IdsAppend DEF Notify, TypeOK, NetTypeOK
    <3>3. QED
      BY <1>1, <2>3, <3>2 DEF Notify, Seen
  <2>4. CASE Break
    BY <1>1, <2>4 DEF Break, netVars, Seen
  <2>5. QED
    BY <2>1, <2>2, <2>3, <2>4 DEF Pool
<1>3. QED
  BY <1>1, <1>2, IdsQuiet DEF LedgerExact

LEMMA LedgerWorker ==
  ASSUME TypeOK, IdsInv, LedgerExact, NEW w \in Workers, Worker(w)
  PROVE  IdsInv' /\ LedgerExact'
<1> USE DEF netVars, idVars
<1>1. handled' = handled /\ toCli' = toCli /\ msgID \in Nat
  BY DEF Worker, Take, NextExtranonce2, BuildHeader, EndBatch, SubmitShare, StoreRequest,
         WriteRequest, TypeOK, IdsTypeOK
<1>2. ASSUME NEW v \in Workers, v # w
      PROVE  work'[v] = work[v] /\ Sending(v)' = Sending(v)
  BY <1>2 DEF Worker, Take, NextExtranonce2, BuildHeader, EndBatch, SubmitShare, StoreRequest,
     WriteRequest, TypeOK, WorkTypeOK, Sending
<1>3. CASE Take(w) \/ NextExtranonce2(w) \/ BuildHeader(w) \/ EndBatch(w)
  <2>1. UNCHANGED <<msgID, toSrv, requestTimes>> /\ ~Sending(w)'
    BY <1>3 DEF Take, NextExtranonce2, BuildHeader, EndBatch, Sending, TypeOK, WorkTypeOK
  <2>2. Seen' = Seen
    BY <1>1, <2>1 DEF Seen
  <2>3. QED
    BY <1>1, <1>2, <2>1, <2>2 DEF IdsInv, LedgerExact
<1>4. CASE SubmitShare(w)
  <2>1. /\ msgID' = msgID + 1 /\ UNCHANGED <<toSrv, requestTimes>>
        /\ work'[w].id = msgID + 1
    BY <1>4 DEF SubmitShare, TypeOK, WorkTypeOK, Work
  <2>2. Seen' = Seen
    BY <1>1, <2>1 DEF Seen
  <2>3. \A i \in Seen : i \in Nat
    BY SeenType
  <2>4. \A v \in Workers : work[v].id \in Nat
    BY DEF TypeOK, WorkTypeOK, Work
  <2>5. \A i \in Seen' : i <= msgID'
    BY <1>1, <2>1, <2>2, <2>3 DEF IdsInv
  <2>6. \A v \in Workers : Sending(v)' => /\ work'[v].id # None /\ work'[v].id <= msgID'
                                          /\ work'[v].id \notin Seen'
    BY <1>1, <1>2, <2>1, <2>2, <2>3, <2>4 DEF IdsInv, None
  <2>7. \A v \in Workers : Sending(v)' /\ v # w => work'[v].id <= msgID
    BY <1>2 DEF IdsInv
  <2>8. \A u, v \in Workers : Sending(u)' /\ Sending(v)' /\ u # v => work'[u].id # work'[v].id
    BY <1>1, <1>2, <2>1, <2>4, <2>7 DEF IdsInv
  <2>9. QED
    BY <1>1, <2>1, <2>5, <2>6, <2>8 DEF IdsInv, LedgerExact
<1>5. CASE StoreRequest(w)
  <2>1. /\ UNCHANGED <<msgID, toSrv, work>> /\ Sending(w)
        /\ requestTimes' = requestTimes \cup {work[w].id}
    BY <1>5 DEF StoreRequest, Sending
  <2>2. Seen' = Seen
    BY <1>1, <2>1 DEF Seen
  <2>3. \A v \in Workers : Sending(v)' => Sending(v)
    BY <1>2, <2>1
  <2>4. IdsInv'
    BY <2>1, <2>2, <2>3 DEF IdsInv
  <2>5. work[w].id \notin handled
    BY <2>1 DEF IdsInv, Seen
  <2>6. QED
    BY <1>1, <2>1, <2>4, <2>5 DEF LedgerExact
<1>6. CASE WriteRequest(w)
  <2>1. /\ UNCHANGED <<msgID, requestTimes>> /\ Sending(w) /\ ~Sending(w)'
        /\ \/ toSrv' = toSrv
           \/ toSrv' = Append(toSrv, [kind |-> "share", id |-> work[w].id])
    BY <1>6 DEF WriteRequest, Sending, TypeOK, WorkTypeOK
  <2>2. [kind |-> "share", id |-> work[w].id] \in Request
    BY DEF Request, TypeOK, WorkTypeOK, Work
  <2>3. Seen' \subseteq Seen \cup {work[w].id}
    <3>1. toSrv \in Seq(Request)
      BY DEF TypeOK, NetTypeOK
    <3>2. Ids(Append(toSrv, [kind |-> "share", id |-> work[w].id])) = Ids(toSrv) \cup {work[w].id}
      BY <2>2, <3>1, IdsAppend
    <3>3. Ids(toSrv') \subseteq Ids(toSrv) \cup {work[w].id}
      BY <2>1, <3>2
    <3>4. QED
      BY <1>1, <3>3 DEF Seen
  <2>4. \A v \in Workers : Sending(v)' => v # w /\ Sending(v) /\ work'[v] = work[v]
    BY <1>2, <2>1
  <2>5. \A i \in Seen' : i <= msgID
    BY <2>1, <2>3 DEF IdsInv
  <2>6. \A v \in Workers : Sending(v)' => work[v].id # work[w].id
    BY <2>1, <2>4 DEF IdsInv
  <2>7. QED
    BY <1>1, <2>1, <2>3, <2>4, <2>5, <2>6 DEF IdsInv, LedgerExact
<1>7. QED
  BY <1>3, <1>4, <1>5, <1>6 DEF Worker

LEMMA LedgerStep == TypeOK /\ IdsInv /\ LedgerExact /\ [Next]_vars => IdsInv' /\ LedgerExact'
<1> SUFFICES ASSUME TypeOK, IdsInv, LedgerExact, [Next]_vars PROVE IdsInv' /\ LedgerExact'
  OBVIOUS
<1>1. CASE Adopt \/ UNCHANGED vars
  <2>1. UNCHANGED <<msgID, wpc, work, handled, requestTimes, toSrv, toCli>>
    BY <1>1 DEF Adopt, vars, netVars, idVars, workerVars
  <2>2. Seen' = Seen
    BY <2>1 DEF Seen
  <2>3. QED
    BY <2>1, <2>2, IdsQuiet DEF LedgerExact
<1>2. QED
  BY <1>1, LedgerReader, LedgerWorker, LedgerPool DEF Next

\* The answer to a share never comes before the share's entry (sendJSON), so that
\* handleMessage removes every entry whose answer it sees.
THEOREM LedgerCorrect == Spec => []LedgerExact
<1>1. Init => IdsInv /\ LedgerExact
  BY DEF Init, IdsInv, LedgerExact, Seen, Ids, Sending
<1>2. QED
  BY <1>1, TypeInit, TypeStep, LedgerStep, PTL DEF Spec

-----------------------------------------------------------------------------
(* The difficulty of a job. *)

\* With the lines of q before it and the difficulty now, the client's difficulty
\* will be d when it comes to line k.
DiffAt(q, now, k, d) ==
  \/ now = d /\ \A m \in 1 .. k - 1 : q[m].kind # "diff"
  \/ \E m \in 1 .. k - 1 : /\ q[m].kind = "diff" /\ q[m].arg = d
                           /\ \A n \in m + 1 .. k - 1 : q[n].kind # "diff"

LEMMA DiffAtAppend ==
  ASSUME NEW q \in Seq(Line), NEW x \in Line, NEW now, NEW d, NEW k \in 1 .. Len(q) + 1,
         DiffAt(q, now, k, d)
  PROVE  DiffAt(Append(q, x), now, k, d)
<1>1. \A m \in 1 .. k - 1 : m \in 1 .. Len(q) /\ Append(q, x)[m] = q[m]
  OBVIOUS
<1>2. QED
  BY <1>1 DEF DiffAt

LEMMA DiffAtEnd ==
  ASSUME NEW q \in Seq(Line), NEW x \in Line, NEW now, NEW d,
         IF x.kind = "diff" THEN d = x.arg ELSE DiffAt(q, now, Len(q) + 1, d)
  PROVE  DiffAt(Append(q, x), now, Len(Append(q, x)) + 1, d)
<1> DEFINE p == Append(q, x)
<1>1. /\ Len(q) \in Nat /\ Len(p) = Len(q) + 1 /\ p[Len(q) + 1] = x
      /\ \A m \in 1 .. Len(q) : p[m] = q[m]
  OBVIOUS
<1> HIDE DEF p
<1>2. CASE x.kind = "diff"
  <2>1. /\ Len(q) + 1 \in 1 .. Len(p) + 1 - 1
        /\ p[Len(q) + 1].kind = "diff" /\ p[Len(q) + 1].arg = d
        /\ \A n \in Len(q) + 1 + 1 .. Len(p) + 1 - 1 : p[n].kind # "diff"
    BY <1>1, <1>2
  <2>2. DiffAt(p, now, Len(p) + 1, d)
    BY <2>1 DEF DiffAt
  <2>3. QED
    BY <2>2 DEF p
<1>3. CASE x.kind # "diff"
  <2>1. DiffAt(q, now, Len(q) + 1, d)
    BY <1>3
  <2>2. CASE now = d /\ \A m \in 1 .. Len(q) : q[m].kind # "diff"
    <3>1. \A m \in 1 .. Len(p) + 1 - 1 : p[m].kind # "diff"
      BY <1>1, <1>3, <2>2
    <3>2. DiffAt(p, now, Len(p) + 1, d)
      BY <2>2, <3>1 DEF DiffAt
    <3>3. QED
      BY <3>2 DEF p
  <2>3. ASSUME NEW m \in 1 .. Len(q), q[m].kind = "diff", q[m].arg = d,
               \A n \in m + 1 .. Len(q) : q[n].kind # "diff"
        PROVE  DiffAt(Append(q, x), now, Len(Append(q, x)) + 1, d)
    <3>1. m \in 1 .. Len(p) + 1 - 1 /\ p[m].kind = "diff" /\ p[m].arg = d
      BY <1>1, <2>3
    <3>2. \A n \in m + 1 .. Len(p) + 1 - 1 : p[n].kind # "diff"
      BY <1>1, <1>3, <2>3
    <3>3. DiffAt(p, now, Len(p) + 1, d)
      BY <3>1, <3>2 DEF DiffAt
    <3>4. QED
      BY <3>3 DEF p
  <2>4. Len(q) + 1 - 1 = Len(q)
    BY <1>1
  <2>5. QED
    BY <2>1, <2>2, <2>3, <2>4 DEF DiffAt
<1>4. QED
  BY <1>2, <1>3

LEMMA DiffAtTail ==
  ASSUME NEW q \in Seq(Line), q # <<>>, NEW now, NEW d, NEW k \in 2 .. Len(q) + 1,
         DiffAt(q, now, k, d)
  PROVE  DiffAt(Tail(q), IF Head(q).kind = "diff" THEN Head(q).arg ELSE now, k - 1, d)
<1> DEFINE p == Tail(q)
           later == IF q[1].kind = "diff" THEN q[1].arg ELSE now
<1>1. /\ Len(q) \in Nat \ {0} /\ Head(q) = q[1]
      /\ \A m \in 1 .. Len(q) - 1 : p[m] = q[m + 1]
  OBVIOUS
<1> HIDE DEF p
<1>2. \A m \in 1 .. k - 1 - 1 : m + 1 \in 1 .. k - 1 /\ p[m] = q[m + 1]
  BY <1>1
<1>3. CASE now = d /\ \A m \in 1 .. k - 1 : q[m].kind # "diff"
  <2>1. later = d
    BY <1>1, <1>3
  <2>2. \A m \in 1 .. k - 1 - 1 : p[m].kind # "diff"
    BY <1>2, <1>3
  <2> HIDE DEF later
  <2>3. DiffAt(p, later, k - 1, d)
    BY <2>1, <2>2 DEF DiffAt
  <2>4. QED
    BY <1>1, <2>3 DEF p, later
<1>4. ASSUME NEW m \in 1 .. k - 1, q[m].kind = "diff", q[m].arg = d,
             \A n \in m + 1 .. k - 1 : q[n].kind # "diff"
      PROVE  DiffAt(Tail(q), IF Head(q).kind = "diff" THEN Head(q).arg ELSE now, k - 1, d)
  <2>1. CASE m = 1
    <3>1. later = d
      BY <1>4, <2>1
    <3>2. \A n \in 1 .. k - 1 - 1 : p[n].kind # "diff"
      BY <1>2, <1>4, <2>1
    <3> HIDE DEF later
    <3>3. DiffAt(p, later, k - 1, d)
      BY <3>1, <3>2 DEF DiffAt
    <3>4. QED
      BY <1>1, <3>3 DEF p, later
  <2>2. CASE m # 1
    <3>1. m - 1 \in 1 .. k - 1 - 1 /\ p[m - 1] = q[m]
      BY <1>1, <1>2, <2>2
    <3>2. \A n \in m - 1 + 1 .. k - 1 - 1 : p[n].kind # "diff"
      BY <1>1, <1>2, <1>4, <2>2
    <3> HIDE DEF later
    <3>3. DiffAt(p, later, k - 1, d)
      BY <1>4, <3>1, <3>2 DEF DiffAt
    <3>4. QED
      BY <1>1, <3>3 DEF p, later
  <2>3. QED
    BY <2>1, <2>2
<1>5. QED
  BY <1>3, <1>4 DEF DiffAt

\* The client comes to every job in flight with the difficulty the pool meant for
\* it, and to the end of the lines with the pool's own.
DiffInv ==
  pc # "dial" =>
    /\ \A k \in 1 .. Len(toCli) :
         toCli[k].kind = "notify" /\ toCli[k].arg # None
           => DiffAt(toCli, difficulty, k, toCli[k].arg)
    /\ poolDiff # None => DiffAt(toCli, difficulty, Len(toCli) + 1, poolDiff)

\* The pool sends a line.
LEMMA DiffSend ==
  ASSUME TypeOK, DiffInv, NEW line \in Line, toCli' = Append(toCli, line),
         UNCHANGED <<pc, difficulty>>,
         poolDiff' = (IF line.kind = "diff" THEN line.arg ELSE poolDiff),
         line.kind = "notify" => line.arg = poolDiff
  PROVE  DiffInv'
<1> SUFFICES ASSUME pc # "dial" PROVE DiffInv'
  BY DEF DiffInv
<1>1. toCli \in Seq(Line)
  BY DEF TypeOK, NetTypeOK
<1>2. /\ Len(toCli) \in Nat /\ Len(toCli') = Len(toCli) + 1 /\ toCli'[Len(toCli) + 1] = line
      /\ \A k \in 1 .. Len(toCli) : toCli'[k] = toCli[k]
  BY <1>1
<1>3. ASSUME NEW k \in 1 .. Len(toCli'), toCli'[k].kind = "notify", toCli'[k].arg # None
      PROVE  DiffAt(toCli', difficulty, k, toCli'[k].arg)
  <2>1. k \in 1 .. Len(toCli) + 1
    BY <1>2
  <2>2. DiffAt(toCli, difficulty, k, toCli'[k].arg)
    BY <1>2, <1>3, <2>1 DEF DiffInv
  <2>3. QED
    BY <1>1, <2>1, <2>2, DiffAtAppend
<1>4. ASSUME poolDiff' # None
      PROVE  DiffAt(toCli', difficulty, Len(toCli') + 1, poolDiff')
  BY <1>1, <1>4, DiffAtEnd DEF DiffInv
<1>5. QED
  BY <1>3, <1>4 DEF DiffInv

\* The client reads one.
LEMMA DiffRead ==
  ASSUME TypeOK, DiffInv, pc # "dial", toCli # <<>>, toCli' = Tail(toCli),
         poolDiff' = poolDiff,
         difficulty' = (IF Head(toCli).kind = "diff" THEN Head(toCli).arg ELSE difficulty)
  PROVE  DiffInv'
<1>1. toCli \in Seq(Line)
  BY DEF TypeOK, NetTypeOK
<1>2. /\ Len(toCli) \in Nat \ {0} /\ Len(toCli') = Len(toCli) - 1
      /\ \A k \in 1 .. Len(toCli) - 1 : toCli'[k] = toCli[k + 1]
  BY <1>1
<1>3. ASSUME NEW k \in 2 .. Len(toCli) + 1, NEW d, DiffAt(toCli, difficulty, k, d)
      PROVE  DiffAt(toCli', difficulty', k - 1, d)
  BY <1>1, <1>3, DiffAtTail
<1>4. ASSUME NEW k \in 1 .. Len(toCli'), toCli'[k].kind = "notify", toCli'[k].arg # None
      PROVE  DiffAt(toCli', difficulty', k, toCli'[k].arg)
  <2>1. k + 1 \in 2 .. Len(toCli) + 1 /\ k + 1 \in 1 .. Len(toCli) /\ toCli'[k] = toCli[k + 1]
        /\ k + 1 - 1 = k
    BY <1>2
  <2>2. DiffAt(toCli, difficulty, k + 1, toCli'[k].arg)
    BY <1>4, <2>1 DEF DiffInv
  <2>3. DiffAt(toCli', difficulty', k + 1 - 1, toCli'[k].arg)
    BY <1>3, <2>1, <2>2
  <2>4. QED
    BY <2>1, <2>3
<1>5. ASSUME poolDiff' # None
      PROVE  DiffAt(toCli', difficulty', Len(toCli') + 1, poolDiff')
  <2>1. Len(toCli) + 1 \in 2 .. Len(toCli) + 1 /\ Len(toCli) + 1 - 1 = Len(toCli') + 1
    BY <1>2
  <2>2. DiffAt(toCli', difficulty', Len(toCli) + 1 - 1, poolDiff)
    BY <1>3, <1>5, <2>1 DEF DiffInv
  <2>3. QED
    BY <2>1, <2>2
<1>6. QED
  BY <1>4, <1>5 DEF DiffInv

\* The job made of the line the client reads has the target meant for it.
LEMMA TargetPush ==
  ASSUME TypeOK, DiffInv, TargetIsPools, pc # "dial", toCli # <<>>,
         HandlePush(Head(toCli))
  PROVE  TargetIsPools'
<1>1. CASE UNCHANGED jobs
  BY <1>1 DEF TargetIsPools
<1>2. CASE Head(toCli).kind = "notify"
  <2> DEFINE new == [conn |-> conn, due |-> Head(toCli).arg, target |-> difficulty]
  <2>1. jobs' = Append(jobs, new)
    BY <1>2 DEF HandlePush
  <2>2. Head(toCli) = toCli[1] /\ 1 \in 1 .. Len(toCli)
    BY DEF TypeOK, NetTypeOK
  <2>3. new.due # None => new.target = new.due
    <3>1. new.due # None => DiffAt(toCli, difficulty, 1, new.due)
      BY <1>2, <2>2 DEF DiffInv
    <3>2. QED
      BY <3>1 DEF DiffAt
  <2> HIDE DEF new
  <2>4. /\ Len(jobs) \in Nat /\ Len(jobs') = Len(jobs) + 1 /\ jobs'[Len(jobs) + 1] = new
        /\ \A j \in 1 .. Len(jobs) : jobs'[j] = jobs[j]
    BY <2>1 DEF TypeOK, JobsTypeOK
  <2>5. QED
    BY <2>3, <2>4 DEF TargetIsPools
<1>3. QED
  BY <1>1, <1>2 DEF HandlePush

LEMMA TargetStep ==
  TypeOK /\ DiffInv /\ TargetIsPools /\ [Next]_vars => DiffInv' /\ TargetIsPools'
<1> SUFFICES ASSUME TypeOK, DiffInv, TargetIsPools, [Next]_vars
             PROVE  DiffInv' /\ TargetIsPools'
  OBVIOUS
<1> USE DEF poolVars, netVars, readerVars
<1>1. CASE AssignConn
  <2>1. toCli' = <<>> /\ poolDiff' = None /\ jobs' = jobs
    BY <1>1 DEF AssignConn
  <2>2. QED
    BY <2>1 DEF DiffInv, TargetIsPools
<1>2. CASE SendSubscribe \/ SendAuthorize
  <2>1. UNCHANGED <<toCli, difficulty, poolDiff, jobs>> /\ pc # "dial"
    BY <1>2 DEF SendSubscribe, SendAuthorize, SendHandshake
  <2>2. QED
    BY <2>1 DEF DiffInv, TargetIsPools
<1>3. CASE ReadSubscribe
  <2>1. jobs' = jobs
    BY <1>3 DEF ReadSubscribe
  <2>2. CASE Head(toCli).kind = "sub"
    <3>1. DiffInv'
      BY <1>3, <2>2, DiffRead DEF ReadSubscribe
    <3>2. QED
      BY <2>1, <3>1 DEF TargetIsPools
  <2>3. CASE Head(toCli).kind # "sub"
    <3>1. pc' = "dial"
      BY <1>3, <2>3 DEF ReadSubscribe
    <3>2. QED
      BY <2>1, <3>1 DEF DiffInv, TargetIsPools
  <2>4. QED
    BY <2>2, <2>3
<1>4. CASE ReadAuthorize \/ ReadMessage
  <2>1. pc # "dial" /\ toCli # <<>> /\ toCli' = Tail(toCli) /\ poolDiff' = poolDiff
    BY <1>4 DEF ReadAuthorize, ReadMessage
  <2>2. CASE IsPush(Head(toCli)) /\ HandlePush(Head(toCli))
    <3>1. difficulty' = IF Head(toCli).kind = "diff" THEN Head(toCli).arg ELSE difficulty
      BY <2>2 DEF HandlePush
    <3>2. QED
      BY <2>1, <2>2, <3>1, DiffRead, TargetPush
  <2>3. CASE ~IsPush(Head(toCli)) /\ UNCHANGED <<difficulty, jobs>>
    <3>1. DiffInv'
      BY <2>1, <2>3, DiffRead DEF IsPush
    <3>2. QED
      BY <2>3, <3>1 DEF TargetIsPools
  <2>4. QED
    BY <1>4, <2>2, <2>3 DEF ReadAuthorize, ReadMessage
<1>5. CASE ConnectionLost
  BY <1>5 DEF ConnectionLost, DiffInv, TargetIsPools
<1>6. CASE Answer
  <2>1. Head(toSrv) \in Request /\ UNCHANGED <<pc, difficulty, poolDiff, jobs>>
    BY <1>6 DEF Answer, TypeOK, NetTypeOK
  <2>2. PICK kind \in {"sub", "true", "false"} :
          toCli' = Append(toCli, [kind |-> kind, id |-> Head(toSrv).id, arg |-> 0])
    BY <1>6 DEF Answer
  <2>3. [kind |-> kind, id |-> Head(toSrv).id, arg |-> 0] \in Line
    BY <2>1 DEF Line, Request
  <2>4. DiffInv'
    BY <2>1, <2>2, <2>3, DiffSend
  <2>5. QED
    BY <2>1, <2>4 DEF TargetIsPools
<1>7. ASSUME NEW d \in Diffs, SetDifficulty(d)
      PROVE  DiffInv' /\ TargetIsPools'
  <2>1. [kind |-> "diff", id |-> None, arg |-> d] \in Line
    BY PoolAssumption DEF Line, None
  <2>2. DiffInv'
    BY <1>7, <2>1, DiffSend DEF SetDifficulty
  <2>3. QED
    BY <1>7, <2>2 DEF SetDifficulty, TargetIsPools
<1>8. CASE Notify
  <2>1. [kind |-> "notify", id |-> None, arg |-> poolDiff] \in Line
    BY DEF Line, None, TypeOK, NetTypeOK
  <2>2. DiffInv'
    BY <1>8, <2>1, DiffSend DEF Notify
  <2>3. QED
    BY <1>8, <2>2 DEF Notify, TargetIsPools
<1>9. CASE Break \/ Adopt \/ (\E w \in Workers : Worker(w)) \/ UNCHANGED vars
  <2>1. UNCHANGED <<pc, toCli, difficulty, poolDiff, jobs>>
    BY <1>9 DEF Break, Adopt, Worker, Take, NextExtranonce2, BuildHeader, EndBatch, SubmitShare,
       StoreRequest, WriteRequest, vars
  <2>2. QED
    BY <2>1 DEF DiffInv, TargetIsPools
<1>10. QED
  BY <1>1, <1>2, <1>3, <1>4, <1>5, <1>6, <1>7, <1>8, <1>9 DEF Next, Reader, Pool

\* Through subscribe, authorize and Run, and across reconnects, a job's share
\* target is the difficulty the pool had set for it on its connection.
THEOREM TargetCorrect == Spec => []TargetIsPools
<1>1. Init => DiffInv /\ TargetIsPools
  BY DEF Init, DiffInv, TargetIsPools
<1>2. QED
  BY <1>1, TypeInit, TypeStep, TargetStep, PTL DEF Spec
-----------------------------------------------------------------------------
(* Extranonce2: the bytes determine the value up to their width. *)

\* The byte of weight i is i places before the last.
LEMMA DigitAt ==
  ASSUME NEW val \in Nat, NEW size \in Nat, NEW i \in Nat, i < size
  PROVE  Digits(val, size)[size - i] = (val \div Pow(Base, i)) % Base
<1>1. size - i \in 1 .. size /\ size - (size - i) = i
  OBVIOUS
<1>2. QED
  BY <1>1 DEF Digits

\* Values with the same low bytes have the same remainder, byte by byte.
LEMMA SameDigits ==
  ASSUME NEW x \in Nat, NEW y \in Nat, NEW n \in Nat, Digits(x, n) = Digits(y, n)
  PROVE  x % Pow(Base, n) = y % Pow(Base, n)
<1> DEFINE T == {k \in Nat : k <= n => x % Pow(Base, k) = y % Pow(Base, k)}
<1>1. Base \in Nat \ {0}
  BY SizesAssumption
<1>2. 0 \in T
  <2>1. x % 1 = 0 /\ y % 1 = 0
    OBVIOUS
  <2>2. QED
    BY <1>1, <2>1, PowSteps
<1>3. ASSUME NEW k \in Nat, k \in T PROVE k + 1 \in T
  <2> SUFFICES ASSUME k + 1 <= n
               PROVE  x % Pow(Base, k + 1) = y % Pow(Base, k + 1)
    OBVIOUS
  <2>1. x % Pow(Base, k) = y % Pow(Base, k)
    BY <1>3
  <2>2. (x \div Pow(Base, k)) % Base = (y \div Pow(Base, k)) % Base
    BY DigitAt
  <2>3. /\ x % Pow(Base, k + 1)
           = (x % Pow(Base, k)) + Pow(Base, k) * ((x \div Pow(Base, k)) % Base)
        /\ y % Pow(Base, k + 1)
           = (y % Pow(Base, k)) + Pow(Base, k) * ((y \div Pow(Base, k)) % Base)
    BY <1>1, ModPowNext
  <2>4. QED
    BY <2>1, <2>2, <2>3, Zenon
<1>4. Nat \subseteq T
  <2> HIDE DEF T
  <2>1. QED
    BY <1>2, <1>3, SetInduction
<1>5. QED
  BY <1>4

\* Two values with the same remainder are the divisor apart.
LEMMA SameRemainder ==
  ASSUME NEW x \in Nat, NEW y \in Nat, NEW m \in Nat \ {0}, x < y, x % m = y % m
  PROVE  y - x >= m
<1> DEFINE p == x \div m
           q == y \div m
           r == x % m
<1>1. /\ p \in Nat /\ q \in Nat /\ r \in Nat
      /\ x = m * p + r /\ y = m * q + r
  <2>1. x = m * p + r /\ y = m * q + (y % m)
    BY DivMod
  <2>2. p \in Nat /\ q \in Nat /\ r \in 0 .. m - 1
    BY DivNat, ModRange
  <2>3. y % m = r
    OBVIOUS
  <2> HIDE DEF p, q, r
  <2>4. QED
    BY <2>1, <2>2, <2>3
<1> HIDE DEF p, q, r
<1>2. m * p \in Nat /\ m * q \in Nat
  BY <1>1, MulNat
<1>3. p < q
  <2>1. CASE p = q
    <3>1. x = y
      BY <1>1, <2>1, Zenon
    <3>2. QED
      BY <3>1
  <2>2. CASE q < p
    <3>1. m * q + m <= m * p
      BY <1>1, <2>2, MulGap
    <3>2. QED
      BY <1>1, <1>2, <3>1
  <2>3. QED
    BY <1>1, <2>1, <2>2
<1>4. m * p + m <= m * q
  BY <1>1, <1>3, MulGap
<1>5. QED
  BY <1>1, <1>2, <1>4

\* An extranonce1 is as long for every connection, so that a coinbase shows its
\* own and the bytes of its extranonce2.
LEMMA CoinbaseParts ==
  ASSUME NEW c \in Conns, NEW d \in Conns, NEW s \in Seq(Byte), NEW t \in Seq(Byte),
         En1[c] \o s = En1[d] \o t
  PROVE  s = t
<1> DEFINE k == Len(En1[c])
           z == En1[c] \o s
<1>1. /\ En1[c] \in Seq(Byte) /\ En1[d] \in Seq(Byte)
      /\ k \in Nat /\ Len(En1[d]) = k
  BY PoolAssumption, En1Assumption
<1>2. ASSUME NEW u \in Seq(Byte), NEW v \in Seq(Byte), Len(u) = k, z = u \o v
      PROVE  Len(z) = k + Len(v) /\ \A i \in 1 .. Len(v) : z[k + i] = v[i]
  <2> HIDE DEF z, k
  <2>1. Len(z) = k + Len(v) /\ Len(v) \in Nat
    BY <1>2, ConcatProperties
  <2>2. ASSUME NEW i \in 1 .. Len(v) PROVE z[k + i] = v[i]
    <3> DEFINE j == k + i
    <3>1. j \in 1 .. Len(u) + Len(v) /\ ~(j <= Len(u)) /\ j - Len(u) = i
      BY <1>1, <1>2, <2>1
    <3> HIDE DEF j
    <3>2. (u \o v)[j] = IF j <= Len(u) THEN u[j] ELSE v[j - Len(u)]
      BY <3>1, ConcatProperties
    <3>3. z[j] = v[i]
      BY <1>2, <3>1, <3>2, Zenon
    <3>4. QED
      BY <3>3 DEF j
  <2>3. QED
    BY <2>1, <2>2
<1>3. /\ Len(z) = k + Len(s) /\ \A i \in 1 .. Len(s) : z[k + i] = s[i]
      /\ Len(z) = k + Len(t) /\ \A i \in 1 .. Len(t) : z[k + i] = t[i]
  <2>1. z = En1[c] \o s /\ z = En1[d] \o t /\ Len(En1[c]) = k
    OBVIOUS
  <2> HIDE DEF z, k
  <2>2. QED
    BY <1>1, <1>2, <2>1
<1> HIDE DEF z, k
<1>4. Len(s) = Len(t)
  BY <1>1, <1>3
<1>5. \A i \in 1 .. Len(s) : s[i] = t[i]
  BY <1>3, <1>4
<1>6. QED
  BY <1>4, <1>5, SeqEqual
\* Two coinbases of the same bytes are of values that are the power of the width
\* apart.
LEMMA SameCoinbase ==
  ASSUME NEW c \in Conns, NEW d \in Conns, NEW x \in Nat, NEW y \in Nat, x < y,
         NEW m \in Nat, NEW n \in Nat,
         En1[c] \o Digits(x, m) = En1[d] \o Digits(y, n)
  PROVE  y - x >= Pow(Base, m)
<1>1. Digits(x, m) = Digits(y, n)
  <2>1. Digits(x, m) \in Seq(Byte) /\ Digits(y, n) \in Seq(Byte)
    BY DigitsType
  <2>2. QED
    BY <2>1, CoinbaseParts
<1>2. m = n
  BY <1>1, DigitsType
<1>3. x % Pow(Base, m) = y % Pow(Base, m)
  BY <1>1, <1>2, SameDigits
<1>4. Pow(Base, m) \in Nat \ {0}
  <2>1. Base \in Nat \ {0}
    BY SizesAssumption
  <2>2. QED
    BY <2>1, PowPositive
<1>5. QED
  BY <1>3, <1>4, SameRemainder

\* The client has an extranonce1 of a pool once it has a job, for a job comes
\* after subscribe's answer.
SubscribedOnce ==
  jobs # <<>> \/ pc \in {"authorize", "authWait", "run"} =>
    \E c \in Conns : extranonce1 = En1[c]

\* The value a worker has taken is not tried yet, and its alone.
Fresh(w) ==
  /\ work[w].val <= en2ID
  /\ work[w].en2 = Digits(work[w].val, Len(work[w].en2))
  /\ \A t \in tried : t.val # work[w].val
  /\ \A u \in Workers : u # w /\ wpc[u] = "build" => work[u].val # work[w].val

\* What was tried is made of a connection's extranonce1 and a value of its own.
TriedOnce ==
  /\ \A t \in tried :
       /\ t.val <= en2ID
       /\ \E c \in Conns : t.coinbase = En1[c] \o Digits(t.val, t.width)
  /\ \A a, b \in tried : a.val = b.val => a = b

FreshInv == \A w \in Workers : wpc[w] = "build" => Fresh(w)

LEMMA DistinctFromInv ==
  ASSUME TypeOK, TriedOnce
  PROVE  CoinbasesDistinct
<1> SUFFICES ASSUME NEW a \in tried, NEW b \in tried,
                    a.coinbase = b.coinbase, a # b, a.val <= b.val
             PROVE  b.val - a.val >= Pow(Base, a.width)
  BY DEF CoinbasesDistinct
<1>1. a \in Tried /\ b \in Tried
  BY DEF TypeOK, WorkTypeOK
<1>2. /\ a.val \in Nat /\ b.val \in Nat /\ a.width \in Nat /\ b.width \in Nat
  BY <1>1 DEF Tried
<1>3. a.val # b.val
  BY DEF TriedOnce
<1>4. a.val < b.val
  BY <1>2, <1>3
<1>5. PICK c \in Conns : a.coinbase = En1[c] \o Digits(a.val, a.width)
  BY DEF TriedOnce
<1>6. PICK d \in Conns : b.coinbase = En1[d] \o Digits(b.val, b.width)
  BY DEF TriedOnce
<1>7. QED
  BY <1>2, <1>4, <1>5, <1>6, SameCoinbase

LEMMA SubscribedStep ==
  ASSUME TypeOK, SubscribedOnce, [Next]_vars
  PROVE  SubscribedOnce'
<1> USE DEF workerVars, readerVars, netVars, poolVars, idVars
<1>1. CASE ReadSubscribe /\ Head(toCli).kind = "sub"
  <2>1. conn \in Conns /\ extranonce1' = En1[conn]
    BY <1>1 DEF ReadSubscribe, TypeOK, ReaderTypeOK
  <2>2. QED
    BY <2>1 DEF SubscribedOnce
<1>2. CASE ReadSubscribe /\ Head(toCli).kind # "sub"
  BY <1>2 DEF ReadSubscribe, SubscribedOnce
<1>3. CASE ReadAuthorize \/ ReadMessage
  <2>1. pc \in {"authWait", "run"} /\ extranonce1' = extranonce1
    BY <1>3 DEF ReadAuthorize, ReadMessage
  <2>2. QED
    BY <2>1 DEF SubscribedOnce
<1>4. CASE AssignConn \/ ConnectionLost
  BY <1>4 DEF AssignConn, ConnectionLost, SubscribedOnce
<1>5. CASE SendSubscribe \/ SendAuthorize
  BY <1>5 DEF SendSubscribe, SendAuthorize, SendHandshake, SubscribedOnce
<1>6. CASE Pool \/ Adopt \/ (\E w \in Workers : Worker(w)) \/ UNCHANGED vars
  <2>1. UNCHANGED <<pc, extranonce1, jobs>>
    BY <1>6 DEF Pool, Answer, SetDifficulty, Notify, Break, Adopt, Worker, Take,
       NextExtranonce2, BuildHeader, EndBatch, SubmitShare, StoreRequest, WriteRequest, vars
  <2>2. QED
    BY <2>1 DEF SubscribedOnce
<1>7. QED
  BY <1>1, <1>2, <1>3, <1>4, <1>5, <1>6 DEF Next, Reader

\* NextExtranonce2 takes a value above all that were.
LEMMA FreshTake ==
  ASSUME TypeOK, TriedOnce, FreshInv, NEW w \in Workers, NextExtranonce2(w)
  PROVE  TriedOnce' /\ FreshInv'
<1> DEFINE digits == Digits(en2ID + 1, extranonce2Len)
<1>1. /\ en2ID \in Nat /\ en2ID' = en2ID + 1 /\ tried' = tried
      /\ extranonce2Len \in Nat
      /\ wpc \in [Workers -> {"take", "en2", "build", "mine", "store", "write"}]
      /\ wpc' = [wpc EXCEPT ![w] = "build"]
  BY DEF NextExtranonce2, TypeOK, WorkTypeOK, ReaderTypeOK
<1>2. /\ work'[w].val = en2ID + 1 /\ work'[w].en2 = digits
      /\ \A u \in Workers \ {w} : work'[u] = work[u]
  <2> HIDE DEF digits
  <2>1. work[w] \in Work /\ work \in [Workers -> Work]
    BY DEF TypeOK, WorkTypeOK
  <2>2. work' = [work EXCEPT ![w].val = en2ID + 1, ![w].en2 = digits]
    BY <1>1 DEF NextExtranonce2, digits
  <2>3. QED
    BY <2>1, <2>2 DEF Work
<1>3. \A t \in tried : t.val \in Nat /\ t.val <= en2ID
  BY DEF TypeOK, WorkTypeOK, Tried, TriedOnce
<1>4. \A u \in Workers : wpc[u] = "build" => work[u].val \in Nat /\ work[u].val <= en2ID
  BY DEF TypeOK, WorkTypeOK, Work, FreshInv, Fresh
<1>5. digits = Digits(en2ID + 1, Len(digits))
  BY <1>1, DigitsType
<1>6. TriedOnce'
  <2>1. \A t \in tried : t.val <= en2ID + 1
    BY <1>1, <1>3
  <2>2. QED
    BY <1>1, <2>1 DEF TriedOnce
<1> HIDE DEF digits
<1>7. Fresh(w)'
  <2>1. work'[w].val <= en2ID' /\ work'[w].en2 = Digits(work'[w].val, Len(work'[w].en2))
    BY <1>1, <1>2, <1>5
  <2>2. \A t \in tried' : t.val # work'[w].val
    BY <1>1, <1>2, <1>3
  <2>3. \A u \in Workers : u # w /\ wpc'[u] = "build" => work'[u].val # work'[w].val
    BY <1>1, <1>2, <1>4
  <2>4. QED
    BY <2>1, <2>2, <2>3 DEF Fresh
<1>8. ASSUME NEW u \in Workers, u # w, wpc'[u] = "build"
      PROVE  Fresh(u)'
  <2>1. wpc[u] = "build" /\ work'[u] = work[u] /\ work[u].val \in Nat /\ work[u].val <= en2ID
    BY <1>1, <1>2, <1>4, <1>8
  <2>2. Fresh(u)
    BY <2>1 DEF FreshInv
  <2>3. work'[u].val <= en2ID'
    BY <1>1, <2>1
  <2>4. \A v \in Workers : v # u /\ wpc'[v] = "build" => work'[v].val # work'[u].val
    <3> TAKE v \in Workers
    <3>1. CASE v = w
      BY <1>1, <1>2, <2>1, <3>1
    <3>2. CASE v # w
      BY <1>1, <1>2, <2>1, <2>2, <3>2 DEF Fresh
    <3>3. QED
      BY <3>1, <3>2
  <2>5. QED
    BY <1>1, <2>1, <2>2, <2>3, <2>4 DEF Fresh
<1>9. QED
  BY <1>6, <1>7, <1>8 DEF FreshInv

\* BuildHeader tries the value its worker has taken.
LEMMA FreshBuild ==
  ASSUME TypeOK, ShareInv, SubscribedOnce, TriedOnce, FreshInv,
         NEW w \in Workers, BuildHeader(w)
  PROVE  TriedOnce' /\ FreshInv'
<1> DEFINE coinbase == extranonce1 \o work[w].en2
           try == [worker |-> w, job |-> job[w], val |-> work[w].val,
                   width |-> Len(work[w].en2), coinbase |-> coinbase]
<1>1. /\ wpc[w] = "build" /\ wpc' = [wpc EXCEPT ![w] = "mine"] /\ en2ID' = en2ID
      /\ work' = [work EXCEPT ![w].coinbase = coinbase] /\ tried' = tried \cup {try}
  BY DEF BuildHeader
<1>2. Fresh(w)
  BY <1>1 DEF FreshInv
<1>3. PICK c \in Conns : extranonce1 = En1[c]
  <2>1. job[w] \in 1 .. Len(jobs)
    BY <1>1 DEF ShareInv, OwnWork
  <2>2. jobs # <<>>
    BY <2>1
  <2>3. QED
    BY <2>2 DEF SubscribedOnce
<1>4. try.val = work[w].val /\ try.coinbase = En1[c] \o Digits(try.val, try.width)
  BY <1>2, <1>3 DEF Fresh
<1>5. /\ wpc \in [Workers -> {"take", "en2", "build", "mine", "store", "write"}]
      /\ work \in [Workers -> Work] /\ work[w] \in Work
  BY DEF TypeOK, WorkTypeOK
<1> HIDE DEF coinbase, try
<1>6. TriedOnce'
  <2>1. try.val <= en2ID /\ \A t \in tried : t.val # try.val
    BY <1>2, <1>4 DEF Fresh
  <2>2. QED
    BY <1>1, <1>4, <2>1 DEF TriedOnce
<1>7. ASSUME NEW u \in Workers, wpc'[u] = "build"
      PROVE  Fresh(u)'
  <2>1. u # w /\ wpc[u] = "build"
    BY <1>1, <1>5, <1>7
  <2>2. Fresh(u)
    BY <2>1 DEF FreshInv
  <2>3. work'[u] = work[u]
    BY <1>1, <2>1
  <2>4. work[w].val # work[u].val
    BY <1>1, <2>1, <2>2 DEF Fresh
  <2>5. \A t \in tried' : t.val # work'[u].val
    BY <1>1, <1>4, <2>2, <2>3, <2>4 DEF Fresh
  <2>6. \A v \in Workers : v # u /\ wpc'[v] = "build" => work'[v].val # work'[u].val
    <3> SUFFICES ASSUME NEW v \in Workers, v # u, wpc'[v] = "build"
                 PROVE  work'[v].val # work'[u].val
      OBVIOUS
    <3>1. v # w /\ wpc[v] = "build"
      BY <1>1, <1>5
    <3>2. work'[v] = work[v]
      BY <1>1, <3>1
    <3>3. QED
      BY <2>2, <2>3, <3>1, <3>2 DEF Fresh
  <2>7. QED
    BY <1>1, <2>2, <2>3, <2>5, <2>6 DEF Fresh
<1>8. QED
  BY <1>6, <1>7 DEF FreshInv

\* Nobody else takes a value or tries one.
LEMMA FreshQuiet ==
  ASSUME TypeOK, TriedOnce, FreshInv, UNCHANGED <<en2ID, tried>>,
         \A u \in Workers : wpc'[u] = "build" => wpc[u] = "build" /\ work'[u] = work[u]
  PROVE  TriedOnce' /\ FreshInv'
<1>1. TriedOnce'
  BY DEF TriedOnce
<1>2. ASSUME NEW u \in Workers, wpc'[u] = "build"
      PROVE  Fresh(u)'
  <2>1. Fresh(u) /\ work'[u] = work[u]
    BY <1>2 DEF FreshInv
  <2>2. QED
    BY <2>1 DEF Fresh
<1>3. QED
  BY <1>1, <1>2 DEF FreshInv

LEMMA FreshWorker ==
  ASSUME TypeOK, ShareInv, SubscribedOnce, TriedOnce, FreshInv,
         NEW w \in Workers, Worker(w)
  PROVE  TriedOnce' /\ FreshInv'
<1>1. CASE NextExtranonce2(w)
  BY <1>1, FreshTake
<1>2. CASE BuildHeader(w)
  BY <1>2, FreshBuild
<1>3. ASSUME NEW place \in {"take", "en2", "mine", "store", "write"},
             wpc' = [wpc EXCEPT ![w] = place],
             UNCHANGED <<en2ID, tried>>, \A u \in Workers \ {w} : work'[u] = work[u]
      PROVE  TriedOnce' /\ FreshInv'
  <2>1. wpc \in [Workers -> {"take", "en2", "build", "mine", "store", "write"}]
    BY DEF TypeOK, WorkTypeOK
  <2>2. \A u \in Workers : wpc'[u] = "build" => wpc[u] = "build" /\ work'[u] = work[u]
    BY <1>3, <2>1
  <2>3. QED
    BY <1>3, <2>2, FreshQuiet
<1>4. work \in [Workers -> Work]
  BY DEF TypeOK, WorkTypeOK
<1>5. CASE Take(w)
  BY <1>3, <1>4, <1>5 DEF Take
<1>6. CASE EndBatch(w)
  BY <1>3, <1>4, <1>6 DEF EndBatch
<1>7. CASE SubmitShare(w)
  BY <1>3, <1>4, <1>7 DEF SubmitShare
<1>8. CASE StoreRequest(w)
  BY <1>3, <1>4, <1>8 DEF StoreRequest
<1>9. CASE WriteRequest(w)
  BY <1>3, <1>4, <1>9 DEF WriteRequest
<1>10. QED
  BY <1>1, <1>2, <1>5, <1>6, <1>7, <1>8, <1>9 DEF Worker

LEMMA DistinctStep ==
  ASSUME TypeOK, ShareInv, SubscribedOnce, TriedOnce, FreshInv, [Next]_vars
  PROVE  TriedOnce' /\ FreshInv'
<1>1. CASE \E w \in Workers : Worker(w)
  BY <1>1, FreshWorker
<1>2. CASE Reader \/ Adopt \/ Pool \/ UNCHANGED vars
  <2>1. UNCHANGED <<en2ID, tried, wpc, work>>
    BY <1>2 DEF Reader, AssignConn, SendSubscribe, SendAuthorize, SendHandshake, ReadSubscribe,
       ReadAuthorize, ReadMessage, ConnectionLost, Adopt, Pool, Answer, SetDifficulty, Notify,
       Break, vars, workerVars
  <2>2. QED
    BY <2>1, FreshQuiet
<1>3. QED
  BY <1>1, <1>2 DEF Next

\* No coinbase is built twice before extranonce2 has run through the values of
\* its width, whatever the workers, the jobs and the connections.
THEOREM CoinbasesAreDistinct == Spec => []CoinbasesDistinct
<1>1. Init => ShareInv /\ SubscribedOnce /\ TriedOnce /\ FreshInv
  BY DEF Init, ShareInv, JobsOfAssigned, OwnWork, SubscribedOnce, TriedOnce, FreshInv
<1>2. TypeOK /\ SubscribedOnce /\ [Next]_vars => SubscribedOnce'
  BY SubscribedStep
<1>3. TypeOK /\ ShareInv /\ SubscribedOnce /\ TriedOnce /\ FreshInv /\ [Next]_vars
        => TriedOnce' /\ FreshInv'
  BY DistinctStep
<1>4. TypeOK /\ TriedOnce => CoinbasesDistinct
  BY DistinctFromInv
<1>5. QED
  BY <1>1, <1>2, <1>3, <1>4, TypeInit, TypeStep, ShareStep, PTL DEF Spec
-----------------------------------------------------------------------------
(* The dispatch of jobs. *)

\* The reader offers a job with each notify it handles, and no other.
LEMMA ReaderPromise == Reader => [Dispatch!Offer]_(Dispatch!vars)
<1> SUFFICES ASSUME Reader PROVE Dispatch!Offer \/ UNCHANGED Dispatch!vars
  BY DEF Dispatch!vars
<1>1. UNCHANGED <<adopted, job>>
  BY DEF Reader, AssignConn, SendSubscribe, SendAuthorize, SendHandshake, ReadSubscribe,
     ReadAuthorize, ReadMessage, ConnectionLost, workerVars
<1>2. offered' = offered + 1 \/ offered' = offered
  BY DEF Reader, AssignConn, SendSubscribe, SendAuthorize, SendHandshake, ReadSubscribe,
     ReadAuthorize, ReadMessage, ConnectionLost, HandlePush
<1>3. QED
  BY <1>1, <1>2 DEF Dispatch!Offer, Dispatch!vars

\* A worker takes up the job that is current, which is none older than its last.
LEMMA WorkerPromise ==
  ASSUME TypeOK, NEW w \in Workers, Worker(w)
  PROVE  Dispatch!TakeUp(w) \/ UNCHANGED Dispatch!vars
<1> USE DEF readerVars
<1>1. CASE Take(w)
  <2>1. adopted \in job[w] .. adopted
    BY DEF TypeOK, JobsTypeOK
  <2>2. job' = [job EXCEPT ![w] = adopted] /\ UNCHANGED <<offered, adopted>>
    BY <1>1 DEF Take
  <2>3. QED
    BY <2>1, <2>2 DEF Dispatch!TakeUp
<1>2. CASE ~Take(w)
  <2>1. UNCHANGED <<offered, adopted, job>>
    BY <1>2 DEF Worker, NextExtranonce2, BuildHeader, EndBatch, SubmitShare, StoreRequest,
       WriteRequest
  <2>2. QED
    BY <2>1 DEF Dispatch!vars
<1>3. QED
  BY <1>1, <1>2

LEMMA PromiseStep == TypeOK /\ [Next]_vars => [Dispatch!Next]_(Dispatch!vars)
<1> SUFFICES ASSUME TypeOK, [Next]_vars PROVE Dispatch!Next \/ UNCHANGED Dispatch!vars
  BY DEF Dispatch!vars
<1>1. CASE Reader
  BY <1>1, ReaderPromise DEF Dispatch!Next
<1>2. CASE Adopt
  BY <1>2 DEF Adopt, Dispatch!Next
<1>3. CASE \E w \in Workers : Worker(w)
  BY <1>3, WorkerPromise DEF Dispatch!Next
<1>4. CASE Pool \/ UNCHANGED vars
  <2>1. UNCHANGED <<offered, adopted, job>>
    BY <1>4 DEF Pool, Answer, SetDifficulty, Notify, Break, vars, readerVars, workerVars
  <2>2. QED
    BY <2>1 DEF Dispatch!vars
<1>5. QED
  BY <1>1, <1>2, <1>3, <1>4 DEF Next

\* The workers here take no job but as LatestJob promises them, which JobDispatch
\* implements (DispatchImplementsLatestJob): the two modules meet in that promise.
THEOREM SharesUseThePromise == Spec => Dispatch!Spec
<1>1. Init => Dispatch!Init
  BY DEF Init, Dispatch!Init, None
<1>2. QED
  BY <1>1, TypeInit, TypeStep, PromiseStep, PTL DEF Spec, Dispatch!Spec
=============================================================================
