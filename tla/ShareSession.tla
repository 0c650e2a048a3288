---------------------------- MODULE ShareSession ----------------------------
(***************************************************************************)
(* How a share is made and answered (client.go and RunMiner's workers):    *)
(* the reading goroutine brings what the pool assigns to a connection (the *)
(* extranonce1, the extranonce2's width, difficulties, jobs) while the     *)
(* workers take a job, an extranonce2, build a header from them, mine it   *)
(* and submit what they find on whatever connection there is by then.      *)
(* StratumSession has the session's own control (retries, credentials,     *)
(* the context); between the reader and the workers stands the dispatch of *)
(* jobs, of which this module uses what LatestJob promises.                *)
(***************************************************************************)
EXTENDS Integers, Sequences, FiniteSets, Powers

CONSTANTS Workers,
          Base,        \* values of a byte, 256
          En1, Width,  \* what the pool assigns to each connection
          Diffs,       \* the difficulties it sets
          Default,     \* the client's difficulty before any, 0.001
          Lag,         \* of LatestJob
          MaxConns,    \* bound: connections dialled
          MaxPushes,   \* bound: notifications the pool sends
          MaxTakes,    \* bound: extranonce2 values taken
          MaxShares    \* bound: shares submitted

Byte  == 0 .. Base - 1
Conns == 1 .. MaxConns
None  == 0  \* no connection, no job, no difficulty set, no request

ASSUME SizesAssumption ==
  /\ Base \in Nat /\ Base >= 2
  /\ MaxConns \in Nat /\ MaxPushes \in Nat /\ MaxTakes \in Nat /\ MaxShares \in Nat
ASSUME PoolAssumption ==
  /\ En1 \in [Conns -> Seq(Byte)] /\ Width \in [Conns -> Nat]
  /\ Diffs \subseteq Nat \ {None}
  /\ Default \in Nat \ {None}
\* A pool tells its connections apart: extranonce1 is as long for each, and another.
ASSUME En1Assumption ==
  \A c, d \in Conns : /\ Len(En1[c]) = Len(En1[d])
                      /\ En1[c] = En1[d] => c = d

VARIABLES
  pc,          \* the reading goroutine
  conn, up,    \* c.conn, by number, and whether it is open
  toSrv, toCli,  \* in flight on it
  extranonce1, extranonce2Len, difficulty,
  jobs,        \* every job handleNotify has made
  offered, adopted,  \* of LatestJob: how many, and RunMiner's currentJob
  poolDiff,    \* the difficulty the pool has set on this connection
  pushes,
  msgID, en2ID,  \* the counters of requests and of extranonce2
  requestTimes,  \* the requests whose answer is waited for
  handled,     \* those whose answer handleMessage has seen
  wpc,         \* wpc[w]: where the worker is
  job,         \* job[w]: its job (LatestJob's mining)
  work,        \* work[w]: its extranonce2, coinbase and share
  shares,      \* shares submitted
  tried        \* every coinbase that was built, for which job and by whom

readerVars == <<pc, conn, up, extranonce1, extranonce2Len, difficulty, jobs, offered>>
netVars    == <<toSrv, toCli>>
poolVars   == <<poolDiff, pushes>>
idVars     == <<msgID, requestTimes, handled>>
workerVars == <<adopted, en2ID, wpc, job, work, shares, tried>>
vars == <<readerVars, netVars, poolVars, idVars, workerVars>>

Dispatch == INSTANCE LatestJob WITH Miners <- Workers, mining <- job

Request == [kind : {"subscribe", "authorize", "share"}, id : Nat]
\* A line from the pool: an answer has an id; arg is what a "diff" sets, and
\* for a "notify" the difficulty the pool means its job to have.
Line == [kind : {"sub", "true", "false", "diff", "notify"}, id : Nat, arg : Nat]
Job  == [conn : Conns, due : Nat, target : Nat]
Work == [val : Nat, en2 : Seq(Byte), coinbase : Seq(Byte), id : Nat]
NoWork == [val |-> 0, en2 |-> <<>>, coinbase |-> <<>>, id |-> None]
Tried == [worker : Workers, job : Nat, val : Nat, width : Nat, coinbase : Seq(Byte)]

ReaderTypeOK ==
  /\ pc \in {"dial", "subscribe", "subWait", "authorize", "authWait", "run"}
  /\ conn \in 0 .. MaxConns /\ up \in BOOLEAN
  /\ pc # "dial" => conn \in Conns
  /\ extranonce1 \in Seq(Byte) /\ extranonce2Len \in Nat /\ difficulty \in Nat
JobsTypeOK ==
  /\ jobs \in Seq(Job) /\ offered = Len(jobs) /\ adopted \in 0 .. offered
  /\ job \in [Workers -> 0 .. adopted]
NetTypeOK ==
  /\ toSrv \in Seq(Request) /\ toCli \in Seq(Line)
  /\ poolDiff \in Nat /\ pushes \in Nat
IdsTypeOK ==
  /\ msgID \in Nat /\ requestTimes \subseteq Nat /\ handled \subseteq Nat
WorkTypeOK ==
  /\ wpc \in [Workers -> {"take", "en2", "build", "mine", "store", "write"}]
  /\ work \in [Workers -> Work] /\ en2ID \in Nat /\ shares \in Nat
  /\ tried \subseteq Tried

TypeOK == ReaderTypeOK /\ JobsTypeOK /\ NetTypeOK /\ IdsTypeOK /\ WorkTypeOK

Init ==
  /\ pc = "dial" /\ conn = None /\ up = FALSE
  /\ toSrv = <<>> /\ toCli = <<>>
  /\ extranonce1 = <<>> /\ extranonce2Len = 0 /\ difficulty = Default
  /\ jobs = <<>> /\ offered = 0 /\ adopted = 0
  /\ poolDiff = None /\ pushes = 0
  /\ msgID = 0 /\ en2ID = 0 /\ requestTimes = {} /\ handled = {}
  /\ wpc = [w \in Workers |-> "take"] /\ job = [w \in Workers |-> None]
  /\ work = [w \in Workers |-> NoWork]
  /\ shares = 0 /\ tried = {}

-----------------------------------------------------------------------------
(* The reading goroutine. *)

\* dialAndAuth assigns c.conn: from here on the workers write on it.  The old
\* extranonce1, width and difficulty stay.
AssignConn ==
  /\ pc = "dial" /\ conn < MaxConns
  /\ pc' = "subscribe" /\ conn' = conn + 1 /\ up' = TRUE
  /\ toSrv' = <<>> /\ toCli' = <<>> /\ poolDiff' = None
  /\ UNCHANGED <<extranonce1, extranonce2Len, difficulty, jobs, offered, pushes,
                 idVars, workerVars>>

\* sendJSON for the handshake: an entry in requestTimes, then the write.
SendHandshake(from, kind, to) ==
  /\ pc = from /\ up
  /\ pc' = to
  /\ msgID' = msgID + 1
  /\ requestTimes' = requestTimes \cup {msgID'}
  /\ toSrv' = Append(toSrv, [kind |-> kind, id |-> msgID'])
  /\ UNCHANGED <<conn, up, extranonce1, extranonce2Len, difficulty, jobs, offered,
                 toCli, poolVars, handled, workerVars>>

SendSubscribe == SendHandshake("subscribe", "subscribe", "subWait")
SendAuthorize == SendHandshake("authorize", "authorize", "authWait")

\* Mutant: only the first session's extranonce1 is kept.
ReadSubscribeOnce ==
  /\ pc = "subWait" /\ toCli # <<>>
  /\ toCli' = Tail(toCli)
  /\ IF Head(toCli).kind = "sub"
     THEN /\ pc' = "authorize"
          /\ extranonce1' = IF extranonce1 = <<>> THEN En1[conn] ELSE extranonce1
          /\ extranonce2Len' = Width[conn]
          /\ UNCHANGED up
     ELSE /\ pc' = "dial" /\ up' = FALSE
          /\ UNCHANGED <<extranonce1, extranonce2Len>>
  /\ UNCHANGED <<conn, difficulty, jobs, offered, toSrv, poolVars, idVars, workerVars>>

\* subscribe takes the first line for its answer, and leaves its entry in
\* requestTimes.
ReadSubscribe ==
  /\ pc = "subWait" /\ toCli # <<>>
  /\ toCli' = Tail(toCli)
  /\ IF Head(toCli).kind = "sub"
     THEN /\ pc' = "authorize"
          /\ extranonce1' = En1[conn] /\ extranonce2Len' = Width[conn]
          /\ UNCHANGED up
     ELSE /\ pc' = "dial" /\ up' = FALSE
          /\ UNCHANGED <<extranonce1, extranonce2Len>>
  /\ UNCHANGED <<conn, difficulty, jobs, offered, toSrv, poolVars, idVars, workerVars>>

\* handleSetDifficulty and handleNotify.  A job has the target of the difficulty
\* the client knows then.
HandlePush(line) ==
  \/ /\ line.kind = "diff"
     /\ difficulty' = line.arg
     /\ UNCHANGED <<jobs, offered>>
  \/ /\ line.kind = "notify"
     /\ jobs' = Append(jobs, [conn |-> conn, due |-> line.arg, target |-> difficulty])
     /\ offered' = offered + 1
     /\ UNCHANGED difficulty

IsPush(line) == line.kind \in {"diff", "notify"}

\* Mutant: authorize passes over a difficulty that comes before its answer.
ReadAuthorizeJobsOnly ==
  /\ pc = "authWait" /\ toCli # <<>>
  /\ toCli' = Tail(toCli)
  /\ LET line == Head(toCli) IN
     \/ /\ line.kind = "notify" /\ HandlePush(line)
        /\ UNCHANGED <<pc, up>>
     \/ /\ line.kind # "notify"
        /\ pc' = IF line.kind = "diff" THEN pc ELSE IF line.kind = "true" THEN "run" ELSE "dial"
        /\ up' = (up /\ line.kind \in {"diff", "true"})
        /\ UNCHANGED <<difficulty, jobs, offered>>
  /\ UNCHANGED <<conn, extranonce1, extranonce2Len, toSrv, poolVars, idVars, workerVars>>

\* authorize handles what the pool pushes, and takes the first line with a
\* result for its answer, a share's too; that answer's entry stays.  Giving up
\* after ten lines is among what HandshakeBroken does.
ReadAuthorize ==
  /\ pc = "authWait" /\ toCli # <<>>
  /\ toCli' = Tail(toCli)
  /\ LET line == Head(toCli) IN
     \/ /\ IsPush(line) /\ HandlePush(line)
        /\ UNCHANGED <<pc, up>>
     \/ /\ ~IsPush(line)
        /\ pc' = IF line.kind = "true" THEN "run" ELSE "dial"
        /\ up' = (up /\ line.kind = "true")
        /\ UNCHANGED <<difficulty, jobs, offered>>
  /\ UNCHANGED <<conn, extranonce1, extranonce2Len, toSrv, poolVars, idVars, workerVars>>

\* Run's loop: an answer removes its entry.
ReadMessage ==
  /\ pc = "run" /\ toCli # <<>>
  /\ toCli' = Tail(toCli)
  /\ LET line == Head(toCli) IN
     \/ /\ IsPush(line) /\ HandlePush(line)
        /\ UNCHANGED <<requestTimes, handled>>
     \/ /\ ~IsPush(line)
        /\ requestTimes' = requestTimes \ {line.id}
        /\ handled' = handled \cup {line.id}
        /\ UNCHANGED <<difficulty, jobs, offered>>
  /\ UNCHANGED <<pc, conn, up, extranonce1, extranonce2Len, toSrv, poolVars,
                 msgID, workerVars>>

\* The reader finds the connection broken, or gives the handshake up, and dials
\* again; what was in flight is lost.
ConnectionLost ==
  /\ pc # "dial"
  /\ ~up \/ pc = "authWait"
  /\ pc' = "dial" /\ up' = FALSE
  /\ toSrv' = <<>> /\ toCli' = <<>>
  /\ UNCHANGED <<conn, extranonce1, extranonce2Len, difficulty, jobs, offered, poolVars,
                 idVars, workerVars>>

Reader ==
  \/ AssignConn \/ SendSubscribe \/ ReadSubscribe \/ SendAuthorize
  \/ ReadAuthorize \/ ReadMessage \/ ConnectionLost

-----------------------------------------------------------------------------
(* A worker, and the dispatch of jobs to it. *)

Adopt == Dispatch!Adopt /\ UNCHANGED <<readerVars, netVars, poolVars, idVars, en2ID,
                                       wpc, work, shares, tried>>

Take(w) ==
  /\ wpc[w] = "take" /\ adopted # None
  /\ job' = [job EXCEPT ![w] = adopted]
  /\ wpc' = [wpc EXCEPT ![w] = "en2"]
  /\ UNCHANGED <<readerVars, netVars, poolVars, idVars, adopted, en2ID, work, shares, tried>>

\* Mutant: the values are not cut to a byte.
DigitsUncut(val, size) == [i \in 1 .. size |-> val \div Pow(Base, size - i)]

\* The low bytes of val, the highest first.
Digits(val, size) == [i \in 1 .. size |-> (val \div Pow(Base, size - i)) % Base]

\* Mutant: every worker counts for itself.
OwnExtranonce2(w) ==
  /\ wpc[w] = "en2" /\ en2ID < MaxTakes
  /\ en2ID' = en2ID + 1
  /\ LET val == Cardinality({t \in tried : t.worker = w}) + 1
     IN  work' = [work EXCEPT ![w].val = val, ![w].en2 = Digits(val, extranonce2Len)]
  /\ wpc' = [wpc EXCEPT ![w] = "build"]
  /\ UNCHANGED <<readerVars, netVars, poolVars, idVars, adopted, job, shares, tried>>

NextExtranonce2(w) ==
  /\ wpc[w] = "en2" /\ en2ID < MaxTakes
  /\ en2ID' = en2ID + 1
  /\ work' = [work EXCEPT ![w].val = en2ID', ![w].en2 = Digits(en2ID', extranonce2Len)]
  /\ wpc' = [wpc EXCEPT ![w] = "build"]
  /\ UNCHANGED <<readerVars, netVars, poolVars, idVars, adopted, job, shares, tried>>

\* BuildHeader: the rest of the coinbase, the merkle branch and the other fields
\* are the job's, so that a header is a job, a coinbase and the nonce.
BuildHeader(w) ==
  /\ wpc[w] = "build"
  /\ LET coinbase == extranonce1 \o work[w].en2
     IN  /\ work' = [work EXCEPT ![w].coinbase = coinbase]
         /\ tried' = tried \cup {[worker |-> w, job |-> job[w], val |-> work[w].val,
                                  width |-> Len(work[w].en2), coinbase |-> coinbase]}
  /\ wpc' = [wpc EXCEPT ![w] = "mine"]
  /\ UNCHANGED <<readerVars, netVars, poolVars, idVars, adopted, en2ID, job, shares>>

\* The nonce range ends, or a newer job is seen.
EndBatch(w) ==
  /\ wpc[w] = "mine"
  /\ wpc' = [wpc EXCEPT ![w] = "take"]
  /\ work' = [work EXCEPT ![w] = NoWork]
  /\ UNCHANGED <<readerVars, netVars, poolVars, idVars, adopted, en2ID, job, shares, tried>>

\* SubmitShare takes an id for the share of a nonce that meets the job's target.
SubmitShare(w) ==
  /\ wpc[w] = "mine" /\ shares < MaxShares
  /\ shares' = shares + 1
  /\ msgID' = msgID + 1
  /\ work' = [work EXCEPT ![w].id = msgID']
  /\ wpc' = [wpc EXCEPT ![w] = "store"]
  /\ UNCHANGED <<readerVars, netVars, poolVars, requestTimes, handled, adopted, en2ID, job, tried>>

\* Mutant: the entry is made after the write, by which the answer may be here.
StoreAfterWrite(w) ==
  /\ wpc[w] = "store"
  /\ \/ /\ wpc' = [wpc EXCEPT ![w] = "mine"]
        /\ requestTimes' = requestTimes \cup {work[w].id}
        /\ UNCHANGED toSrv
     \/ /\ up /\ \A i \in 1 .. Len(toSrv) : toSrv[i].id # work[w].id
        /\ toSrv' = Append(toSrv, [kind |-> "share", id |-> work[w].id])
        /\ UNCHANGED <<wpc, requestTimes>>
  /\ UNCHANGED <<readerVars, toCli, poolVars, msgID, handled, adopted, en2ID, job, work, shares, tried>>

\* sendJSON, with writeMu held for each of its two parts.
StoreRequest(w) ==
  /\ wpc[w] = "store"
  /\ requestTimes' = requestTimes \cup {work[w].id}
  /\ wpc' = [wpc EXCEPT ![w] = "write"]
  /\ UNCHANGED <<readerVars, netVars, poolVars, msgID, handled, adopted, en2ID, job, work, shares, tried>>

\* A failed write is not noticed by the worker.
WriteRequest(w) ==
  /\ wpc[w] = "write"
  /\ toSrv' = IF up THEN Append(toSrv, [kind |-> "share", id |-> work[w].id]) ELSE toSrv
  /\ wpc' = [wpc EXCEPT ![w] = "mine"]
  /\ work' = [work EXCEPT ![w].id = None]
  /\ UNCHANGED <<readerVars, toCli, poolVars, idVars, adopted, en2ID, job, shares, tried>>

Worker(w) ==
  \/ Take(w) \/ NextExtranonce2(w) \/ BuildHeader(w) \/ EndBatch(w)
  \/ SubmitShare(w) \/ StoreRequest(w) \/ WriteRequest(w)

-----------------------------------------------------------------------------
(* The pool: it answers requests in their order, and pushes difficulties and *)
(* jobs when it likes.  The connection fails when it likes.                   *)

Answer ==
  /\ up /\ toSrv # <<>>
  /\ toSrv' = Tail(toSrv)
  /\ \E kind \in IF Head(toSrv).kind = "subscribe" THEN {"sub"} ELSE {"true", "false"} :
       toCli' = Append(toCli, [kind |-> kind, id |-> Head(toSrv).id, arg |-> 0])
  /\ UNCHANGED <<readerVars, poolVars, idVars, workerVars>>

SetDifficulty(d) ==
  /\ up /\ pushes < MaxPushes
  /\ pushes' = pushes + 1 /\ poolDiff' = d
  /\ toCli' = Append(toCli, [kind |-> "diff", id |-> None, arg |-> d])
  /\ UNCHANGED <<readerVars, toSrv, idVars, workerVars>>

Notify ==
  /\ up /\ pushes < MaxPushes
  /\ pushes' = pushes + 1
  /\ toCli' = Append(toCli, [kind |-> "notify", id |-> None, arg |-> poolDiff])
  /\ UNCHANGED <<readerVars, toSrv, poolDiff, idVars, workerVars>>

\* A failure of the connection, or Reauthorize, which closes it.
Break ==
  /\ up
  /\ up' = FALSE
  /\ UNCHANGED <<pc, conn, extranonce1, extranonce2Len, difficulty, jobs, offered,
                 netVars, poolVars, idVars, workerVars>>

Pool == Answer \/ (\E d \in Diffs : SetDifficulty(d)) \/ Notify \/ Break

Next == Reader \/ Adopt \/ (\E w \in Workers : Worker(w)) \/ Pool

Spec == Init /\ [][Next]_vars

-----------------------------------------------------------------------------
(* Properties. *)

\* A share submitted for a job of the connection it is written to is the one
\* the pool checks: with that connection's extranonce1, and an extranonce2 of
\* the width it asked for, although subscribe replaces both while the workers
\* use them, and c.conn before them.
SharesVerify ==
  \A w \in Workers :
    wpc[w] = "write" /\ jobs[job[w]].conn = conn
      => /\ work[w].coinbase = En1[conn] \o work[w].en2
         /\ Len(work[w].en2) = Width[conn]

\* No worker mines a coinbase of a job twice, nor do two workers mine the same,
\* before extranonce2 has run through all the values of its width.
CoinbasesDistinct ==
  \A a, b \in tried :
    a.job = b.job /\ a.coinbase = b.coinbase /\ a # b /\ a.val <= b.val
      => b.val - a.val >= Pow(Base, a.width)

\* An entry of requestTimes is a request that handleMessage has not seen the
\* answer of: what stays there for good are the handshake's requests, and those
\* whose answer was lost or taken by authorize.
LedgerExact == requestTimes \cap handled = {}

\* A job's share target is that of the difficulty the pool had set last on that
\* connection, also when both came before authorize's answer.
TargetIsPools ==
  \A j \in 1 .. Len(jobs) : jobs[j].due # None => jobs[j].target = jobs[j].due
=============================================================================
