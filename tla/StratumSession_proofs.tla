------------------------ MODULE StratumSession_proofs ------------------------
(***************************************************************************)
(* Proofs about StratumSession: type correctness, that no connection stays *)
(* open under credentials that Reauthorize has replaced, and that no share *)
(* is counted as accepted that the pool has not accepted.                  *)
(***************************************************************************)
EXTENDS StratumSession, SequenceTheorems, FunctionTheorems, FiniteSetTheorems, TLAPS

USE AuthLinesAssumption, BoundsAssumption

\* authorize's use of workerMu, after the assignment of c.conn, is what makes
\* the connection visible to a Reauthorize that comes later.
Published ==
  pc \in {"authSend", "authWait", "top", "run"} => pubConn = conn

\* authorize stops at the limit, so a connection that waits has lines left.
LinesLeft == pc \in {"subscribe", "subWait", "authorize", "authSend", "authWait"}
               => lines < AuthLines

\* The pool says true on this connection only after it has authorized it: no
\* share is accepted before.
TrueIsAuthorized ==
  \A i \in 1 .. Len(toCli) : toCli[i] = "true" => srvAuth

\* One authorize is sent on a connection, and the pool's consent answers it: no
\* other is on its way before the client sends it, or after the pool consented.
AuthorizeOnce ==
  /\ pc \in {"subscribe", "subWait", "authorize", "authSend"} =>
       ~srvAuth /\ \A i \in 1 .. Len(toSrv) : toSrv[i] # "authorize"
  /\ pc \in {"authWait", "top", "run"} =>
       \A i, j \in 1 .. Len(toSrv) :
         toSrv[i] = "authorize" => ~srvAuth /\ (toSrv[j] = "authorize" => i = j)

\* The answers "true" on their way to the client.
Trues(s) == {i \in 1 .. Len(s) : s[i] = "true"}

\* Each of them is a share the pool has accepted and the client has not counted,
\* but for one while authorize waits, which will take that one for its answer.
TruesCounted ==
  /\ pc = "authWait" => accepted + Cardinality(Trues(toCli)) <= srvShares + 1
  /\ pc \in {"top", "run"} => accepted + Cardinality(Trues(toCli)) <= srvShares

\* The inductive invariant.
IInv ==
  /\ TypeOK
  /\ LinesLeft
  /\ Published
  /\ CredentialsCurrent
  /\ TrueIsAuthorized
  /\ AuthorizedByPool
  /\ AuthorizeOnce
  /\ TruesCounted
  /\ AcceptedByPool

\* What sending and receiving does to the channels' types.
LEMMA ChannelTypes ==
  ASSUME TypeOK
  PROVE  /\ <<>> \in Seq(Messages) /\ <<>> \in Seq(Requests)
         /\ \A m \in {"push", "sub", "true", "false", "error", "stale"} :
              Append(toCli, m) \in Seq(Messages)
         /\ \A m \in {"subscribe", "authorize", "share"} :
              Append(toSrv, m) \in Seq(Requests)
         /\ toCli # <<>> => Tail(toCli) \in Seq(Messages)
         /\ toSrv # <<>> => Tail(toSrv) \in Seq(Requests)
<1>1. toCli \in Seq(Messages) /\ toSrv \in Seq(Requests)
  BY DEF TypeOK
<1>2. <<>> \in Seq(Messages) /\ <<>> \in Seq(Requests)
  BY EmptySeq
<1>3. /\ \A m \in Messages : Append(toCli, m) \in Seq(Messages)
      /\ \A m \in Requests : Append(toSrv, m) \in Seq(Requests)
  BY <1>1, AppendProperties
<1>4. /\ toCli # <<>> => Tail(toCli) \in Seq(Messages)
      /\ toSrv # <<>> => Tail(toSrv) \in Seq(Requests)
  BY <1>1, HeadTailProperties
<1>5. /\ {"push", "sub", "true", "false", "error", "stale"} \subseteq Messages
      /\ {"subscribe", "authorize", "share"} \subseteq Requests
  BY DEF Messages, Replies, Requests
<1> QED  BY <1>2, <1>3, <1>4, <1>5

\* The initial states satisfy the strengthened invariant.
LEMMA InitIInv == Init => IInv
<1> SUFFICES ASSUME Init PROVE IInv
  OBVIOUS
<1>1. toSrv \in Seq(Requests) /\ toCli \in Seq(Messages)
  <2>1. toSrv = <<>> /\ toCli = <<>>
    BY DEF Init
  <2> QED  BY <2>1, EmptySeq, Zenon
<1>2. /\ rpc \in [Callers -> {"idle", "close"}]
      /\ floor \in [Callers -> Nat]
  BY DEF Init
<1>3. TypeOK
  <2>1. /\ pc \in ReaderPcs /\ lines \in 0 .. AuthLines /\ lastErr = "none"
        /\ conn = 0 /\ srvShares = 0 /\ pushes = 0 /\ creds = 0
        /\ authCreds = 0 /\ pubConn = 0
        /\ submitted = 0 /\ accepted = 0 /\ rejected = 0 /\ stale = 0
    BY DEF Init, ReaderPcs
  <2>2. /\ connected \in BOOLEAN /\ up \in BOOLEAN
        /\ srvAuth \in BOOLEAN
        /\ jobSeen \in BOOLEAN /\ ctxDone \in BOOLEAN /\ mainClosed \in BOOLEAN
    BY DEF Init
  <2> QED  BY <1>1, <1>2, <2>1, <2>2 DEF TypeOK
<1>4. LinesLeft /\ Published /\ CredentialsCurrent /\ AuthorizedByPool
  BY DEF Init, LinesLeft, Published, CredentialsCurrent, AuthorizedByPool
<1>5. TrueIsAuthorized
  BY EmptySeq DEF Init, TrueIsAuthorized
<1>6. AuthorizeOnce /\ TruesCounted /\ AcceptedByPool
  BY DEF Init, AuthorizeOnce, TruesCounted, AcceptedByPool
<1> QED  BY <1>3, <1>4, <1>5, <1>6 DEF IInv

-----------------------------------------------------------------------------
(* Every step preserves the types. *)

\* Every step of the reading goroutine keeps the types and the line count.
LEMMA ReaderType == TypeOK /\ LinesLeft /\ Reader => TypeOK' /\ LinesLeft'
<1> SUFFICES ASSUME TypeOK, LinesLeft, Reader PROVE TypeOK' /\ LinesLeft'
  OBVIOUS
<1> USE DEF readerVars, connVars, poolVars, credVars, authVars, statVars, stopVars
<1>1. CASE Dial  BY <1>1 DEF TypeOK, LinesLeft, ReaderPcs, Dial
<1>2. CASE DialFails  BY <1>2 DEF TypeOK, LinesLeft, ReaderPcs, DialFails
<1>3. CASE AssignConn
  <2>1. /\ toSrv' \in Seq(Requests) /\ toCli' \in Seq(Messages)
        /\ up' \in BOOLEAN /\ srvAuth' \in BOOLEAN
        /\ pc' = "subscribe" /\ lines' = 0 /\ conn' = conn + 1
    BY <1>3, ChannelTypes DEF AssignConn
  <2>2. UNCHANGED <<lastErr, connected, srvShares, pushes, jobSeen, credVars,
                    authVars, statVars, stopVars>>
    BY <1>3 DEF AssignConn
  <2> QED  BY <2>1, <2>2 DEF TypeOK, LinesLeft, ReaderPcs
<1>4. CASE HandshakeBroken  BY <1>4 DEF TypeOK, LinesLeft, ReaderPcs, HandshakeBroken, FailWith
<1>5. CASE SendSubscribe  BY <1>5, ChannelTypes DEF TypeOK, LinesLeft, ReaderPcs, SendSubscribe
<1>6. CASE ReadSubscribe  BY <1>6, ChannelTypes DEF TypeOK, LinesLeft, ReaderPcs, ReadSubscribe, FailWith
<1>7. CASE ReadCreds  BY <1>7 DEF TypeOK, LinesLeft, ReaderPcs, ReadCreds
<1>8. CASE SendAuthorize  BY <1>8, ChannelTypes DEF TypeOK, LinesLeft, ReaderPcs, SendAuthorize
<1>9. CASE ReadAuthorize
  <2>1. lines' \in 0 .. AuthLines /\ toCli' \in Seq(Messages)
    BY <1>9, ChannelTypes DEF TypeOK, LinesLeft, ReaderPcs, ReadAuthorize
  <2>2. jobSeen' \in BOOLEAN /\ connected' \in BOOLEAN /\ up' \in BOOLEAN
    <3>1. jobSeen \in BOOLEAN /\ connected \in BOOLEAN /\ up \in BOOLEAN
      BY DEF TypeOK
    <3> QED  BY <1>9, <3>1 DEF ReadAuthorize, FailWith
  <2>3. \/ pc' = "top" /\ lastErr' = lastErr
        \/ pc' = "backoff" /\ lastErr' \in {"rejected", "timeout"}
        \/ pc' = pc /\ lastErr' = lastErr /\ lines' < AuthLines
    BY <1>9, <2>1 DEF ReadAuthorize, FailWith
  <2>4. UNCHANGED <<conn, toSrv, poolVars, credVars, authVars, statVars, stopVars>>
    BY <1>9 DEF ReadAuthorize
  <2> QED  BY <2>1, <2>2, <2>3, <2>4 DEF TypeOK, LinesLeft, ReaderPcs
<1>10. CASE BackoffEnds  BY <1>10 DEF TypeOK, LinesLeft, ReaderPcs, BackoffEnds
<1>11. CASE RunLoopTop  BY <1>11 DEF TypeOK, LinesLeft, ReaderPcs, RunLoopTop
<1>12. CASE ReadMessage
  <2>1. toCli' \in Seq(Messages) /\ jobSeen' \in BOOLEAN
    BY <1>12, ChannelTypes DEF ReadMessage
  <2>2. accepted' \in Nat /\ rejected' \in Nat /\ stale' \in Nat
    <3>1. accepted \in Nat /\ rejected \in Nat /\ stale \in Nat
      BY DEF TypeOK
    <3>2. /\ accepted' \in {accepted, accepted + 1}
          /\ stale' \in {stale, stale + 1}
          /\ rejected' \in {rejected, rejected + 1, rejected + 2}
      BY <1>12 DEF ReadMessage
    <3> QED  BY <3>1, <3>2
  <2>3. UNCHANGED <<readerVars, conn, up, toSrv, poolVars, credVars, authVars,
                    submitted, stopVars>>
    BY <1>12 DEF ReadMessage
  <2> QED  BY <2>1, <2>2, <2>3 DEF TypeOK, LinesLeft, ReaderPcs
<1>13. CASE ConnectionLost  BY <1>13 DEF TypeOK, LinesLeft, ReaderPcs, ConnectionLost
<1> QED
  BY <1>1, <1>2, <1>3, <1>4, <1>5, <1>6, <1>7, <1>8, <1>9, <1>10, <1>11, <1>12,
     <1>13 DEF Reader

\* Every step of anyone keeps the types and the line count.
LEMMA NextType == TypeOK /\ LinesLeft /\ [Next]_vars => TypeOK' /\ LinesLeft'
<1> SUFFICES ASSUME TypeOK, LinesLeft, [Next]_vars PROVE TypeOK' /\ LinesLeft'
  OBVIOUS
<1>1. CASE Reader  BY <1>1, ReaderType
<1> USE DEF readerVars, connVars, poolVars, credVars, authVars, statVars, stopVars
<1>2. CASE SubmitShare
  <2>1. toSrv' \in Seq(Requests) /\ submitted' \in Nat
    <3>1. toSrv \in Seq(Requests) /\ submitted \in Nat
      BY DEF TypeOK
    <3>2. toSrv' \in {toSrv, Append(toSrv, "share")} /\ submitted' = submitted + 1
      BY <1>2 DEF SubmitShare
    <3> QED  BY <3>1, <3>2, ChannelTypes
  <2>2. UNCHANGED <<readerVars, conn, up, toCli, poolVars, jobSeen, credVars,
                    authVars, accepted, rejected, stale, stopVars>>
    BY <1>2 DEF SubmitShare
  <2> QED  BY <2>1, <2>2 DEF TypeOK, LinesLeft, ReaderPcs
<1>3. ASSUME NEW c \in Callers, SwapCreds(c) PROVE TypeOK' /\ LinesLeft'
  BY <1>3 DEF TypeOK, LinesLeft, ReaderPcs, SwapCreds
<1>4. ASSUME NEW c \in Callers, CloseConn(c) PROVE TypeOK' /\ LinesLeft'
  BY <1>4 DEF TypeOK, LinesLeft, ReaderPcs, CloseConn
<1>5. CASE MainClose  BY <1>5 DEF TypeOK, LinesLeft, ReaderPcs, MainClose
<1>6. CASE PoolAnswer
  <2>1. toSrv' \in Seq(Requests) /\ toCli' \in Seq(Messages)
    BY <1>6, ChannelTypes DEF PoolAnswer
  <2>2. /\ srvAuth' \in BOOLEAN
        /\ srvShares' \in Nat
    <3>1. srvAuth \in BOOLEAN /\ srvShares \in Nat
      BY DEF TypeOK
    <3>2. /\ srvAuth' \in {srvAuth, TRUE}
          /\ srvShares' \in {srvShares, srvShares + 1}
      BY <1>6 DEF PoolAnswer
    <3>3. srvAuth' \in BOOLEAN
      BY <3>1, <3>2, Zenon
    <3> QED  BY <3>1, <3>2, <3>3
  <2>3. UNCHANGED <<readerVars, conn, up, pushes, jobSeen, credVars, authVars,
                    statVars, stopVars>>
    BY <1>6 DEF PoolAnswer
  <2> QED  BY <2>1, <2>2, <2>3 DEF TypeOK, LinesLeft, ReaderPcs
<1>7. CASE PoolPush  BY <1>7, ChannelTypes DEF TypeOK, LinesLeft, ReaderPcs, PoolPush
<1>8. CASE NetworkFails
  <2>1. up' \in BOOLEAN
    BY <1>8 DEF NetworkFails
  <2>2. UNCHANGED <<readerVars, conn, toSrv, toCli, poolVars, jobSeen, credVars,
                    authVars, statVars, stopVars>>
    BY <1>8 DEF NetworkFails
  <2> QED  BY <2>1, <2>2 DEF TypeOK, LinesLeft
<1>9. CASE Cancel  BY <1>9 DEF TypeOK, LinesLeft, ReaderPcs, Cancel
<1>10. CASE UNCHANGED vars  BY <1>10 DEF TypeOK, LinesLeft, vars
<1> QED
  BY <1>1, <1>2, <1>3, <1>4, <1>5, <1>6, <1>7, <1>8, <1>9, <1>10
     DEF Next, Terminated

-----------------------------------------------------------------------------
(* The swap of credentials. *)

\* Only the assignment of a new connection changes conn, and only authorize
\* reads the credentials or publishes the connection.
LEMMA NextPublished == TypeOK /\ Published /\ [Next]_vars => Published'
<1> SUFFICES ASSUME TypeOK, Published, [Next]_vars PROVE Published'
  OBVIOUS
<1> USE DEF Published, readerVars, connVars, poolVars, credVars, authVars,
            statVars, stopVars
<1>1. CASE Reader
  BY <1>1 DEF Reader, Dial, DialFails, AssignConn, HandshakeBroken, FailWith,
     SendSubscribe, ReadSubscribe, ReadCreds, SendAuthorize, ReadAuthorize,
     BackoffEnds, RunLoopTop, ReadMessage, ConnectionLost
<1>2. CASE UNCHANGED <<pc, pubConn, conn>>
  BY <1>2
<1>3. [Next]_vars => Reader \/ UNCHANGED <<pc, pubConn, conn>>
  BY DEF Next, SubmitShare, SwapCreds, CloseConn, MainClose, PoolAnswer, PoolPush,
     NetworkFails, Cancel, Terminated, vars
<1> QED  BY <1>1, <1>2, <1>3

\* A caller that is about to close the current connection is bound to hit it.
LEMMA NextCredentials ==
  TypeOK /\ Published /\ CredentialsCurrent /\ [Next]_vars => CredentialsCurrent'
<1> SUFFICES ASSUME TypeOK, Published, CredentialsCurrent, [Next]_vars,
                    pc' \in {"authSend", "authWait", "top", "run"}, up',
                    authCreds' # creds'
             PROVE  \E c \in Callers : rpc'[c] = "close" /\ floor'[c] = conn'
  BY DEF CredentialsCurrent
<1> USE DEF readerVars, connVars, poolVars, credVars, authVars, statVars, stopVars
\* The reader's steps that can lead here come from a place where the invariant
\* already speaks, and touch nothing that it names.
<1>1. CASE Reader
  <2>1. ~AssignConn /\ ~ReadCreds
    BY DEF AssignConn, ReadCreds
  <2>2. /\ pc \in {"authSend", "authWait", "top", "run"}
        /\ up /\ UNCHANGED <<conn, creds, authCreds, rpc, floor>>
    BY <1>1, <2>1 DEF Reader, Dial, DialFails, HandshakeBroken, FailWith,
       SendSubscribe, ReadSubscribe, SendAuthorize, ReadAuthorize,
       BackoffEnds, RunLoopTop, ReadMessage, ConnectionLost
  <2> QED  BY <2>2 DEF CredentialsCurrent
<1>2. CASE \E c \in Callers : SwapCreds(c)
  <2>1. PICK c \in Callers : SwapCreds(c)
    BY <1>2
  <2>2. pc' = pc /\ pubConn' = pubConn /\ conn' = conn
    BY <2>1 DEF SwapCreds
  <2>3. pubConn = conn
    BY <2>2 DEF Published
  <2>4. rpc'[c] = "close" /\ floor'[c] = conn'
    BY <2>1, <2>2, <2>3 DEF SwapCreds, TypeOK
  <2> QED  BY <2>4
\* The Close of a swap that is bound to hit this connection takes it down.
<1>3. CASE \E c \in Callers : CloseConn(c)
  <2>1. PICK c \in Callers : CloseConn(c)
    BY <1>3
  <2>2. PICK k \in floor[c] .. conn : up' = (up /\ k # conn)
    BY <2>1 DEF CloseConn
  <2>3. up /\ k # conn
    BY <2>2
  <2>4. /\ UNCHANGED <<pc, conn, creds, authCreds, floor>>
        /\ rpc' = [rpc EXCEPT ![c] = "idle"]
    BY <2>1 DEF CloseConn
  <2>5. PICK d \in Callers : rpc[d] = "close" /\ floor[d] = conn
    BY <2>3, <2>4 DEF CredentialsCurrent
  <2>6. floor[c] # conn
    <3>1. floor[c] \in Nat /\ conn \in Nat
      BY DEF TypeOK
    <3> QED  BY <3>1, <2>2, <2>3
  <2>7. d # c
    BY <2>5, <2>6
  <2>8. rpc'[d] = "close" /\ floor'[d] = conn'
    BY <2>4, <2>5, <2>7 DEF TypeOK
  <2> QED  BY <2>8
<1>4. CASE /\ up /\ UNCHANGED <<pc, conn, creds, authCreds, rpc, floor>>
  BY <1>4 DEF CredentialsCurrent
<1>5. \/ Reader
      \/ \E c \in Callers : SwapCreds(c)
      \/ \E c \in Callers : CloseConn(c)
      \/ up /\ UNCHANGED <<pc, conn, creds, authCreds, rpc, floor>>
  BY DEF Next, SubmitShare, MainClose, PoolAnswer, PoolPush, NetworkFails,
     Cancel, Terminated, vars
<1> QED  BY <1>1, <1>2, <1>3, <1>4, <1>5

-----------------------------------------------------------------------------
(* The pool's answers. *)

\* Receiving takes the head of a channel, and sending adds one message to its end.
LEMMA HeadIsAuthorized ==
  ASSUME TypeOK, TrueIsAuthorized, toCli # <<>>
  PROVE  /\ Head(toCli) = "true" => srvAuth
         /\ \A i \in 1 .. Len(Tail(toCli)) : Tail(toCli)[i] = "true" => srvAuth
<1>1. toCli \in Seq(Messages)
  BY DEF TypeOK
<1>2. Len(toCli) \in Nat \ {0}
  BY <1>1, EmptySeq
<1>3. Head(toCli) = toCli[1] /\ Len(Tail(toCli)) = Len(toCli) - 1
      /\ \A i \in 1 .. Len(Tail(toCli)) : Tail(toCli)[i] = toCli[i + 1]
  BY <1>1, <1>2, HeadTailProperties
<1> QED  BY <1>2, <1>3 DEF TrueIsAuthorized

\* When a message is added, the answers "true" before it stay the pool's consent.
LEMMA AppendAuthorized ==
  ASSUME TypeOK, TrueIsAuthorized, NEW m \in Messages
  PROVE  \A i \in 1 .. Len(Append(toCli, m)) :
           Append(toCli, m)[i] = "true" => srvAuth \/ m = "true"
<1>1. toCli \in Seq(Messages)
  BY DEF TypeOK
<1>2. /\ Len(Append(toCli, m)) = Len(toCli) + 1
      /\ \A i \in 1 .. Len(toCli) : Append(toCli, m)[i] = toCli[i]
      /\ Append(toCli, m)[Len(toCli) + 1] = m
      /\ Len(toCli) \in Nat
  BY <1>1, AppendProperties, LenProperties
<1> QED  BY <1>2 DEF TrueIsAuthorized

\* Every step keeps a session on an authorized connection.
LEMMA NextAuthorized ==
  TypeOK /\ TrueIsAuthorized /\ AuthorizedByPool /\ [Next]_vars
    => TrueIsAuthorized' /\ AuthorizedByPool'
<1> SUFFICES ASSUME TypeOK, TrueIsAuthorized, AuthorizedByPool, [Next]_vars
             PROVE  TrueIsAuthorized' /\ AuthorizedByPool'
  OBVIOUS
<1> USE DEF readerVars, connVars, poolVars, credVars, authVars, statVars, stopVars
<1>1. CASE AssignConn
  BY <1>1, EmptySeq DEF AssignConn, TrueIsAuthorized, AuthorizedByPool
<1>2. CASE ReadSubscribe \/ ReadAuthorize \/ ReadMessage
  <2>1. toCli # <<>> /\ toCli' = Tail(toCli) /\ srvAuth' = srvAuth
    BY <1>2 DEF ReadSubscribe, ReadAuthorize, ReadMessage
  <2>2. TrueIsAuthorized'
    BY <2>1, HeadIsAuthorized DEF TrueIsAuthorized
  <2>3. pc' \in {"top", "run"} => pc \in {"top", "run"} \/ Head(toCli) = "true"
    BY <1>2 DEF ReadSubscribe, ReadAuthorize, ReadMessage, FailWith
  <2> QED  BY <2>1, <2>2, <2>3, HeadIsAuthorized DEF AuthorizedByPool
<1>3. CASE PoolAnswer
  <2>1. /\ srvAuth => srvAuth'
        /\ pc' = pc
        /\ \E m \in Messages : toCli' = Append(toCli, m) /\ (m = "true" => srvAuth')
    BY <1>3 DEF PoolAnswer, Messages, Replies
  <2>2. TrueIsAuthorized'
    BY <2>1, AppendAuthorized DEF TrueIsAuthorized
  <2> QED  BY <2>1, <2>2 DEF AuthorizedByPool
<1>4. CASE PoolPush
  <2>1. "push" \in Messages /\ "push" # "true"
    BY DEF Messages
  <2>2. toCli' = Append(toCli, "push") /\ srvAuth' = srvAuth /\ pc' = pc
    BY <1>4 DEF PoolPush
  <2> QED  BY <2>1, <2>2, AppendAuthorized DEF TrueIsAuthorized, AuthorizedByPool
<1>5. CASE /\ pc' \in {"top", "run"} => pc \in {"top", "run"}
           /\ UNCHANGED <<toCli, srvAuth>>
  BY <1>5 DEF TrueIsAuthorized, AuthorizedByPool
<1>6. \/ AssignConn \/ ReadSubscribe \/ ReadAuthorize \/ ReadMessage
      \/ PoolAnswer \/ PoolPush
      \/ /\ pc' \in {"top", "run"} => pc \in {"top", "run"}
         /\ UNCHANGED <<toCli, srvAuth>>
  BY DEF Next, Reader, Dial, DialFails, HandshakeBroken, FailWith, SendSubscribe,
     ReadCreds, SendAuthorize, BackoffEnds, RunLoopTop, ConnectionLost,
     SubmitShare, SwapCreds, CloseConn, MainClose, NetworkFails, Cancel,
     Terminated, vars
<1> QED  BY <1>1, <1>2, <1>3, <1>4, <1>5, <1>6

-----------------------------------------------------------------------------
(* The shares that are counted. *)

\* The pool's channel when a request is added to it or taken from it.
LEMMA RequestsChange ==
  ASSUME TypeOK
  PROVE  /\ \A m \in Requests :
              /\ Len(Append(toSrv, m)) = Len(toSrv) + 1
              /\ \A i \in 1 .. Len(toSrv) : Append(toSrv, m)[i] = toSrv[i]
              /\ Append(toSrv, m)[Len(toSrv) + 1] = m
         /\ toSrv # <<>> =>
              /\ Len(Tail(toSrv)) = Len(toSrv) - 1
              /\ Head(toSrv) = toSrv[1]
              /\ \A i \in 1 .. Len(Tail(toSrv)) : Tail(toSrv)[i] = toSrv[i + 1]
         /\ Len(toSrv) \in Nat
<1>1. toSrv \in Seq(Requests)
  BY DEF TypeOK
<1> QED
  BY <1>1, AppendProperties, HeadTailProperties, LenProperties

\* No second authorize gets on its way.
LEMMA NextAuthorizeOnce ==
  TypeOK /\ AuthorizeOnce /\ [Next]_vars => AuthorizeOnce'
<1> SUFFICES ASSUME TypeOK, AuthorizeOnce, [Next]_vars PROVE AuthorizeOnce'
  OBVIOUS
<1> USE DEF readerVars, connVars, poolVars, credVars, authVars, statVars, stopVars
<1>1. {"subscribe", "authorize", "share"} \subseteq Requests
  BY DEF Requests
<1>2. CASE AssignConn
  BY <1>2, EmptySeq DEF AssignConn, AuthorizeOnce
<1>3. CASE SendSubscribe
  BY <1>1, <1>3, RequestsChange DEF SendSubscribe, AuthorizeOnce
<1>4. CASE SendAuthorize
  BY <1>1, <1>4, RequestsChange DEF SendAuthorize, AuthorizeOnce
<1>5. CASE SubmitShare
  <2>1. toSrv' = Append(toSrv, "share") \/ toSrv' = toSrv
    BY <1>5 DEF SubmitShare
  <2>2. pc' = pc /\ srvAuth' = srvAuth
    BY <1>5 DEF SubmitShare
  <2> QED
    BY <1>1, <2>1, <2>2, RequestsChange DEF AuthorizeOnce
<1>6. CASE PoolAnswer
  <2>1. toSrv # <<>> /\ toSrv' = Tail(toSrv) /\ pc' = pc
    BY <1>6 DEF PoolAnswer
  <2>2. srvAuth' = srvAuth \/ Head(toSrv) = "authorize"
    BY <1>6 DEF PoolAnswer
  <2>3. Head(toSrv) = toSrv[1] /\ 1 \in 1 .. Len(toSrv)
        /\ \A i \in 1 .. Len(toSrv') : i + 1 \in 1 .. Len(toSrv) /\ toSrv'[i] = toSrv[i + 1]
    <3>1. Len(toSrv) # 0
      BY <2>1, EmptySeq DEF TypeOK
    <3> QED
      BY <2>1, <3>1, RequestsChange
  <2>4. CASE srvAuth' = srvAuth
    BY <2>1, <2>3, <2>4 DEF AuthorizeOnce
  <2>5. CASE Head(toSrv) = "authorize"
    <3>1. pc \in {"authWait", "top", "run"} =>
            \A i \in 1 .. Len(toSrv') : toSrv'[i] # "authorize"
      <4> SUFFICES ASSUME pc \in {"authWait", "top", "run"},
                          NEW i \in 1 .. Len(toSrv'), toSrv'[i] = "authorize"
                   PROVE  FALSE
        OBVIOUS
      <4>1. i + 1 = 1
        BY <2>3, <2>5 DEF AuthorizeOnce
      <4> QED
        BY <4>1
    <3>2. pc \notin {"subscribe", "subWait", "authorize", "authSend"}
      BY <2>3, <2>5 DEF AuthorizeOnce
    <3> QED
      BY <2>1, <3>1, <3>2 DEF AuthorizeOnce
  <2> QED
    BY <2>2, <2>4, <2>5
<1>7. CASE /\ pc' \in {"subscribe", "subWait", "authorize", "authSend"} =>
                pc \in {"subscribe", "subWait", "authorize", "authSend"}
           /\ pc' \in {"authWait", "top", "run"} => pc \in {"authWait", "top", "run"}
           /\ UNCHANGED <<toSrv, srvAuth>>
  BY <1>7 DEF AuthorizeOnce
<1>8. \/ AssignConn \/ SendSubscribe \/ SendAuthorize \/ SubmitShare \/ PoolAnswer
      \/ /\ pc' \in {"subscribe", "subWait", "authorize", "authSend"} =>
              pc \in {"subscribe", "subWait", "authorize", "authSend"}
         /\ pc' \in {"authWait", "top", "run"} => pc \in {"authWait", "top", "run"}
         /\ UNCHANGED <<toSrv, srvAuth>>
  BY DEF Next, Reader, Dial, DialFails, HandshakeBroken, FailWith, ReadSubscribe,
     ReadCreds, ReadAuthorize, BackoffEnds, RunLoopTop, ReadMessage, ConnectionLost,
     SwapCreds, CloseConn, MainClose, PoolPush, NetworkFails, Cancel, Terminated, vars
<1> QED
  BY <1>2, <1>3, <1>4, <1>5, <1>6, <1>7, <1>8

\* The number of answers "true" is a number, none before the pool's consent.
LEMMA TruesFinite ==
  ASSUME NEW s \in Seq(Messages)
  PROVE  /\ IsFiniteSet(Trues(s)) /\ Cardinality(Trues(s)) \in Nat
         /\ (\A i \in 1 .. Len(s) : s[i] # "true") => Cardinality(Trues(s)) = 0
<1>1. IsFiniteSet(1 .. Len(s))
  BY FS_Interval, LenProperties
<1>2. Trues(s) \in SUBSET (1 .. Len(s))
  BY DEF Trues
<1>3. IsFiniteSet(Trues(s))
  BY <1>1, <1>2, FS_Subset
<1>4. (\A i \in 1 .. Len(s) : s[i] # "true") => Trues(s) = {}
  BY DEF Trues
<1> QED
  BY <1>3, <1>4, FS_CardinalityType, FS_EmptySet

\* A message sent counts once if it is "true".
LEMMA TruesAppend ==
  ASSUME NEW s \in Seq(Messages), NEW m \in Messages
  PROVE  Cardinality(Trues(Append(s, m)))
           = Cardinality(Trues(s)) + (IF m = "true" THEN 1 ELSE 0)
<1>1. /\ Len(Append(s, m)) = Len(s) + 1 /\ Len(s) \in Nat
      /\ \A i \in 1 .. Len(s) : Append(s, m)[i] = s[i]
      /\ Append(s, m)[Len(s) + 1] = m
  BY AppendProperties, LenProperties
<1>2. IsFiniteSet(Trues(s)) /\ Cardinality(Trues(s)) \in Nat
  BY TruesFinite
<1>3. CASE m = "true"
  <2>1. Trues(Append(s, m)) = Trues(s) \cup {Len(s) + 1} /\ Len(s) + 1 \notin Trues(s)
    BY <1>1, <1>3 DEF Trues
  <2> QED
    BY <1>2, <1>3, <2>1, FS_AddElement
<1>4. CASE m # "true"
  <2>1. Trues(Append(s, m)) = Trues(s)
    BY <1>1, <1>4 DEF Trues
  <2> QED
    BY <1>2, <1>4, <2>1
<1> QED
  BY <1>3, <1>4

\* A message read no longer counts.
LEMMA TruesTail ==
  ASSUME NEW s \in Seq(Messages), s # <<>>
  PROVE  Cardinality(Trues(s))
           = Cardinality(Trues(Tail(s))) + (IF Head(s) = "true" THEN 1 ELSE 0)
<1>1. /\ Len(s) \in Nat \ {0} /\ Head(s) = s[1] /\ Len(Tail(s)) = Len(s) - 1
      /\ \A i \in 1 .. Len(Tail(s)) : Tail(s)[i] = s[i + 1]
      /\ Tail(s) \in Seq(Messages)
  BY EmptySeq, LenProperties, HeadTailProperties
<1> DEFINE later == Trues(s) \ {1}
           shift == [i \in Trues(Tail(s)) |-> i + 1]
<1>2. shift \in Bijection(Trues(Tail(s)), later)
  <2>1. \A i \in Trues(Tail(s)) : i \in Nat /\ i + 1 \in later
    BY <1>1 DEF Trues
  <2>2. shift \in [Trues(Tail(s)) -> later]
    BY <2>1
  <2>3. \A i, j \in Trues(Tail(s)) : shift[i] = shift[j] => i = j
    BY <2>1
  <2>4. \A k \in later : k - 1 \in Trues(Tail(s)) /\ shift[k - 1] = k
    BY <1>1 DEF Trues
  <2> HIDE DEF later, shift
  <2>5. \A k \in later : \E i \in Trues(Tail(s)) : shift[i] = k
    BY <2>4
  <2> QED
    BY <2>2, <2>3, <2>5, Fun_IsBij
<1>3. IsFiniteSet(Trues(s)) /\ Cardinality(Trues(s)) \in Nat /\ IsFiniteSet(Trues(Tail(s)))
  BY <1>1, TruesFinite
<1>4. Cardinality(later) = Cardinality(Trues(Tail(s)))
  <2>1. ExistsBijection(Trues(Tail(s)), later)
    BY <1>2 DEF ExistsBijection
  <2> QED
    BY <1>3, <2>1, FS_Bijection
<1>5. Cardinality(later) = IF 1 \in Trues(s) THEN Cardinality(Trues(s)) - 1
                                             ELSE Cardinality(Trues(s))
  BY <1>3, FS_RemoveElement
<1>6. 1 \in Trues(s) <=> Head(s) = "true"
  BY <1>1 DEF Trues
<1> QED
  BY <1>3, <1>4, <1>5, <1>6

\* No step counts a share that the pool has not accepted, or counts one twice.
LEMMA NextAccepted ==
  ASSUME TypeOK, TrueIsAuthorized, AuthorizedByPool, AuthorizeOnce,
         TruesCounted, AcceptedByPool, [Next]_vars
  PROVE  TruesCounted' /\ AcceptedByPool'
<1> USE DEF readerVars, connVars, poolVars, credVars, authVars, statVars, stopVars
<1> DEFINE n == Cardinality(Trues(toCli))
<1>1. toCli \in Seq(Messages) /\ n \in Nat /\ accepted \in Nat /\ srvShares \in Nat
  <2>1. toCli \in Seq(Messages) /\ accepted \in Nat /\ srvShares \in Nat
    BY DEF TypeOK
  <2> QED
    BY <2>1, TruesFinite
<1>2. CASE ReadAuthorize \/ ReadMessage
  <2>1. toCli # <<>> /\ toCli' = Tail(toCli) /\ srvShares' = srvShares
    BY <1>2 DEF ReadAuthorize, ReadMessage
  <2>2. n = Cardinality(Trues(toCli')) + (IF Head(toCli) = "true" THEN 1 ELSE 0)
    BY <1>1, <2>1, TruesTail
  <2>3. Cardinality(Trues(toCli')) \in Nat
    BY <1>1, <2>1, TruesFinite, HeadTailProperties
  <2>4. CASE ReadAuthorize
    <3>1. /\ pc = "authWait" /\ accepted' = accepted
          /\ pc' \in {"top", "run"} => Head(toCli) = "true"
          /\ pc' = "authWait" => Head(toCli) # "true"
      BY <2>4 DEF ReadAuthorize, FailWith
    <3> QED
      BY <1>1, <2>1, <2>2, <2>3, <3>1 DEF TruesCounted, AcceptedByPool
  <2>5. CASE ReadMessage
    <3>1. /\ pc = "run" /\ pc' = "run"
          /\ accepted' = IF Head(toCli) = "true" THEN accepted + 1 ELSE accepted
      BY <2>5 DEF ReadMessage
    <3> QED
      BY <1>1, <2>1, <2>2, <2>3, <3>1 DEF TruesCounted, AcceptedByPool
  <2> QED
    BY <1>2, <2>4, <2>5
<1>3. CASE SendAuthorize
  <2>1. n = 0
    <3>1. ~srvAuth
      BY <1>3 DEF SendAuthorize, AuthorizeOnce
    <3> QED
      BY <1>1, <3>1, TruesFinite DEF TrueIsAuthorized
  <2>2. pc' = "authWait" /\ UNCHANGED <<toCli, accepted, srvShares>>
    BY <1>3 DEF SendAuthorize
  <2> QED
    BY <1>1, <2>1, <2>2 DEF TruesCounted, AcceptedByPool
<1>4. CASE PoolAnswer
  <2>1. toSrv # <<>> /\ UNCHANGED <<pc, accepted>>
    BY <1>4 DEF PoolAnswer
  <2>2. PICK m \in Messages : /\ toCli' = Append(toCli, m)
                              /\ m = "true" => \/ Head(toSrv) = "authorize" /\ srvShares' = srvShares
                                               \/ srvShares' = srvShares + 1
                              /\ srvShares' \in {srvShares, srvShares + 1}
    BY <1>4 DEF PoolAnswer, Messages, Replies
  <2>3. Cardinality(Trues(toCli')) = n + (IF m = "true" THEN 1 ELSE 0)
    BY <1>1, <2>2, TruesAppend
  \* The answer to authorize is the first "true" of the connection.
  <2>4. Head(toSrv) = "authorize" => pc \notin {"top", "run"} /\ (pc = "authWait" => n = 0)
    <3> SUFFICES ASSUME Head(toSrv) = "authorize", pc \in {"authWait", "top", "run"}
                 PROVE  pc = "authWait" /\ n = 0
      OBVIOUS
    <3>1. toSrv[1] = "authorize" /\ 1 \in 1 .. Len(toSrv)
      BY <2>1, RequestsChange, EmptySeq DEF TypeOK
    <3>2. ~srvAuth
      BY <3>1 DEF AuthorizeOnce
    <3>3. pc = "authWait"
      BY <3>2 DEF AuthorizedByPool
    <3> QED
      BY <1>1, <3>2, <3>3, TruesFinite DEF TrueIsAuthorized
  <2>5. AcceptedByPool'
    BY <1>1, <2>1, <2>2 DEF AcceptedByPool
  <2>6. TruesCounted'
    <3>1. pc = "authWait" => n <= srvShares + 1 - accepted
      BY <1>1 DEF TruesCounted
    <3>2. pc \in {"top", "run"} => n <= srvShares - accepted
      BY <1>1 DEF TruesCounted
    <3>3. pc = "authWait" => Cardinality(Trues(toCli')) <= srvShares' + 1 - accepted'
      BY <1>1, <2>1, <2>2, <2>3, <2>4, <3>1 DEF AcceptedByPool
    <3>4. pc \in {"top", "run"} => Cardinality(Trues(toCli')) <= srvShares' - accepted'
      BY <1>1, <2>1, <2>2, <2>3, <2>4, <3>2
    <3>5. Cardinality(Trues(toCli')) \in Nat /\ srvShares' \in Nat
      BY <1>1, <2>2, <2>3
    <3> QED
      BY <1>1, <2>1, <3>3, <3>4, <3>5 DEF TruesCounted
  <2> QED
    BY <2>5, <2>6
<1>5. CASE PoolPush
  <2>1. "push" \in Messages
    BY DEF Messages
  <2>2. toCli' = Append(toCli, "push") /\ UNCHANGED <<pc, accepted, srvShares>>
    BY <1>5 DEF PoolPush
  <2>3. Cardinality(Trues(toCli')) = n
    BY <1>1, <2>1, <2>2, TruesAppend
  <2> QED
    BY <1>1, <2>2, <2>3 DEF TruesCounted, AcceptedByPool
<1>6. CASE RunLoopTop
  BY <1>6 DEF RunLoopTop, TruesCounted, AcceptedByPool
<1>7. CASE /\ pc' \in {"authWait", "top", "run"} => pc' = pc /\ toCli' = toCli
           /\ UNCHANGED <<accepted, srvShares>>
  BY <1>7 DEF TruesCounted, AcceptedByPool
<1>8. \/ ReadAuthorize \/ ReadMessage \/ SendAuthorize \/ PoolAnswer \/ PoolPush \/ RunLoopTop
      \/ /\ pc' \in {"authWait", "top", "run"} => pc' = pc /\ toCli' = toCli
         /\ UNCHANGED <<accepted, srvShares>>
  BY DEF Next, Reader, Dial, DialFails, AssignConn, HandshakeBroken, FailWith,
     SendSubscribe, ReadSubscribe, ReadCreds, BackoffEnds, ConnectionLost, SubmitShare,
     SwapCreds, CloseConn, MainClose, NetworkFails, Cancel, Terminated, vars
<1> QED
  BY <1>2, <1>3, <1>4, <1>5, <1>6, <1>7, <1>8

-----------------------------------------------------------------------------
(* The theorems. *)

\* The strengthened invariant holds in every reachable state.
THEOREM Invariance == Spec => []IInv
<1>1. IInv /\ [Next]_vars => IInv'
  BY NextType, NextPublished, NextCredentials, NextAuthorized, NextAuthorizeOnce,
     NextAccepted DEF IInv
<1> QED  BY InitIInv, <1>1, PTL DEF Spec

\* Every variable keeps its type, for any number of callers and any bounds.
THEOREM TypeCorrect == Spec => []TypeOK
<1>1. IInv => TypeOK
  BY DEF IInv
<1> QED  BY Invariance, <1>1, PTL

\* Reauthorize leaves no session under credentials it has replaced, wherever its
\* two steps fall in a handshake and however many callers there are.
THEOREM NoStaleCredentials == Spec => []CredentialsCurrent
<1>1. IInv => CredentialsCurrent
  BY DEF IInv
<1> QED  BY Invariance, <1>1, PTL

\* A session runs only on a connection that the pool has authorized, although
\* the client matches no answer to its request.
THEOREM SessionsAreAuthorized == Spec => []AuthorizedByPool
<1>1. IInv => AuthorizedByPool
  BY DEF IInv
<1> QED  BY Invariance, <1>1, PTL

\* Run matches an answer to no request and takes every "true" for a share's: it
\* still counts no share as accepted that the pool has not accepted, on whatever
\* connection, since authorize takes exactly one "true" off each.
THEOREM AcceptedAreThePools == Spec => []AcceptedByPool
<1>1. IInv => AcceptedByPool
  BY DEF IInv
<1> QED  BY Invariance, <1>1, PTL
=============================================================================
