--------------------------- MODULE StratumSession ---------------------------
(***************************************************************************)
(* The pool session of the stratum client (client.go): one goroutine       *)
(* dials, subscribes, authorizes and then reads messages, reconnecting     *)
(* when the connection fails, while the workers submit shares on the same  *)
(* connection, Reauthorize swaps the credentials and closes it, and the    *)
(* main loop closes it when the context is cancelled.                      *)
(*                                                                         *)
(* Connections are numbered in the order they are dialled.  The reader     *)
(* only ever reads from the last one, so one pair of channels, for the     *)
(* last connection, is enough.  Credentials are numbered by the calls of   *)
(* Reauthorize that made them.  A message is its kind: what the client     *)
(* tells apart in it.                                                      *)
(***************************************************************************)
EXTENDS Naturals, Sequences, FiniteSets

CONSTANTS Callers,     \* goroutines that call Reauthorize
          AuthLines,   \* lines authorize reads before it gives up, 10
          MaxConns,    \* bound: connections dialled
          MaxReauths,  \* bound: calls of Reauthorize
          MaxShares,   \* bound: shares submitted
          MaxPushes    \* bound: notifications the pool sends

ASSUME AuthLinesAssumption == AuthLines \in Nat \ {0}
ASSUME BoundsAssumption ==
  /\ MaxConns \in Nat /\ MaxReauths \in Nat
  /\ MaxShares \in Nat /\ MaxPushes \in Nat

\* What the client sends, and what it can receive: a notification, the list
\* that answers subscribe, true, false, an error answer (result null and an
\* error array), or such an answer that says "job not found".
Requests == {"subscribe", "authorize", "share"}
Replies  == {"sub", "true", "false", "error", "stale"}
Messages == Replies \cup {"push"}

ReaderPcs == {"dial", "dialed", "subscribe", "subWait", "authorize",
              "authSend", "authWait", "top", "run", "backoff", "stopped"}

VARIABLES
  pc,         \* where the reading goroutine is
  lines,      \* lines authorize has read on this connection
  lastErr,    \* why the last handshake failed
  connected,  \* Connect has returned: Run and the workers are started
  conn,       \* c.conn: the number of the last connection, 0 for nil
  up,         \* that connection is open at both ends
  toSrv,      \* requests in flight on it
  toCli,      \* messages in flight on it, scanner's buffer included
  srvAuth,    \* the pool has authorized it
  srvShares,  \* shares the pool has accepted, on any connection
  pushes,     \* notifications the pool has sent
  jobSeen,    \* a mining.notify has been handled: the workers have a job
  creds,      \* workerName and password
  authCreds,  \* the credentials authorize read for this connection
  pubConn,    \* the last connection made visible by authorize's use of workerMu
  rpc,        \* rpc[c]: where Reauthorize's caller c is
  floor,      \* floor[c]: the oldest connection its read of c.conn can return
  submitted, accepted, rejected, stale,   \* Stats
  ctxDone,    \* the context is cancelled
  mainClosed  \* the main loop has called Close

readerVars == <<pc, lines, lastErr, connected>>
connVars   == <<conn, up, toSrv, toCli>>
poolVars   == <<srvAuth, srvShares, pushes>>
credVars   == <<creds, rpc, floor>>
authVars   == <<authCreds, pubConn>>
statVars   == <<submitted, accepted, rejected, stale>>
stopVars   == <<ctxDone, mainClosed>>
vars == <<readerVars, connVars, poolVars, jobSeen, credVars, authVars,
          statVars, stopVars>>

TypeOK ==
  /\ pc \in ReaderPcs
  /\ lines \in 0 .. AuthLines
  /\ lastErr \in {"none", "dial", "closed", "invalid", "rejected", "timeout"}
  /\ connected \in BOOLEAN
  /\ conn \in Nat /\ up \in BOOLEAN
  /\ toSrv \in Seq(Requests) /\ toCli \in Seq(Messages)
  /\ srvAuth \in BOOLEAN
  /\ srvShares \in Nat /\ pushes \in Nat
  /\ jobSeen \in BOOLEAN
  /\ creds \in Nat /\ authCreds \in Nat
  /\ pubConn \in Nat
  /\ rpc \in [Callers -> {"idle", "close"}] /\ floor \in [Callers -> Nat]
  /\ submitted \in Nat /\ accepted \in Nat /\ rejected \in Nat /\ stale \in Nat
  /\ ctxDone \in BOOLEAN /\ mainClosed \in BOOLEAN

Init ==
  /\ pc = "dial" /\ lines = 0 /\ lastErr = "none" /\ connected = FALSE
  /\ conn = 0 /\ up = FALSE /\ toSrv = <<>> /\ toCli = <<>>
  /\ srvAuth = FALSE /\ srvShares = 0 /\ pushes = 0
  /\ jobSeen = FALSE
  /\ creds = 0 /\ authCreds = 0 /\ pubConn = 0
  /\ rpc = [c \in Callers |-> "idle"] /\ floor = [c \in Callers |-> 0]
  /\ submitted = 0 /\ accepted = 0 /\ rejected = 0 /\ stale = 0
  /\ ctxDone = FALSE /\ mainClosed = FALSE

-----------------------------------------------------------------------------
(* connectWithRetry and dialAndAuth. *)

\* DialContext succeeds; c.conn is not assigned yet.
Dial ==
  /\ pc = "dial" /\ ~ctxDone /\ conn < MaxConns
  /\ pc' = "dialed"
  /\ UNCHANGED <<lines, lastErr, connected, connVars, poolVars, jobSeen,
                 credVars, authVars, statVars, stopVars>>

DialFails ==
  /\ pc = "dial"
  /\ pc' = "backoff" /\ lastErr' = "dial"
  /\ UNCHANGED <<lines, connected, connVars, poolVars, jobSeen, credVars,
                 authVars, statVars, stopVars>>

\* c.conn = conn, without a lock: from here on the workers' shares, Reauthorize
\* and Close use the new connection, on which nothing has been said yet.
AssignConn ==
  /\ pc = "dialed"
  /\ pc' = "subscribe" /\ lines' = 0
  /\ conn' = conn + 1 /\ up' = TRUE /\ toSrv' = <<>> /\ toCli' = <<>>
  /\ srvAuth' = FALSE
  /\ UNCHANGED <<lastErr, connected, srvShares, pushes, jobSeen, credVars,
                 authVars, statVars, stopVars>>

\* The handshake failed: dialAndAuth closes the connection it dialled.
FailWith(reason) ==
  /\ pc' = "backoff" /\ lastErr' = reason
  /\ up' = FALSE

\* A send or a read fails because the connection is down.
HandshakeBroken ==
  /\ pc \in {"subscribe", "subWait", "authSend", "authWait"}
  /\ ~up
  /\ FailWith("closed")
  /\ UNCHANGED <<lines, connected, conn, toSrv, toCli, poolVars, jobSeen,
                 credVars, authVars, statVars, stopVars>>

SendSubscribe ==
  /\ pc = "subscribe" /\ up
  /\ pc' = "subWait"
  /\ toSrv' = Append(toSrv, "subscribe")
  /\ UNCHANGED <<lines, lastErr, connected, conn, up, toCli, poolVars, jobSeen,
                 credVars, authVars, statVars, stopVars>>

\* subscribe takes the first line it reads for its answer.
ReadSubscribe ==
  /\ pc = "subWait" /\ toCli # <<>>
  /\ toCli' = Tail(toCli)
  /\ \/ /\ Head(toCli) = "sub"
        /\ pc' = "authorize"
        /\ UNCHANGED <<lastErr, up>>
     \/ /\ Head(toCli) # "sub"
        /\ FailWith("invalid")
  /\ UNCHANGED <<lines, connected, conn, toSrv, poolVars, jobSeen, credVars,
                 authVars, statVars, stopVars>>

\* authorize reads the credentials under workerMu, which also makes c.conn
\* visible to whoever takes workerMu later.
ReadCreds ==
  /\ pc = "authorize"
  /\ pc' = "authSend"
  /\ authCreds' = creds
  /\ pubConn' = conn
  /\ UNCHANGED <<lines, lastErr, connected, connVars, poolVars, jobSeen,
                 credVars, statVars, stopVars>>

SendAuthorize ==
  /\ pc = "authSend" /\ up
  /\ pc' = "authWait"
  /\ toSrv' = Append(toSrv, "authorize")
  /\ UNCHANGED <<lines, lastErr, connected, conn, up, toCli, poolVars, jobSeen,
                 credVars, authVars, statVars, stopVars>>

\* Mutant: the limit on authorize's lines is off by one.
ReadAuthorizeOneMore ==
  /\ pc = "authWait" /\ toCli # <<>>
  /\ toCli' = Tail(toCli)
  /\ lines' = lines + 1
  /\ IF lines = AuthLines
     THEN FailWith("timeout")
     ELSE UNCHANGED <<pc, lastErr, up>>
  /\ UNCHANGED <<connected, conn, toSrv, poolVars, jobSeen, credVars, authVars,
                 statVars, stopVars>>

\* Mutant: any answer, a refusal too, starts the session.
ReadAuthorizeAnyReply ==
  /\ pc = "authWait" /\ toCli # <<>>
  /\ toCli' = Tail(toCli)
  /\ lines' = lines + 1
  /\ pc' = IF Head(toCli) = "push" THEN pc ELSE "top"
  /\ connected' = (connected \/ Head(toCli) # "push")
  /\ jobSeen' = (jobSeen \/ Head(toCli) = "push")
  /\ UNCHANGED <<lastErr, up, conn, toSrv, poolVars, credVars, authVars,
                 statVars, stopVars>>

\* Mutant: a notification is taken for the answer, which then comes in the session.
ReadAuthorizeAnyLine ==
  /\ pc = "authWait" /\ toCli # <<>>
  /\ toCli' = Tail(toCli)
  /\ lines' = lines + 1
  /\ pc' = "top" /\ connected' = TRUE
  /\ jobSeen' = (jobSeen \/ Head(toCli) = "push")
  /\ UNCHANGED <<lastErr, up, conn, toSrv, poolVars, credVars, authVars,
                 statVars, stopVars>>

\* Mutant: after a refusal authorize reads on.
ReadAuthorizeOn ==
  /\ pc = "authWait" /\ toCli # <<>>
  /\ toCli' = Tail(toCli)
  /\ lines' = lines + 1
  /\ IF Head(toCli) = "true" THEN pc' = "top" /\ connected' = TRUE
     ELSE UNCHANGED <<pc, connected>>
  /\ jobSeen' = (jobSeen \/ Head(toCli) = "push")
  /\ UNCHANGED <<lastErr, up, conn, toSrv, poolVars, credVars, authVars,
                 statVars, stopVars>>

\* authorize handles notifications, up to AuthLines lines, and takes the first
\* line with a result for its answer, whichever request it answers.
ReadAuthorize ==
  /\ pc = "authWait" /\ toCli # <<>>
  /\ toCli' = Tail(toCli)
  /\ lines' = lines + 1
  /\ \/ /\ Head(toCli) = "push"
        /\ jobSeen' = TRUE
        /\ IF lines + 1 = AuthLines
           THEN FailWith("timeout")
           ELSE UNCHANGED <<pc, lastErr, up>>
        /\ UNCHANGED connected
     \/ /\ Head(toCli) = "true"
        /\ pc' = "top" /\ connected' = TRUE
        /\ UNCHANGED <<jobSeen, lastErr, up>>
     \/ /\ Head(toCli) \in Replies \ {"true"}
        /\ FailWith("rejected")
        /\ UNCHANGED <<jobSeen, connected>>
  /\ UNCHANGED <<conn, toSrv, poolVars, credVars, authVars, statVars, stopVars>>

\* The backoff, at least a second, ends by the context or by the timer.  Should
\* both be ready, the timer's branch only leads to a dial that the context
\* refuses, and back here.
BackoffEnds ==
  /\ pc = "backoff"
  /\ pc' = IF ctxDone THEN "stopped" ELSE "dial"
  /\ UNCHANGED <<lines, lastErr, connected, connVars, poolVars, jobSeen,
                 credVars, authVars, statVars, stopVars>>

-----------------------------------------------------------------------------
(* Run and handleMessage. *)

\* Mutant: Run does not look at the context after a reconnect.
RunLoopTopBlind ==
  /\ pc = "top"
  /\ pc' = "run"
  /\ UNCHANGED <<lines, lastErr, connected, connVars, poolVars, jobSeen,
                 credVars, authVars, statVars, stopVars>>

\* The top of Run's loop, after Connect and after every reconnect.  The
\* connection is not closed when Run returns from here.
RunLoopTop ==
  /\ pc = "top"
  /\ pc' = IF ctxDone THEN "stopped" ELSE "run"
  /\ UNCHANGED <<lines, lastErr, connected, connVars, poolVars, jobSeen,
                 credVars, authVars, statVars, stopVars>>

\* Notifications are handled; any other line is counted as a share's answer,
\* and an error answer is counted as rejected twice: for its null result and
\* for its error array.
ReadMessage ==
  /\ pc = "run" /\ toCli # <<>>
  /\ toCli' = Tail(toCli)
  /\ LET m == Head(toCli) IN
     /\ jobSeen' = (jobSeen \/ m = "push")
     /\ accepted' = IF m = "true" THEN accepted + 1 ELSE accepted
     /\ rejected' = CASE m = "false"              -> rejected + 1
                      [] m \in {"error", "stale"} -> rejected + 2
                      [] OTHER                    -> rejected
     /\ stale' = IF m = "stale" THEN stale + 1 ELSE stale
  /\ UNCHANGED <<readerVars, conn, up, toSrv, poolVars, credVars, authVars,
                 submitted, stopVars>>

\* The scanner ends.  It may still have lines of a broken connection to give,
\* and those that were not read from the socket yet are lost.
ConnectionLost ==
  /\ pc = "run" /\ ~up
  /\ pc' = IF ctxDone THEN "stopped" ELSE "dial"
  /\ UNCHANGED <<lines, lastErr, connected, connVars, poolVars, jobSeen,
                 credVars, authVars, statVars, stopVars>>

Reader ==
  \/ Dial \/ DialFails \/ AssignConn \/ HandshakeBroken
  \/ SendSubscribe \/ ReadSubscribe \/ ReadCreds \/ SendAuthorize
  \/ ReadAuthorize \/ BackoffEnds \/ RunLoopTop \/ ReadMessage
  \/ ConnectionLost

-----------------------------------------------------------------------------
(* The other goroutines of the client. *)

\* A worker submits a share on whatever c.conn is.  The write may fail, and its
\* error is ignored; the share is counted either way.
SubmitShare ==
  /\ connected /\ jobSeen /\ submitted < MaxShares
  /\ submitted' = submitted + 1
  /\ \/ up /\ toSrv' = Append(toSrv, "share")
     \/ UNCHANGED toSrv
  /\ UNCHANGED <<readerVars, conn, up, toCli, poolVars, jobSeen, credVars,
                 authVars, accepted, rejected, stale, stopVars>>

\* Mutant: Reauthorize leaves the connection open.
SwapCredsOnly(c) ==
  /\ rpc[c] = "idle" /\ creds < MaxReauths
  /\ creds' = creds + 1
  /\ UNCHANGED <<rpc, floor, readerVars, connVars, poolVars, jobSeen, authVars,
                 statVars, stopVars>>

\* Reauthorize swaps the credentials under workerMu.
SwapCreds(c) ==
  /\ rpc[c] = "idle" /\ creds < MaxReauths
  /\ creds' = creds + 1
  /\ rpc' = [rpc EXCEPT ![c] = "close"]
  /\ floor' = [floor EXCEPT ![c] = pubConn]
  /\ UNCHANGED <<readerVars, connVars, poolVars, jobSeen, authVars, statVars,
                 stopVars>>

\* ... and then closes the connection.  Its read of c.conn is a data race with
\* AssignConn: it returns the last connection, or an older one unless workerMu
\* orders the assignment of a newer one before the swap.
CloseConn(c) ==
  /\ rpc[c] = "close"
  /\ \E k \in floor[c] .. conn : up' = (up /\ k # conn)
  /\ rpc' = [rpc EXCEPT ![c] = "idle"]
  /\ UNCHANGED <<readerVars, conn, toSrv, toCli, poolVars, jobSeen, creds,
                 floor, authVars, statVars, stopVars>>

\* The main loop sees the cancelled context, closes the connection and returns.
\* Its read of c.conn is taken to return the last connection; an older value
\* would make it miss.
MainClose ==
  /\ ctxDone /\ connected /\ ~mainClosed
  /\ mainClosed' = TRUE
  /\ up' = FALSE
  /\ UNCHANGED <<readerVars, conn, toSrv, toCli, poolVars, jobSeen, credVars,
                 authVars, statVars, ctxDone>>

-----------------------------------------------------------------------------
(* The pool, the network and the user. *)

\* The pool answers requests in order.  It refuses shares of a connection that
\* it has not authorized.
PoolAnswer ==
  /\ up /\ toSrv # <<>>
  /\ toSrv' = Tail(toSrv)
  /\ \/ /\ Head(toSrv) = "subscribe"
        /\ toCli' = Append(toCli, "sub")
        /\ UNCHANGED <<srvAuth, srvShares>>
     \/ /\ Head(toSrv) = "authorize"
        /\ \/ /\ srvAuth' = TRUE
              /\ toCli' = Append(toCli, "true")
           \/ /\ toCli' = Append(toCli, "false")
              /\ UNCHANGED srvAuth
        /\ UNCHANGED srvShares
     \/ /\ Head(toSrv) = "share" /\ srvAuth
        /\ \/ /\ toCli' = Append(toCli, "true")
              /\ srvShares' = srvShares + 1
           \/ /\ \E r \in {"error", "stale"} : toCli' = Append(toCli, r)
              /\ UNCHANGED srvShares
        /\ UNCHANGED srvAuth
     \/ /\ Head(toSrv) = "share" /\ ~srvAuth
        /\ toCli' = Append(toCli, "error")
        /\ UNCHANGED <<srvAuth, srvShares>>
  /\ UNCHANGED <<readerVars, conn, up, pushes, jobSeen, credVars, authVars,
                 statVars, stopVars>>

\* mining.notify or mining.set_difficulty, at any time.
PoolPush ==
  /\ up /\ pushes < MaxPushes
  /\ pushes' = pushes + 1
  /\ toCli' = Append(toCli, "push")
  /\ UNCHANGED <<readerVars, conn, up, toSrv, srvAuth, srvShares,
                 jobSeen, credVars, authVars, statVars, stopVars>>

NetworkFails ==
  /\ up
  /\ up' = FALSE
  /\ UNCHANGED <<readerVars, conn, toSrv, toCli, poolVars, jobSeen, credVars,
                 authVars, statVars, stopVars>>

Cancel ==
  /\ ~ctxDone
  /\ ctxDone' = TRUE
  /\ UNCHANGED <<readerVars, connVars, poolVars, jobSeen, credVars, authVars,
                 statVars, mainClosed>>

\* The reading goroutine has returned and nobody has a Close to do.
Terminated ==
  /\ pc = "stopped"
  /\ \A c \in Callers : rpc[c] = "idle"
  /\ UNCHANGED vars

Next ==
  \/ Reader
  \/ SubmitShare
  \/ \E c \in Callers : SwapCreds(c) \/ CloseConn(c)
  \/ MainClose
  \/ PoolAnswer \/ PoolPush \/ NetworkFails \/ Cancel
  \/ Terminated

\* A goroutine that can take a step takes one.  Nobody has to submit, swap,
\* cancel or fail.
ClientFairness ==
  /\ WF_vars(Reader)
  /\ \A c \in Callers : WF_vars(CloseConn(c))
  /\ WF_vars(MainClose)

\* The pool answers a connection that is up, or owes nothing at all.
Spec == Init /\ [][Next]_vars /\ ClientFairness /\ WF_vars(PoolAnswer)

-----------------------------------------------------------------------------
(* Safety. *)

\* "avoids race conditions with the background message handler and ensures a
\* fresh session" (Reauthorize): however the swap falls between the steps of a
\* handshake, a connection that is up and was authorized with credentials that
\* have been swapped since is one that a pending Close is bound to hit.
CredentialsCurrent ==
  pc \in {"authSend", "authWait", "top", "run"} /\ up /\ authCreds # creds
    => \E c \in Callers : rpc[c] = "close" /\ floor[c] = conn

\* The client runs a session only when the pool authorized that connection,
\* although it matches no answer to a request.
AuthorizedByPool == pc \in {"top", "run"} => srvAuth

\* Every share counted as accepted is one the pool accepted: no handshake answer
\* is counted as a share's, and no share's answer twice.
AcceptedByPool == accepted <= srvShares

-----------------------------------------------------------------------------
(* Liveness. *)

\* A handshake ends, in a session or in a retry, when the pool answers: no mix
\* of notifications and shares' answers leaves the client waiting for ever.
HandshakeEnds ==
  (pc \in {"subscribe", "subWait", "authorize", "authSend", "authWait"})
    ~> (pc \in {"top", "backoff"})

\* "Blocks until ctx is cancelled or the connection is closed." (Run): once the
\* miner runs and the context is cancelled, the reading goroutine returns.  A
\* pool that answers is needed for that: Close may find the connection before
\* the one on which Run then waits for an answer to its handshake.
RunEndsWithContext == (ctxDone /\ connected) ~> (pc = "stopped")
=============================================================================
