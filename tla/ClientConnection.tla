-------------------------- MODULE ClientConnection -------------------------
(***************************************************************************)
(* BoostAsioConnections/ClientConnection.h on top of BasicConnection: the  *)
(* socket is connected by the connection's own thread, and a lost or       *)
(* refused connection is attempted again after a blocking delay, which a   *)
(* handler sits through on m_thread.                                       *)
(***************************************************************************)
EXTENDS BasicConnection

CONSTANTS
    IsConnAccepted   \* the platform's "already connected" error has value 10056

ASSUME ClientAssumption == Role = "client"
ASSUME ConnectAssumption == IsConnAccepted \in BOOLEAN

-----------------------------------------------------------------------------

\* async_connect on m_sock: opens it if need be.  Only one connect can be
\* outstanding on a socket; another fails at once.
AsyncConnect == sock' = IF sock \in {"closed", "open"} THEN "connecting" ELSE sock
ConnectPosts ==
    IF sock \in {"closed", "open"}
    THEN <<>>
    ELSE <<Call("connect", IF sock = "connecting" THEN "err" ELSE "isconn")>>

Init ==
    /\ owner = "new" /\ io = "none"
    /\ ready = <<>> /\ stopped = FALSE
    /\ sock = "closed" /\ reads = 0
    /\ up = FALSE /\ told = "nothing"
    /\ idle = "null" /\ idleOn = FALSE
    /\ writer = "none"
    /\ calls = 0 /\ failures = 0

\* Mutant: the override does not call the base class.
NewConnectionPosts_NoBase == ConnectPosts

\* ProcessNewConnection queues OnNewConnection before the first connect.
NewConnectionPosts == <<Call("new_connection", "ok")>> \o ConnectPosts

Start ==
    /\ owner = "new"
    /\ owner' = "started"
    /\ io' = "starting"
    /\ ready' = ready \o NewConnectionPosts
    /\ AsyncConnect
    /\ UNCHANGED <<stopped, reads, failures, connVars, idleVars, writer, calls>>

-----------------------------------------------------------------------------
(* connect_handler *)

\* The connection is up: OnConnect, and an ASYNC connection starts to read.
Connected ==
    /\ \E arg \in {"ok", "isconn"} :
         /\ arg = "isconn" => IsConnAccepted
         /\ Handle("connect", arg, IF Async THEN ReadPosts ELSE <<>>)
    /\ up' = TRUE /\ told' = "connected"
    /\ IF Async THEN BeginRead ELSE UNCHANGED reads
    /\ UNCHANGED <<io, stopped, sock, failures, idleVars, ownerVars>>

\* Mutant: the base class's one attempt, without the retry.
ConnectFailed_NoRetry ==
    /\ \E arg \in {"err", "isconn"} :
         /\ arg = "isconn" => ~IsConnAccepted
         /\ Handle("connect", arg, <<>>)
    /\ told' = "disconnected"
    /\ UNCHANGED <<io, stopped, netVars, up, idleVars, ownerVars>>

\* OnConnectFailed, then the delay.
ConnectFailed ==
    /\ \E arg \in {"err", "isconn"} :
         /\ arg = "isconn" => ~IsConnAccepted
         /\ Handle("connect", arg, <<>>)
    /\ told' = "disconnected"
    /\ io' = IF Reconnect THEN "delay" ELSE io
    /\ UNCHANGED <<stopped, netVars, up, idleVars, ownerVars>>

connect_handler == Connected \/ ConnectFailed

\* The delay of ProcessDisconnect or of connect_handler is over.
DelayEnds ==
    /\ io = "delay"
    /\ io' = "run"
    /\ ready' = ready \o ConnectPosts
    /\ AsyncConnect
    /\ UNCHANGED <<stopped, reads, failures, connVars, idleVars, ownerVars>>

-----------------------------------------------------------------------------
(* The network's answers to a connection attempt *)

ConnectAccepted ==
    /\ sock = "connecting"
    /\ sock' = "connected"
    /\ ready' = Append(ready, Call("connect", "ok"))
    /\ UNCHANGED <<io, stopped, reads, failures, connVars, idleVars, ownerVars>>

ConnectRefused ==
    /\ sock = "connecting" /\ failures < MaxFailures
    /\ sock' = "open"
    /\ failures' = failures + 1
    /\ ready' = Append(ready, Call("connect", "err"))
    /\ UNCHANGED <<io, stopped, reads, connVars, idleVars, ownerVars>>

-----------------------------------------------------------------------------

UserStep == Start \/ AsyncWrite \/ SetOnIdleTimeout \/ SyncWriteSend \/ SyncWritePost

ThreadStep == Run_io_service \/ connect_handler \/ DelayEnds

NetworkStep ==
    \/ ConnectAccepted \/ ConnectRefused
    \/ ReadArrives \/ ReadBreaks \/ NetworkDrops \/ IdleExpires

\* The object is destroyed, or a null timer has ended the program.
Done == (owner = "gone" \/ io = "crashed") /\ UNCHANGED vars

Next == UserStep \/ Stop \/ ThreadStep \/ NetworkStep \/ Done

\* A thread with something to run runs; a SyncWrite and a Stop that have begun
\* go on; an attempt is answered and a broken read is reported.  Nobody has to
\* call anything, no data has to arrive and no timer has to expire.
Fairness ==
    /\ WF_vars(ThreadStep)
    /\ WF_vars(StopCloseSocket \/ StopService \/ StopJoin)
    /\ WF_vars(SyncWritePost)
    /\ WF_vars(ConnectAccepted \/ ConnectRefused)
    /\ WF_vars(ReadBreaks)

Spec == Init /\ [][Next]_vars /\ Fairness

-----------------------------------------------------------------------------
(* Properties *)

\* Every variable keeps its type.
TypeOK == BaseTypeOK

\* The thread serves a connection nobody is stopping.
Serving == io \notin {"none", "ended", "crashed"} /\ owner = "started"

\* A connect is outstanding, answered but not handled, or about to be made.
ConnectUnderWay == sock = "connecting" \/ io = "delay" \/ Queued("connect")
ReadUnderWay == reads > 0 \/ Queued("read")

\* An ASYNC connection that reconnects never goes deaf: whatever the order in
\* which reads, writes, idle timeouts and connects fail, there is always a read
\* or a connect under way whose handler carries the chain of handlers on
\* (read_handler, ProcessDisconnect, connect_handler).
NeverDeaf == Async /\ Reconnect /\ Serving => ReadUnderWay \/ ConnectUnderWay

\* The callbacks come in a legal order: OnNewConnection before any other but
\* OnTerminate, nothing after OnTerminate, and once the io_service has been
\* stopped the handler in progress is the last one before OnTerminate.
HandlerProtocol ==
    [][/\ told = "nothing" => told' \in {"nothing", "new", "terminated"}
       /\ told' = "new" => told \in {"nothing", "new"}
       /\ told = "terminated" => told' = told
       /\ stopped => told' \in {told, "terminated"}]_vars

\* The ended thread leaves no socket open and no read outstanding, even when
\* the reconnect delay opened the socket again after Stop() had closed it.
SocketReleased == io = "ended" => sock \in {"closed", "gone"} /\ reads = 0

\* The idle watch lives exactly as long as the timeout is on: a timeout that
\* is switched off leaves no wait behind, and one that is on has a wait or an
\* expiry that will arm the timer again, until Stop() destroys the timer.
IdleWatch ==
    /\ idle = "waiting" => idleOn
    /\ idleOn /\ idle = "quiet" => Call("idle", "ok") \in Range(ready)

\* A connection that is not established, or was lost, is established (again)
\* unless the owner stops it.
Reconnects ==
    Async /\ Reconnect =>
      (owner = "started" /\ sock # "connected")
        ~> (sock = "connected" \/ owner # "started" \/ io = "crashed")

\* Stop() returns: the thread ends and is joined, even from within a delay.
StopReturns == (owner = "stop_timer") ~> (owner = "gone" \/ io = "crashed")

\* The connection of a user who keeps an io_service::work implements the life
\* that the handler is promised: where Stop() and the thread are is hidden.  The
\* order of the callbacks holds on every platform; Progress, that the handler is
\* told of the connection after every loss, only where the platform's "already
\* connected" has value 10056 (IsConnAccepted); ToldConnected is the other case.
Phase ==
    CASE io = "crashed" -> "crashed"
      [] io # "crashed" /\ owner = "new" -> "new"
      [] io # "crashed" /\ owner = "started" -> "serving"
      [] io # "crashed" /\ owner \in {"stop_timer", "stop_socket"} -> "stopping"
      [] io # "crashed" /\ owner = "joining" -> "halted"
      [] io # "crashed" /\ owner = "gone" -> "gone"

Lifecycle == INSTANCE ConnectionLifecycle WITH phase <- Phase, running <- (io # "none")
Implements == Lifecycle!Spec

-----------------------------------------------------------------------------
(* Strengthenings: what the invariants above need to be inductive *)

\* A connection that is up is carried on by a read or a connect, one that is
\* not is carried on by a connect, whatever else is queued.
ChainCarried ==
    Async /\ Reconnect /\ Serving => ConnectUnderWay \/ (up /\ ReadUnderWay)

\* Nothing runs before Start, and no handler has run before the timer exists.
StartOrder ==
    /\ owner = "new" => io = "none" /\ sock = "closed"
    /\ io \in {"none", "starting"} => ~idleOn

IInv == TypeOK /\ StartOrder /\ ChainCarried /\ SocketReleased /\ IdleWatch

\* How far Stop() is, the thread and what was told last agree.
StopOrder ==
    /\ stopped <=> owner \in {"joining", "gone"}
    /\ owner = "gone" => io \in {"none", "ended"}
    /\ owner = "started" => io # "none"
    /\ io = "ended" <=> told = "terminated"
    /\ io \in {"none", "starting", "created"} => told = "nothing"
    /\ io = "delay" => told # "nothing"
    /\ io \in {"created", "run", "delay"} /\ owner = "started" => idle # "null"

\* The handlers that may have something to tell of a connection, or mark it up.
Tells(h) == h.fn \in {"connect", "read"} \/ h = Call("sync_write", "ok")

\* OnNewConnection is queued once and ahead of them, and until it is called no
\* connection is up or read from.
IsNew(h) == h.fn = "new_connection"
Led(s) == \A i \in 1..Len(s) : Tells(s[i]) => \E j \in 1..(i - 1) : IsNew(s[j])
AtMostOneNew(s) == \A i, j \in 1..Len(s) : IsNew(s[i]) /\ IsNew(s[j]) => i = j

TellOrder ==
    /\ told = "nothing" =>
         /\ ~up /\ reads = 0
         /\ Led(ready)
         /\ writer = "ok" \/ sock \in {"connecting", "connected", "dropped"} =>
              Queued("new_connection")
    /\ told \in {"new", "connected", "disconnected"} => ~Queued("new_connection")
    /\ owner = "new" => ~Queued("new_connection")
    /\ AtMostOneNew(ready)

OrderInv == IInv /\ StopOrder /\ TellOrder

-----------------------------------------------------------------------------
(* What the comments of the code say *)

\* ClientConnection.h:136 "So if the socket says it's connected, go with it": a
\* handler told that the connection is down is told that it is up again, unless
\* the owner stops it.  Where "already connected" has another value than 10056
\* (EISCONN), the handler of a connected socket is told of failures for ever.
ToldConnected ==
    Async /\ Reconnect =>
      (owner = "started" /\ told = "disconnected")
        ~> (told = "connected" \/ owner # "started" \/ io = "crashed")

\* BasicConnection.h:541: "Run_io_service() creates m_idleTimer immediately so
\* that any callback function can be sure it exists".
IdleTimerExists == io # "crashed"
=============================================================================
