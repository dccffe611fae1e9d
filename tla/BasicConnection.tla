-------------------------- MODULE BasicConnection --------------------------
(***************************************************************************)
(* BoostAsioConnections/BasicConnection.h: one TCP connection, served by a *)
(* thread of its own that runs a boost::asio::io_service.  The public      *)
(* calls and the socket completions queue handlers; the thread runs them   *)
(* one at a time, in queue order.  The class is the base of                *)
(* ClientConnection and ServerConnection: Role names the derived class, so *)
(* that a call of a virtual function means what it means in that class.    *)
(*                                                                         *)
(* Abstracted: the bytes read and written (see ReadBuffer), the endpoints, *)
(* the value of m_tLastSuccessTime (only its being zero decides anything   *)
(* but the argument of OnIdleTimeout), the length of delays and logging.   *)
(* The io_service and the socket are Boost.Asio's, modelled from how the   *)
(* code uses them: completions of one io_service form one FIFO, and        *)
(* closing a socket completes its outstanding operations with an error.    *)
(***************************************************************************)
EXTENDS Naturals, Sequences, Functions

CONSTANTS
    Role,        \* the derived class, "client" or "server"
    Async,       \* m_eCommsType = ASYNC: the connection reads by itself
    Reconnect,   \* m_nReconnectDelaySec # 0
    HasWork,     \* the user keeps an io_service::work, as CTCPComms does
    MaxCalls,    \* bound: calls of AsyncWrite, SyncWrite, SetOnIdleTimeout
    MaxFailures  \* bound: connects refused, connections broken by the network or by
                 \* an OnIdleTimeout that returns true

ASSUME RoleAssumption == Role \in {"client", "server"}
ASSUME ModeAssumption == Async \in BOOLEAN /\ Reconnect \in BOOLEAN /\ HasWork \in BOOLEAN
ASSUME BoundAssumption == MaxCalls \in Nat /\ MaxFailures \in Nat

VARIABLES
    owner,     \* where the owning thread is: before Start, after it, inside Stop
    io,        \* where m_thread is: "delay" is the blocking reconnect delay,
               \* "crashed" the use of an idle timer that does not exist
    ready,     \* the io_service's queue of completed handlers
    stopped,   \* io_service::stop has been called
    sock,      \* m_sock: "open" is not connected, "dropped" was connected
    reads,     \* number of async_read_some operations outstanding on m_sock
    up,        \* m_tLastSuccessTime # 0, what IsConnected() answers
    idle,      \* m_idleTimer: null, without a wait, with a wait outstanding
    idleOn,    \* m_nIdleTimeoutSec # 0
    writer,    \* a SyncWrite between its send and its post, and the send's result
    told,      \* history: what the last callback told the handler
    calls,     \* calls made, up to MaxCalls
    failures   \* failures so far, up to MaxFailures

ownerVars == <<owner, writer, calls>>
netVars   == <<sock, reads, failures>>
idleVars  == <<idle, idleOn>>
connVars  == <<up, told>>
vars      == <<owner, io, ready, stopped, sock, reads, up, idle, idleOn,
              writer, told, calls, failures>>

-----------------------------------------------------------------------------
(* The queue of handlers *)

\* A handler bound with its argument: a completion's error_code ("isconn" is
\* 10056, the socket is already connected), the bSucceeded of
\* sync_write_handler, or whether set_idle_connection_timeout gets a non-zero time.
Handler == [fn : {"new_connection", "connect", "read", "async_write", "sync_write",
                  "set_idle", "idle"},
            arg : {"ok", "err", "isconn"}]

Call(fn, arg) == [fn |-> fn, arg |-> arg]

\* The io_service takes the handler fn(arg) from its queue; it queues `posts`.
Handle(fn, arg, posts) ==
    /\ io = "run" /\ ~stopped
    /\ ready # <<>> /\ Head(ready) = Call(fn, arg)
    /\ ready' = Tail(ready) \o posts

\* What closing m_sock queues: its outstanding reads and connect, aborted.
ClosePosts ==
    [i \in 1..reads |-> Call("read", "err")]
      \o (IF sock = "connecting" THEN <<Call("connect", "err")>> ELSE <<>>)

\* Mutant: one of the outstanding reads is taken off, however many there are.
CloseSocket_OneRead == sock' = "closed" /\ reads' = reads - 1

CloseSocket == sock' = "closed" /\ reads' = 0

\* async_read_some on m_sock: outstanding, or failed at once.
CanRead == sock \in {"connecting", "connected", "dropped"}
ReadPosts == IF CanRead THEN <<>> ELSE <<Call("read", "err")>>
BeginRead == reads' = IF CanRead THEN reads + 1 ELSE reads

\* Cancelling or destroying m_idleTimer aborts the wait it has outstanding.
CancelPosts == IF idle = "waiting" THEN <<Call("idle", "err")>> ELSE <<>>

-----------------------------------------------------------------------------
(* Public calls, on any thread while the object lives *)

InUse == owner \in {"new", "started"} /\ calls < MaxCalls /\ calls' = calls + 1

AsyncWrite ==
    /\ InUse
    /\ ready' = Append(ready, Call("async_write", "ok"))
    /\ UNCHANGED <<owner, io, stopped, netVars, connVars, idleVars, writer>>

SetOnIdleTimeout ==
    /\ InUse
    /\ \E arg \in {"ok", "err"} : ready' = Append(ready, Call("set_idle", arg))
    /\ UNCHANGED <<owner, io, stopped, netVars, connVars, idleVars, writer>>

\* SyncWrite sends on the caller's thread.  A send while the socket connects
\* waits for the outcome; the first sends after a peer has gone may still succeed.
SyncWriteSend ==
    /\ InUse
    /\ writer = "none"
    /\ \/ sock \in {"connected", "dropped"} /\ writer' = "ok"
       \/ sock \notin {"connected", "connecting"} /\ writer' = "err"
    /\ UNCHANGED <<owner, io, ready, stopped, netVars, connVars, idleVars>>

SyncWritePost ==
    /\ writer # "none"
    /\ ready' = Append(ready, Call("sync_write", writer))
    /\ writer' = "none"
    /\ UNCHANGED <<owner, io, stopped, netVars, connVars, idleVars, calls>>

-----------------------------------------------------------------------------
(* Stop, on the owning thread: four steps the other thread can run between *)

StopResetTimer ==
    /\ owner \in {"new", "started"} /\ writer = "none"
    /\ owner' = "stop_timer"
    /\ idle' = "null"
    /\ ready' = ready \o CancelPosts
    /\ UNCHANGED <<io, stopped, netVars, connVars, idleOn, writer, calls>>

StopCloseSocket ==
    /\ owner = "stop_timer"
    /\ owner' = "stop_socket"
    /\ ready' = ready \o ClosePosts
    /\ CloseSocket
    /\ UNCHANGED <<io, stopped, connVars, idleVars, writer, calls, failures>>

\* Mutant: the service is left to run out of work by itself.
StopService_NoStop ==
    /\ owner = "stop_socket"
    /\ owner' = "joining"
    /\ UNCHANGED <<io, ready, stopped, netVars, connVars, idleVars, writer, calls>>

StopService ==
    /\ owner = "stop_socket"
    /\ owner' = "joining"
    /\ stopped' = TRUE
    /\ UNCHANGED <<io, ready, netVars, connVars, idleVars, writer, calls>>

\* join() returns at once if Start() was never called; m_sock is then destroyed.
StopJoin ==
    /\ owner = "joining" /\ io \in {"none", "ended"}
    /\ owner' = "gone"
    /\ sock' = "gone"
    /\ UNCHANGED <<io, ready, stopped, reads, connVars, idleVars, writer, calls, failures>>

Stop == StopResetTimer \/ StopCloseSocket \/ StopService \/ StopJoin

-----------------------------------------------------------------------------
(* ProcessDisconnect, called by the handler fn(arg) after it queued `posts` *)

\* The derived override: a client with a reconnect delay starts the delay, a
\* server connection stops its io_service.
ReconnectOrStop ==
    /\ io' = IF Role = "client" /\ Reconnect THEN "delay" ELSE io
    /\ stopped' = (stopped \/ Role = "server")

ProcessDisconnect(fn, arg, posts) ==
    \/ /\ up
       /\ Handle(fn, arg, posts \o ClosePosts)
       /\ CloseSocket
       /\ up' = FALSE /\ told' = "disconnected"
       /\ ReconnectOrStop
    \/ /\ ~up
       /\ Handle(fn, arg, posts)
       /\ UNCHANGED <<sock, reads, up, told, io, stopped>>

-----------------------------------------------------------------------------
(* The handlers, on m_thread *)

new_connection_handler ==
    /\ Handle("new_connection", "ok", <<>>)
    /\ told' = "new"
    /\ UNCHANGED <<io, stopped, netVars, up, idleVars, ownerVars>>

\* Data was read: UpdateLastSuccessTime, OnRead, and the next read.
ReadDone ==
    /\ Handle("read", "ok", ReadPosts)
    /\ up' = TRUE
    /\ BeginRead
    /\ UNCHANGED <<io, stopped, sock, failures, told, idleVars, ownerVars>>

ReadFailed ==
    /\ ProcessDisconnect("read", "err", <<>>)
    /\ UNCHANGED <<failures, idleVars, ownerVars>>

read_handler == ReadDone \/ ReadFailed

\* Nothing is sent, and nobody is told, when the connection is not up.
WriteSkipped ==
    /\ ~up
    /\ Handle("async_write", "ok", <<>>)
    /\ UNCHANGED <<io, stopped, netVars, connVars, idleVars, ownerVars>>

WriteDone ==
    /\ up /\ sock \in {"connected", "dropped"}
    /\ Handle("async_write", "ok", <<>>)
    /\ UNCHANGED <<io, stopped, netVars, connVars, idleVars, ownerVars>>

WriteFailed ==
    /\ up /\ sock \notin {"connected", "connecting"}
    /\ ProcessDisconnect("async_write", "ok", <<>>)
    /\ UNCHANGED <<failures, idleVars, ownerVars>>

async_write_handler == WriteSkipped \/ WriteDone \/ WriteFailed

SyncWriteDone ==
    /\ Handle("sync_write", "ok", <<>>)
    /\ up' = TRUE
    /\ UNCHANGED <<io, stopped, netVars, told, idleVars, ownerVars>>

SyncWriteFailed ==
    /\ ProcessDisconnect("sync_write", "err", <<>>)
    /\ UNCHANGED <<failures, idleVars, ownerVars>>

sync_write_handler == SyncWriteDone \/ SyncWriteFailed

\* A handler that needs the timer finds that Stop has destroyed it.
NullTimer(fn, arg) ==
    /\ idle = "null"
    /\ Handle(fn, arg, <<>>)
    /\ io' = "crashed"
    /\ UNCHANGED <<stopped, netVars, connVars, idleVars, ownerVars>>

set_idle_connection_timeout ==
    \/ \E arg \in {"ok", "err"} : NullTimer("set_idle", arg)
    \/ /\ idle # "null"
       /\ \E arg \in {"ok", "err"} :
            /\ Handle("set_idle", arg, CancelPosts)
            /\ idleOn' = (arg = "ok")
            /\ idle' = IF arg = "ok" THEN "waiting" ELSE "quiet"
       /\ UNCHANGED <<io, stopped, netVars, connVars, ownerVars>>

\* The wait was cancelled, or the timeout has been switched off since.
IdleIgnored ==
    /\ \E arg \in {"ok", "err"} : (arg = "ok" => ~idleOn) /\ Handle("idle", arg, <<>>)
    /\ UNCHANGED <<io, stopped, netVars, connVars, idleVars, ownerVars>>

\* Mutant: the timer is armed again only when there is a connection to watch.
IdleKept_IfUp ==
    /\ idleOn /\ idle # "null"
    /\ Handle("idle", "ok", IF up THEN CancelPosts ELSE <<>>)
    /\ idle' = IF up THEN "waiting" ELSE idle
    /\ UNCHANGED <<io, stopped, netVars, connVars, idleOn, ownerVars>>

\* Timer armed again; no connection, or OnIdleTimeout leaves it open.
IdleKept ==
    /\ idleOn /\ idle # "null"
    /\ Handle("idle", "ok", CancelPosts)
    /\ idle' = "waiting"
    /\ UNCHANGED <<io, stopped, netVars, connVars, idleOn, ownerVars>>

\* Timer armed again; OnIdleTimeout asks to close the connection.
IdleClosed ==
    /\ idleOn /\ idle # "null" /\ up
    /\ ProcessDisconnect("idle", "ok", CancelPosts)
    /\ idle' = "waiting"
    /\ failures < MaxFailures /\ failures' = failures + 1
    /\ UNCHANGED <<idleOn, ownerVars>>

idle_connection_handler ==
    \/ IdleIgnored
    \/ IdleKept
    \/ IdleClosed
    \/ idleOn /\ NullTimer("idle", "ok")

-----------------------------------------------------------------------------
(* m_thread itself: Run_io_service *)

CreateIdleTimer ==
    /\ io = "starting"
    /\ io' = "created"
    /\ idle' = "quiet"
    /\ UNCHANGED <<ready, stopped, netVars, connVars, idleOn, ownerVars>>

\* set_idle_connection_timeout(m_nIdleTimeoutSec), which is still zero, then run().
EnterRun ==
    /\ io = "created"
    /\ io' = IF idle = "null" THEN "crashed" ELSE "run"
    /\ UNCHANGED <<ready, stopped, netVars, connVars, idleVars, ownerVars>>

\* run() also returns when nothing is left to wait for.
Busy == \/ HasWork
        \/ ready # <<>>
        \/ reads > 0 \/ sock = "connecting"
        \/ idle = "waiting"

\* Mutant: the thread ends without closing what the reconnect delay opened.
ProcessTerminate_NoClose ==
    /\ io = "run" /\ (stopped \/ ~Busy)
    /\ io' = "ended"
    /\ told' = "terminated"
    /\ UNCHANGED <<ready, stopped, netVars, up, idleVars, ownerVars>>

\* run() has returned: close the socket, ProcessTerminate, the thread ends.
ProcessTerminate ==
    /\ io = "run" /\ (stopped \/ ~Busy)
    /\ io' = "ended"
    /\ ready' = ready \o ClosePosts
    /\ CloseSocket
    /\ told' = "terminated"
    /\ UNCHANGED <<stopped, failures, up, idleVars, ownerVars>>

Run_io_service ==
    \/ CreateIdleTimer \/ EnterRun
    \/ new_connection_handler
    \/ read_handler \/ async_write_handler \/ sync_write_handler
    \/ set_idle_connection_timeout \/ idle_connection_handler
    \/ ProcessTerminate

-----------------------------------------------------------------------------
(* The network and the clock: completions the io_service queues *)

ReadArrives ==
    /\ sock = "connected" /\ reads > 0
    /\ reads' = reads - 1
    /\ ready' = Append(ready, Call("read", "ok"))
    /\ UNCHANGED <<io, stopped, sock, failures, connVars, idleVars, ownerVars>>

ReadBreaks ==
    /\ sock \in {"dropped", "open", "connecting"} /\ reads > 0
    /\ reads' = reads - 1
    /\ ready' = Append(ready, Call("read", "err"))
    /\ UNCHANGED <<io, stopped, sock, failures, connVars, idleVars, ownerVars>>

NetworkDrops ==
    /\ sock = "connected" /\ failures < MaxFailures
    /\ sock' = "dropped"
    /\ failures' = failures + 1
    /\ UNCHANGED <<io, ready, stopped, reads, connVars, idleVars, ownerVars>>

IdleExpires ==
    /\ idle = "waiting" /\ io # "ended"
    /\ idle' = "quiet"
    /\ ready' = Append(ready, Call("idle", "ok"))
    /\ UNCHANGED <<io, stopped, netVars, connVars, idleOn, ownerVars>>

-----------------------------------------------------------------------------
(* What the properties speak of *)

\* A handler of this name waits in the queue.
Queued(fn) == \E h \in Range(ready) : h.fn = fn

BaseTypeOK ==
    /\ owner \in {"new", "started", "stop_timer", "stop_socket", "joining", "gone"}
    /\ io \in {"none", "starting", "created", "run", "delay", "ended", "crashed"}
    /\ ready \in Seq(Handler)
    /\ stopped \in BOOLEAN
    /\ sock \in {"closed", "open", "connecting", "connected", "dropped", "gone"}
    /\ reads \in Nat
    /\ up \in BOOLEAN
    /\ idle \in {"null", "quiet", "waiting"} /\ idleOn \in BOOLEAN
    /\ writer \in {"none", "ok", "err"}
    /\ told \in {"nothing", "new", "connected", "disconnected", "terminated"}
    /\ calls \in 0..MaxCalls /\ failures \in 0..MaxFailures
=============================================================================
