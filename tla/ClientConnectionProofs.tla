----------------------- MODULE ClientConnectionProofs ----------------------
(***************************************************************************)
(* Invariance proofs about ClientConnection, for every value of its        *)
(* constants: types, the chain of handlers that keeps a connection alive,  *)
(* the release of the socket and the life of the idle timer.  The lemmas   *)
(* up to ThreadType are about BasicConnection and hold in either role.     *)
(***************************************************************************)
EXTENDS ClientConnection, SequenceTheorems, TLAPS

-----------------------------------------------------------------------------
(* The queue *)

\* Posting keeps what is queued and adds what is posted.
LEMMA ConcatRange ==
    ASSUME NEW s \in Seq(Handler), NEW t \in Seq(Handler)
    PROVE  s \o t \in Seq(Handler) /\ Range(s \o t) = Range(s) \cup Range(t)
BY ConcatProperties, RangeConcatenation

LEMMA SingleRange ==
    ASSUME NEW h \in Handler
    PROVE  <<h>> \in Seq(Handler) /\ Range(<<h>>) = {h}
<1>1. <<h>> \in Seq(Handler) /\ Len(<<h>>) = 1 /\ <<h>>[1] = h
  OBVIOUS
<1>2. Range(<<h>>) = {<<h>>[i] : i \in 1..Len(<<h>>)}
  BY <1>1, RangeEquality
<1> QED
  BY <1>1, <1>2

LEMMA EmptyRange == <<>> \in Seq(Handler) /\ Range(<<>>) = {}
<1>1. <<>> \in Seq(Handler)
  OBVIOUS
<1>2. Range(<<>>) = {<<>>[i] : i \in 1..Len(<<>>)}
  BY <1>1, RangeEquality
<1> QED
  BY <1>1, <1>2

LEMMA AppendRange ==
    ASSUME NEW s \in Seq(Handler), NEW h \in Handler
    PROVE  Append(s, h) \in Seq(Handler) /\ Range(Append(s, h)) = Range(s) \cup {h}
<1>1. Append(s, h) = s \o <<h>>
  BY AppendIsConcat
<1> QED
  BY <1>1, SingleRange, ConcatRange

\* Only the head leaves the queue.
LEMMA TailRange ==
    ASSUME NEW s \in Seq(Handler), s # <<>>
    PROVE  Tail(s) \in Seq(Handler) /\ Range(s) = {Head(s)} \cup Range(Tail(s))
<1>1. /\ Tail(s) \in Seq(Handler) /\ Head(s) \in Handler
      /\ s = <<Head(s)>> \o Tail(s)
  OBVIOUS
<1>2. <<Head(s)>> \in Seq(Handler) /\ Range(<<Head(s)>>) = {Head(s)}
  BY <1>1, SingleRange
<1> QED
  BY <1>1, <1>2, ConcatRange

\* Handling takes one handler off the queue and adds the posts.
LEMMA HandleRange ==
    ASSUME ready \in Seq(Handler), NEW fn, NEW arg, NEW posts \in Seq(Handler),
           Handle(fn, arg, posts)
    PROVE  /\ ready' \in Seq(Handler)
           /\ Call(fn, arg) \in Range(ready)
           /\ Range(ready) \subseteq {Call(fn, arg)} \cup Range(ready')
           /\ Range(posts) \subseteq Range(ready')
           /\ Range(ready') \subseteq Range(ready) \cup Range(posts)
<1>1. /\ ready # <<>> /\ Head(ready) = Call(fn, arg)
      /\ ready' = Tail(ready) \o posts
  BY DEF Handle
<1>2. Tail(ready) \in Seq(Handler) /\ Range(ready) = {Head(ready)} \cup Range(Tail(ready))
  BY <1>1, TailRange
<1>3. ready' \in Seq(Handler) /\ Range(ready') = Range(Tail(ready)) \cup Range(posts)
  BY <1>1, <1>2, ConcatRange
<1> QED
  BY <1>1, <1>2, <1>3

\* Handling fn leaves the handlers of every other name where they are.
LEMMA HandleKeeps ==
    ASSUME ready \in Seq(Handler), NEW fn, NEW arg, NEW posts \in Seq(Handler),
           Handle(fn, arg, posts)
    PROVE  /\ \A g : g # fn /\ Queued(g) => Queued(g)'
           /\ \A h \in Range(posts) : Queued(h.fn)'
           /\ \A h \in Range(ready) : h # Call(fn, arg) => h \in Range(ready')
<1>1. /\ Range(ready) \subseteq {Call(fn, arg)} \cup Range(ready')
      /\ Range(posts) \subseteq Range(ready')
  BY HandleRange
<1>2. Call(fn, arg).fn = fn
  BY DEF Call
<1> QED
  BY <1>1, <1>2 DEF Queued

\* Posting at the end of the queue keeps every handler that is in it.
LEMMA PostKeeps ==
    ASSUME ready \in Seq(Handler), NEW posts \in Seq(Handler),
           \/ ready' = ready \o posts
           \/ \E h \in Handler : posts = <<h>> /\ ready' = Append(ready, h)
    PROVE  /\ \A g : Queued(g) => Queued(g)'
           /\ \A h \in Range(posts) : Queued(h.fn)' /\ h \in Range(ready')
           /\ Range(ready) \subseteq Range(ready')
<1>1. ready' = ready \o posts
  BY AppendIsConcat
<1>2. Range(ready') = Range(ready) \cup Range(posts)
  BY <1>1, ConcatRange
<1> QED
  BY <1>2 DEF Queued

-----------------------------------------------------------------------------
(* What operations on the socket and the timer post *)

LEMMA CallType ==
    /\ \A arg \in {"ok", "err"} :
         /\ Call("connect", arg) \in Handler /\ Call("read", arg) \in Handler
         /\ Call("sync_write", arg) \in Handler /\ Call("set_idle", arg) \in Handler
         /\ Call("idle", arg) \in Handler
    /\ Call("connect", "isconn") \in Handler
    /\ Call("new_connection", "ok") \in Handler /\ Call("async_write", "ok") \in Handler
BY DEF Call, Handler

LEMMA ClosePostsType == reads \in Nat => ClosePosts \in Seq(Handler)
<1> SUFFICES ASSUME reads \in Nat PROVE ClosePosts \in Seq(Handler)
  OBVIOUS
<1> DEFINE aborted == [i \in 1..reads |-> Call("read", "err")]
<1>1. aborted \in [1..reads -> Handler]
  BY CallType
<1>2. aborted \in Seq(Handler)
  BY <1>1, SeqDef
<1>3. (IF sock = "connecting" THEN <<Call("connect", "err")>> ELSE <<>>) \in Seq(Handler)
  BY CallType, SingleRange, EmptyRange
<1> QED
  BY <1>2, <1>3, ConcatProperties DEF ClosePosts

LEMMA ReadPostsType ==
    /\ ReadPosts \in Seq(Handler)
    /\ ~CanRead => Call("read", "err") \in Range(ReadPosts)
BY CallType, SingleRange, EmptyRange DEF ReadPosts

LEMMA CancelPostsType == CancelPosts \in Seq(Handler)
BY CallType, SingleRange, EmptyRange DEF CancelPosts

-----------------------------------------------------------------------------
(* The types of BasicConnection *)

\* ProcessDisconnect, in whatever handler it is called.
LEMMA DisconnectType ==
    ASSUME BaseTypeOK, NEW fn, NEW arg, NEW posts \in Seq(Handler),
           ProcessDisconnect(fn, arg, posts)
    PROVE  /\ ready' \in Seq(Handler)
           /\ reads' \in Nat /\ sock' \in {sock, "closed"}
           /\ up' \in BOOLEAN /\ stopped' \in BOOLEAN
           /\ told' \in {told, "disconnected"} /\ io' \in {io, "delay"}
<1>1. reads \in Nat /\ ready \in Seq(Handler) /\ ClosePosts \in Seq(Handler)
  BY ClosePostsType DEF BaseTypeOK
<1>2. CASE up /\ Handle(fn, arg, posts \o ClosePosts) /\ CloseSocket
           /\ up' = FALSE /\ told' = "disconnected" /\ ReconnectOrStop
  <2>1. posts \o ClosePosts \in Seq(Handler)
    BY <1>1, ConcatProperties
  <2>2. ready' \in Seq(Handler)
    BY <1>1, <1>2, <2>1, HandleRange
  <2> QED
    BY <1>2, <2>2 DEF CloseSocket, ReconnectOrStop, BaseTypeOK
<1>3. CASE ~up /\ Handle(fn, arg, posts) /\ UNCHANGED <<sock, reads, up, told, io, stopped>>
  <2>1. ready' \in Seq(Handler)
    BY <1>1, <1>3, HandleRange
  <2> QED
    BY <1>3, <2>1 DEF BaseTypeOK
<1> QED
  BY <1>2, <1>3 DEF ProcessDisconnect

\* The calls of the user and the steps of Stop.
LEMMA CallsType ==
    ASSUME BaseTypeOK,
           AsyncWrite \/ SetOnIdleTimeout \/ SyncWriteSend \/ SyncWritePost \/ Stop
    PROVE  BaseTypeOK'
<1> USE BoundAssumption DEF BaseTypeOK, connVars, idleVars, netVars, ownerVars
<1>1. CASE AsyncWrite
  BY <1>1, CallType, AppendRange DEF AsyncWrite, InUse
<1>2. CASE SetOnIdleTimeout
  BY <1>2, CallType, AppendRange DEF SetOnIdleTimeout, InUse
<1>3. CASE SyncWriteSend
  BY <1>3 DEF SyncWriteSend, InUse
<1>4. CASE SyncWritePost
  BY <1>4, CallType, AppendRange DEF SyncWritePost
<1>5. CASE StopResetTimer
  <2>1. ready' \in Seq(Handler)
    BY <1>5, CancelPostsType, ConcatProperties DEF StopResetTimer
  <2> QED
    BY <1>5, <2>1 DEF StopResetTimer
<1>6. CASE StopCloseSocket
  <2>1. ready' \in Seq(Handler)
    BY <1>6, ClosePostsType, ConcatProperties DEF StopCloseSocket
  <2> QED
    BY <1>6, <2>1 DEF StopCloseSocket, CloseSocket
<1>7. CASE StopService
  BY <1>7 DEF StopService
<1>8. CASE StopJoin
  BY <1>8 DEF StopJoin
<1> QED
  BY <1>1, <1>2, <1>3, <1>4, <1>5, <1>6, <1>7, <1>8 DEF Stop

\* The completions.
LEMMA CompletionsType ==
    ASSUME BaseTypeOK, ReadArrives \/ ReadBreaks \/ NetworkDrops \/ IdleExpires
    PROVE  BaseTypeOK'
<1> USE BoundAssumption DEF BaseTypeOK, connVars, idleVars, netVars, ownerVars
<1>1. CASE ReadArrives
  BY <1>1, CallType, AppendRange DEF ReadArrives
<1>2. CASE ReadBreaks
  BY <1>2, CallType, AppendRange DEF ReadBreaks
<1>3. CASE NetworkDrops
  BY <1>3 DEF NetworkDrops
<1>4. CASE IdleExpires
  BY <1>4, CallType, AppendRange DEF IdleExpires
<1> QED
  BY <1>1, <1>2, <1>3, <1>4

\* The thread: its handlers, and what Run_io_service does around them.
LEMMA ThreadType ==
    ASSUME BaseTypeOK, Run_io_service
    PROVE  BaseTypeOK'
<1> DEFINE disconnected ==
             /\ ready' \in Seq(Handler)
             /\ reads' \in Nat /\ sock' \in {sock, "closed"}
             /\ up' \in BOOLEAN /\ stopped' \in BOOLEAN
             /\ told' \in {told, "disconnected"} /\ io' \in {io, "delay"}
<1> USE BoundAssumption DEF BaseTypeOK, connVars, idleVars, netVars, ownerVars
<1>1. /\ <<>> \in Seq(Handler) /\ ReadPosts \in Seq(Handler)
      /\ CancelPosts \in Seq(Handler) /\ ClosePosts \in Seq(Handler)
  BY EmptyRange, ReadPostsType, CancelPostsType, ClosePostsType
<1>2. CASE CreateIdleTimer
  BY <1>2 DEF CreateIdleTimer
<1>3. CASE EnterRun
  BY <1>3 DEF EnterRun
<1>4. CASE new_connection_handler
  <2>1. ready' \in Seq(Handler)
    BY <1>1, <1>4, HandleRange DEF new_connection_handler
  <2> QED
    BY <1>1, <1>4, <2>1 DEF new_connection_handler
<1>5. CASE ReadDone
  <2>1. ready' \in Seq(Handler)
    BY <1>1, <1>5, HandleRange DEF ReadDone
  <2> QED
    BY <1>5, <2>1 DEF ReadDone, BeginRead
<1>6. CASE ReadFailed
  <2>1. disconnected
    BY <1>1, <1>6, DisconnectType DEF ReadFailed
  <2> QED
    BY <1>6, <2>1 DEF ReadFailed
<1>7. CASE WriteSkipped
  <2>1. ready' \in Seq(Handler)
    BY <1>1, <1>7, HandleRange DEF WriteSkipped
  <2> QED
    BY <1>1, <1>7, <2>1 DEF WriteSkipped
<1>8. CASE WriteDone
  <2>1. ready' \in Seq(Handler)
    BY <1>1, <1>8, HandleRange DEF WriteDone
  <2> QED
    BY <1>1, <1>8, <2>1 DEF WriteDone
<1>9. CASE WriteFailed
  <2>1. disconnected
    BY <1>1, <1>9, DisconnectType DEF WriteFailed
  <2> QED
    BY <1>9, <2>1 DEF WriteFailed
<1>10. CASE SyncWriteDone
  <2>1. ready' \in Seq(Handler)
    BY <1>1, <1>10, HandleRange DEF SyncWriteDone
  <2> QED
    BY <1>1, <1>10, <2>1 DEF SyncWriteDone
<1>11. CASE SyncWriteFailed
  <2>1. disconnected
    BY <1>1, <1>11, DisconnectType DEF SyncWriteFailed
  <2> QED
    BY <1>11, <2>1 DEF SyncWriteFailed
<1>12. CASE set_idle_connection_timeout
  <2>1. ready' \in Seq(Handler)
    BY <1>1, <1>12, HandleRange DEF set_idle_connection_timeout, NullTimer
  <2> QED
    BY <1>12, <2>1 DEF set_idle_connection_timeout, NullTimer
<1>13. CASE IdleIgnored
  <2>1. ready' \in Seq(Handler)
    BY <1>1, <1>13, HandleRange DEF IdleIgnored
  <2> QED
    BY <1>1, <1>13, <2>1 DEF IdleIgnored
<1>14. CASE IdleKept
  <2>1. ready' \in Seq(Handler)
    BY <1>1, <1>14, HandleRange DEF IdleKept
  <2> QED
    BY <1>1, <1>14, <2>1 DEF IdleKept
<1>15. CASE IdleClosed
  <2>1. disconnected
    BY <1>1, <1>15, DisconnectType DEF IdleClosed
  <2> QED
    BY <1>15, <2>1 DEF IdleClosed
<1>16. CASE NullTimer("idle", "ok")
  <2>1. ready' \in Seq(Handler)
    BY <1>1, <1>16, HandleRange DEF NullTimer
  <2> QED
    BY <1>1, <1>16, <2>1 DEF NullTimer
<1>17. CASE ProcessTerminate
  <2>1. ready' \in Seq(Handler)
    BY <1>1, <1>17, ConcatProperties DEF ProcessTerminate
  <2> QED
    BY <1>17, <2>1 DEF ProcessTerminate, CloseSocket
<1> QED
  BY <1>2, <1>3, <1>4, <1>5, <1>6, <1>7, <1>8, <1>9, <1>10, <1>11, <1>12, <1>13,
     <1>14, <1>15, <1>16, <1>17
  DEF Run_io_service, read_handler, async_write_handler, sync_write_handler,
      idle_connection_handler

-----------------------------------------------------------------------------
(* The types of ClientConnection *)

LEMMA ConnectPostsType ==
    /\ ConnectPosts \in Seq(Handler)
    /\ sock \notin {"closed", "open"} => \E h \in Range(ConnectPosts) : h.fn = "connect"
<1>1. \A arg \in {"err", "isconn"} :
         /\ <<Call("connect", arg)>> \in Seq(Handler)
         /\ Range(<<Call("connect", arg)>>) = {Call("connect", arg)}
         /\ Call("connect", arg).fn = "connect"
  BY CallType, SingleRange DEF Call
<1> QED
  BY <1>1, EmptyRange DEF ConnectPosts

\* Start, connect_handler, the end of a delay and the answers to a connect.
LEMMA ClientStepType ==
    ASSUME BaseTypeOK,
           Start \/ connect_handler \/ DelayEnds \/ ConnectAccepted \/ ConnectRefused
    PROVE  BaseTypeOK'
<1> USE BoundAssumption DEF BaseTypeOK, connVars, idleVars, netVars, ownerVars
<1>1. /\ <<>> \in Seq(Handler) /\ ReadPosts \in Seq(Handler)
      /\ ConnectPosts \in Seq(Handler)
      /\ <<Call("new_connection", "ok")>> \in Seq(Handler)
  BY EmptyRange, ReadPostsType, ConnectPostsType, CallType, SingleRange
<1>2. CASE Start
  <2>1. NewConnectionPosts \in Seq(Handler)
    BY <1>1, ConcatProperties DEF NewConnectionPosts
  <2>2. ready' \in Seq(Handler)
    BY <1>2, <2>1, ConcatProperties DEF Start
  <2> QED
    BY <1>2, <2>2 DEF Start, AsyncConnect
<1>3. CASE Connected
  <2>1. (IF Async THEN ReadPosts ELSE <<>>) \in Seq(Handler)
    BY <1>1
  <2>2. ready' \in Seq(Handler)
    BY <1>3, <2>1, HandleRange DEF Connected
  <2> QED
    BY <1>3, <2>2 DEF Connected, BeginRead
<1>4. CASE ConnectFailed
  <2>1. ready' \in Seq(Handler)
    BY <1>1, <1>4, HandleRange DEF ConnectFailed
  <2> QED
    BY <1>4, <2>1 DEF ConnectFailed
<1>5. CASE DelayEnds
  <2>1. ready' \in Seq(Handler)
    BY <1>1, <1>5, ConcatProperties DEF DelayEnds
  <2> QED
    BY <1>5, <2>1 DEF DelayEnds, AsyncConnect
<1>6. CASE ConnectAccepted
  BY <1>6, CallType, AppendRange DEF ConnectAccepted
<1>7. CASE ConnectRefused
  BY <1>7, CallType, AppendRange DEF ConnectRefused
<1> QED
  BY <1>2, <1>3, <1>4, <1>5, <1>6, <1>7 DEF connect_handler

LEMMA TypeStep == TypeOK /\ [Next]_vars => TypeOK'
<1> SUFFICES ASSUME BaseTypeOK, [Next]_vars PROVE BaseTypeOK'
  BY DEF TypeOK
<1>1. CASE UNCHANGED vars
  BY <1>1 DEF BaseTypeOK, vars
<1>2. CASE UserStep \/ Stop
  BY <1>2, CallsType, ClientStepType DEF UserStep
<1>3. CASE ThreadStep
  BY <1>3, ThreadType, ClientStepType DEF ThreadStep
<1>4. CASE NetworkStep
  BY <1>4, CompletionsType, ClientStepType DEF NetworkStep
<1> QED
  BY <1>1, <1>2, <1>3, <1>4 DEF Next, Done

LEMMA InitInv == Init => IInv
<1> SUFFICES ASSUME Init PROVE IInv
  OBVIOUS
<1> USE BoundAssumption DEF Init
<1>1. TypeOK
  <2>1. ready \in Seq(Handler)
    BY EmptyRange
  <2>2. 0 \in 0..MaxCalls /\ 0 \in 0..MaxFailures
    OBVIOUS
  <2> QED
    BY <2>1, <2>2 DEF TypeOK, BaseTypeOK
<1>2. StartOrder /\ ChainCarried /\ SocketReleased /\ IdleWatch
  BY DEF StartOrder, ChainCarried, Serving, SocketReleased, IdleWatch
<1> QED
  BY <1>1, <1>2 DEF IInv

-----------------------------------------------------------------------------
(* The order of start, and the socket's release *)

LEMMA DisconnectRuns ==
    ASSUME NEW fn, NEW arg, NEW posts, ProcessDisconnect(fn, arg, posts)
    PROVE  io = "run" /\ io' \in {"run", "delay"}
BY DEF ProcessDisconnect, Handle, ReconnectOrStop

LEMMA StartOrderStep == TypeOK /\ StartOrder /\ [Next]_vars => StartOrder'
<1> SUFFICES ASSUME TypeOK, StartOrder, [Next]_vars PROVE StartOrder'
  OBVIOUS
<1> USE DEF StartOrder, connVars, idleVars, netVars, ownerVars
<1>1. CASE UNCHANGED vars
  BY <1>1 DEF vars
<1>2. CASE UserStep
  BY <1>2 DEF UserStep, Start, AsyncWrite, SetOnIdleTimeout, SyncWriteSend, SyncWritePost, InUse
<1>3. CASE Stop
  BY <1>3 DEF Stop, StopResetTimer, StopCloseSocket, StopService, StopJoin
<1>4. CASE ThreadStep
  <2>1. CASE connect_handler
    BY <2>1 DEF connect_handler, Connected, ConnectFailed, Handle
  <2>2. CASE DelayEnds
    BY <2>2 DEF DelayEnds
  <2>3. CASE CreateIdleTimer \/ EnterRun \/ ProcessTerminate
    BY <2>3 DEF CreateIdleTimer, EnterRun, ProcessTerminate
  <2>4. CASE new_connection_handler
    BY <2>4 DEF new_connection_handler, Handle
  <2>5. CASE read_handler \/ async_write_handler \/ sync_write_handler
    BY <2>5, DisconnectRuns DEF read_handler, async_write_handler, sync_write_handler,
       ReadDone, ReadFailed, WriteSkipped, WriteDone, WriteFailed, SyncWriteDone,
       SyncWriteFailed, Handle
  <2>6. CASE set_idle_connection_timeout
    BY <2>6 DEF set_idle_connection_timeout, NullTimer, Handle
  <2>7. CASE idle_connection_handler
    BY <2>7, DisconnectRuns DEF idle_connection_handler, IdleIgnored, IdleKept, IdleClosed,
       NullTimer, Handle
  <2> QED
    BY <1>4, <2>1, <2>2, <2>3, <2>4, <2>5, <2>6, <2>7 DEF ThreadStep, Run_io_service
<1>5. CASE NetworkStep
  BY <1>5 DEF NetworkStep, ConnectAccepted, ConnectRefused, ReadArrives, ReadBreaks,
     NetworkDrops, IdleExpires
<1> QED
  BY <1>1, <1>2, <1>3, <1>4, <1>5 DEF Next, Done

LEMMA ReleasedStep ==
    TypeOK /\ StartOrder /\ SocketReleased /\ [Next]_vars => SocketReleased'
<1> SUFFICES ASSUME TypeOK, StartOrder, SocketReleased, [Next]_vars PROVE SocketReleased'
  OBVIOUS
<1> USE DEF SocketReleased, StartOrder, connVars, idleVars, netVars, ownerVars
<1>1. CASE UNCHANGED vars
  BY <1>1 DEF vars
<1>2. CASE UserStep
  BY <1>2 DEF UserStep, Start, AsyncWrite, SetOnIdleTimeout, SyncWriteSend, SyncWritePost, InUse
<1>3. CASE Stop
  BY <1>3 DEF Stop, StopResetTimer, StopCloseSocket, StopService, StopJoin, CloseSocket
<1>4. CASE ThreadStep
  <2>1. CASE ProcessTerminate
    BY <2>1 DEF ProcessTerminate, CloseSocket
  <2>2. CASE connect_handler \/ DelayEnds
    BY <2>2 DEF connect_handler, Connected, ConnectFailed, Handle, DelayEnds
  <2>3. CASE CreateIdleTimer \/ EnterRun \/ new_connection_handler
    BY <2>3 DEF CreateIdleTimer, EnterRun, new_connection_handler, Handle
  <2>4. CASE read_handler \/ async_write_handler \/ sync_write_handler
    BY <2>4, DisconnectRuns DEF read_handler, async_write_handler, sync_write_handler,
       ReadDone, ReadFailed, WriteSkipped, WriteDone, WriteFailed, SyncWriteDone,
       SyncWriteFailed, Handle
  <2>5. CASE set_idle_connection_timeout \/ idle_connection_handler
    BY <2>5, DisconnectRuns DEF set_idle_connection_timeout, idle_connection_handler,
       IdleIgnored, IdleKept, IdleClosed, NullTimer, Handle
  <2> QED
    BY <1>4, <2>1, <2>2, <2>3, <2>4, <2>5 DEF ThreadStep, Run_io_service
<1>5. CASE NetworkStep
  BY <1>5 DEF NetworkStep, ConnectAccepted, ConnectRefused, ReadArrives, ReadBreaks,
     NetworkDrops, IdleExpires
<1> QED
  BY <1>1, <1>2, <1>3, <1>4, <1>5 DEF Next, Done

-----------------------------------------------------------------------------
(* The idle watch *)

\* ProcessDisconnect keeps every handler but the one it is called by.
LEMMA DisconnectKeeps ==
    ASSUME BaseTypeOK, NEW fn, NEW arg, NEW posts \in Seq(Handler),
           ProcessDisconnect(fn, arg, posts)
    PROVE  /\ \A g : g # fn /\ Queued(g) => Queued(g)'
           /\ \A h \in Range(ready) : h # Call(fn, arg) => h \in Range(ready')
<1>1. ready \in Seq(Handler) /\ posts \o ClosePosts \in Seq(Handler)
  BY ClosePostsType, ConcatProperties DEF BaseTypeOK
<1>2. Handle(fn, arg, posts) \/ Handle(fn, arg, posts \o ClosePosts)
  BY DEF ProcessDisconnect
<1> QED
  BY <1>1, <1>2, HandleKeeps

LEMMA WatchStep ==
    TypeOK /\ StartOrder /\ IdleWatch /\ [Next]_vars => IdleWatch'
<1> SUFFICES ASSUME BaseTypeOK, StartOrder, IdleWatch, [Next]_vars PROVE IdleWatch'
  BY DEF TypeOK
<1> DEFINE expiry == Call("idle", "ok")
<1>1. /\ ready \in Seq(Handler) /\ <<>> \in Seq(Handler) /\ ReadPosts \in Seq(Handler)
      /\ CancelPosts \in Seq(Handler) /\ ClosePosts \in Seq(Handler)
      /\ ConnectPosts \in Seq(Handler) /\ NewConnectionPosts \in Seq(Handler)
  <2>1. <<Call("new_connection", "ok")>> \in Seq(Handler)
    BY CallType, SingleRange
  <2> QED
    BY <2>1, EmptyRange, ReadPostsType, CancelPostsType, ClosePostsType, ConnectPostsType,
       ConcatProperties DEF BaseTypeOK, NewConnectionPosts
\* A step that leaves the timer alone only has to keep the expiry queued.
<1>2. ASSUME UNCHANGED <<idle, idleOn>>, expiry \in Range(ready) => expiry \in Range(ready')
      PROVE  IdleWatch'
  BY <1>2 DEF IdleWatch
<1>3. CASE UNCHANGED vars
  BY <1>2, <1>3 DEF vars
<1>4. CASE UserStep
  <2>1. CASE Start
    BY <1>1, <1>2, <2>1, PostKeeps DEF Start, idleVars
  <2>2. CASE AsyncWrite
    BY <1>1, <1>2, <2>2, CallType, AppendRange DEF AsyncWrite, idleVars
  <2>3. CASE SetOnIdleTimeout
    BY <1>1, <1>2, <2>3, CallType, AppendRange DEF SetOnIdleTimeout, idleVars
  <2>4. CASE SyncWriteSend
    BY <1>2, <2>4 DEF SyncWriteSend, idleVars
  <2>5. CASE SyncWritePost
    <3>1. Call("sync_write", writer) \in Handler
      BY <2>5, CallType DEF SyncWritePost, BaseTypeOK
    <3> QED
      BY <1>1, <1>2, <2>5, <3>1, AppendRange DEF SyncWritePost, idleVars
  <2> QED
    BY <1>4, <2>1, <2>2, <2>3, <2>4, <2>5 DEF UserStep
<1>5. CASE Stop
  <2>1. CASE StopResetTimer
    BY <2>1 DEF StopResetTimer, IdleWatch
  <2>2. CASE StopCloseSocket
    BY <1>1, <1>2, <2>2, PostKeeps DEF StopCloseSocket, idleVars
  <2>3. CASE StopService \/ StopJoin
    BY <1>2, <2>3 DEF StopService, StopJoin, idleVars
  <2> QED
    BY <1>5, <2>1, <2>2, <2>3 DEF Stop
<1>6. CASE ThreadStep
  <2> USE DEF idleVars
  <2>1. CASE CreateIdleTimer
    BY <2>1 DEF CreateIdleTimer, IdleWatch, StartOrder
  <2>2. CASE EnterRun
    BY <1>2, <2>2 DEF EnterRun
  <2>3. CASE ProcessTerminate
    BY <1>1, <1>2, <2>3, PostKeeps DEF ProcessTerminate
  <2>4. CASE DelayEnds
    BY <1>1, <1>2, <2>4, PostKeeps DEF DelayEnds
  <2>5. \A fn, arg : fn # "idle" => Call(fn, arg) # expiry
    BY DEF Call
  <2>6. CASE connect_handler
    <3>1. (IF Async THEN ReadPosts ELSE <<>>) \in Seq(Handler)
      BY <1>1
    <3> QED
      BY <1>1, <1>2, <2>5, <2>6, <3>1, HandleKeeps DEF connect_handler, Connected, ConnectFailed
  <2>7. CASE new_connection_handler
    BY <1>1, <1>2, <2>5, <2>7, HandleKeeps DEF new_connection_handler
  <2>8. CASE read_handler
    BY <1>1, <1>2, <2>5, <2>8, HandleKeeps, DisconnectKeeps DEF read_handler, ReadDone, ReadFailed
  <2>9. CASE async_write_handler
    BY <1>1, <1>2, <2>5, <2>9, HandleKeeps, DisconnectKeeps
    DEF async_write_handler, WriteSkipped, WriteDone, WriteFailed
  <2>10. CASE sync_write_handler
    BY <1>1, <1>2, <2>5, <2>10, HandleKeeps, DisconnectKeeps
    DEF sync_write_handler, SyncWriteDone, SyncWriteFailed
  <2>11. CASE set_idle_connection_timeout
    BY <1>1, <1>2, <2>5, <2>11, HandleKeeps DEF set_idle_connection_timeout, NullTimer, IdleWatch
  <2>12. CASE IdleIgnored
    <3>1. PICK arg \in {"ok", "err"} : (arg = "ok" => ~idleOn) /\ Handle("idle", arg, <<>>)
      BY <2>12 DEF IdleIgnored
    <3>2. UNCHANGED <<idle, idleOn>>
      BY <2>12 DEF IdleIgnored
    <3>3. CASE arg = "ok"
      BY <3>1, <3>2, <3>3 DEF IdleWatch
    <3>4. CASE arg = "err"
      <4>1. Call("idle", "err") # expiry
        BY DEF Call
      <4> QED
        BY <1>1, <1>2, <3>1, <3>2, <3>4, <4>1, HandleKeeps
    <3> QED
      BY <3>3, <3>4
  <2>13. CASE IdleKept \/ IdleClosed
    BY <2>13 DEF IdleKept, IdleClosed, IdleWatch
  <2>14. CASE NullTimer("idle", "ok")
    BY <2>14 DEF NullTimer, IdleWatch
  <2> QED
    BY <1>6, <2>1, <2>2, <2>3, <2>4, <2>6, <2>7, <2>8, <2>9, <2>10, <2>11, <2>12, <2>13, <2>14
    DEF ThreadStep, Run_io_service, idle_connection_handler
<1>7. CASE NetworkStep
  <2> USE DEF idleVars
  <2>1. CASE ConnectAccepted \/ ConnectRefused
    <3>1. PICK arg \in {"ok", "err"} : ready' = Append(ready, Call("connect", arg))
      BY <2>1 DEF ConnectAccepted, ConnectRefused
    <3>2. Call("connect", arg) \in Handler
      BY CallType
    <3>3. Range(ready) \subseteq Range(ready')
      BY <1>1, <3>1, <3>2, AppendRange
    <3> QED
      BY <1>2, <2>1, <3>3 DEF ConnectAccepted, ConnectRefused
  <2>2. CASE ReadArrives \/ ReadBreaks
    <3>1. PICK arg \in {"ok", "err"} : ready' = Append(ready, Call("read", arg))
      BY <2>2 DEF ReadArrives, ReadBreaks
    <3>2. Call("read", arg) \in Handler
      BY CallType
    <3>3. Range(ready) \subseteq Range(ready')
      BY <1>1, <3>1, <3>2, AppendRange
    <3> QED
      BY <1>2, <2>2, <3>3 DEF ReadArrives, ReadBreaks
  <2>3. CASE NetworkDrops
    BY <1>2, <2>3 DEF NetworkDrops
  <2>4. CASE IdleExpires
    BY <1>1, <2>4, CallType, AppendRange DEF IdleExpires, IdleWatch
  <2> QED
    BY <1>7, <2>1, <2>2, <2>3, <2>4 DEF NetworkStep
<1> QED
  BY <1>3, <1>4, <1>5, <1>6, <1>7 DEF Next, Done

-----------------------------------------------------------------------------
(* The chain of handlers *)

\* A disconnect of a reconnecting client starts the delay that ends in a connect.
LEMMA DisconnectCarries ==
    ASSUME BaseTypeOK, Reconnect, ConnectUnderWay \/ up,
           NEW fn, NEW arg, NEW posts \in Seq(Handler), fn # "connect",
           ProcessDisconnect(fn, arg, posts)
    PROVE  ConnectUnderWay'
<1>1. CASE up
  BY <1>1, ClientAssumption DEF ProcessDisconnect, ReconnectOrStop, ConnectUnderWay
<1>2. CASE ~up
  <2>1. ConnectUnderWay /\ io = "run" /\ sock' = sock
    BY <1>2 DEF ProcessDisconnect, Handle
  <2>2. Queued("connect") => Queued("connect")'
    BY DisconnectKeeps
  <2> QED
    BY <2>1, <2>2 DEF ConnectUnderWay
<1> QED
  BY <1>1, <1>2

LEMMA ChainStep ==
    TypeOK /\ StartOrder /\ ChainCarried /\ [Next]_vars => ChainCarried'
<1> SUFFICES ASSUME BaseTypeOK, StartOrder, ChainCarried, [Next]_vars,
                    Async, Reconnect, Serving'
             PROVE  (ConnectUnderWay \/ (up /\ ReadUnderWay))'
  BY DEF TypeOK, ChainCarried
<1> USE DEF idleVars, connVars, netVars, ownerVars
<1>1. /\ ready \in Seq(Handler) /\ <<>> \in Seq(Handler) /\ ReadPosts \in Seq(Handler)
      /\ CancelPosts \in Seq(Handler) /\ ClosePosts \in Seq(Handler)
      /\ ConnectPosts \in Seq(Handler) /\ NewConnectionPosts \in Seq(Handler)
  <2>1. <<Call("new_connection", "ok")>> \in Seq(Handler)
    BY CallType, SingleRange
  <2> QED
    BY <2>1, EmptyRange, ReadPostsType, CancelPostsType, ClosePostsType, ConnectPostsType,
       ConcatProperties DEF BaseTypeOK, NewConnectionPosts
<1>2. reads \in Nat
  BY DEF BaseTypeOK
\* A step that takes nothing from the chain keeps it.
<1>3. ASSUME Serving, UNCHANGED <<sock, reads, up>>, io # "delay",
             Queued("connect") => Queued("connect")', Queued("read") => Queued("read")'
      PROVE  (ConnectUnderWay \/ (up /\ ReadUnderWay))'
  BY <1>3 DEF ChainCarried, ConnectUnderWay, ReadUnderWay
<1>4. ASSUME Serving, UNCHANGED <<sock, reads, up, io>>,
             Queued("connect") => Queued("connect")', Queued("read") => Queued("read")'
      PROVE  (ConnectUnderWay \/ (up /\ ReadUnderWay))'
  BY <1>4 DEF ChainCarried, ConnectUnderWay, ReadUnderWay
<1>5. ASSUME NEW h \in Handler, Serving, UNCHANGED <<sock, reads, up, io>>,
             ready' = Append(ready, h)
      PROVE  (ConnectUnderWay \/ (up /\ ReadUnderWay))'
  <2>1. Range(ready) \subseteq Range(ready')
    BY <1>1, <1>5, AppendRange
  <2> QED
    BY <1>4, <1>5, <2>1 DEF Queued
<1>6. CASE UNCHANGED vars
  BY <1>4, <1>6 DEF vars, Serving, Queued
<1>7. CASE UserStep
  <2>1. CASE Start
    BY <2>1 DEF Start, StartOrder, AsyncConnect, ConnectUnderWay
  <2>2. CASE AsyncWrite
    BY <1>5, <2>2, CallType DEF AsyncWrite, Serving
  <2>3. CASE SetOnIdleTimeout
    <3>1. PICK arg \in {"ok", "err"} : ready' = Append(ready, Call("set_idle", arg))
      BY <2>3 DEF SetOnIdleTimeout
    <3> QED
      BY <1>5, <2>3, <3>1, CallType DEF SetOnIdleTimeout, Serving
  <2>4. CASE SyncWriteSend
    BY <1>4, <2>4 DEF SyncWriteSend, Serving, Queued
  <2>5. CASE SyncWritePost
    <3>1. Call("sync_write", writer) \in Handler
      BY <2>5, CallType DEF SyncWritePost, BaseTypeOK
    <3> QED
      BY <1>5, <2>5, <3>1 DEF SyncWritePost, Serving
  <2> QED
    BY <1>7, <2>1, <2>2, <2>3, <2>4, <2>5 DEF UserStep
<1>8. CASE Stop
  BY <1>8 DEF Stop, StopResetTimer, StopCloseSocket, StopService, StopJoin, Serving
<1>9. CASE ThreadStep
  <2>1. CASE CreateIdleTimer \/ EnterRun
    BY <1>3, <2>1 DEF CreateIdleTimer, EnterRun, Serving, Queued
  <2>2. CASE ProcessTerminate
    BY <2>2 DEF ProcessTerminate, Serving
  <2>3. CASE DelayEnds
    <3>1. CASE sock \in {"closed", "open"}
      BY <2>3, <3>1 DEF DelayEnds, AsyncConnect, ConnectUnderWay
    <3>2. CASE sock \notin {"closed", "open"}
      BY <1>1, <2>3, <3>2, ConnectPostsType, PostKeeps DEF DelayEnds, ConnectUnderWay
    <3> QED
      BY <3>1, <3>2
  <2>4. CASE Connected
    <3>1. PICK arg \in {"ok", "isconn"} : Handle("connect", arg, ReadPosts)
      BY <2>4 DEF Connected
    <3>2. up' /\ reads' = IF CanRead THEN reads + 1 ELSE reads
      BY <2>4 DEF Connected, BeginRead
    <3>3. CASE CanRead
      BY <1>2, <3>2, <3>3 DEF ReadUnderWay
    <3>4. CASE ~CanRead
      <4>1. Call("read", "err") \in Range(ReadPosts) /\ Call("read", "err").fn = "read"
        BY <3>4, ReadPostsType DEF Call
      <4>2. Queued("read")'
        BY <1>1, <3>1, <4>1, HandleKeeps
      <4> QED
        BY <3>2, <4>2 DEF ReadUnderWay
    <3> QED
      BY <3>3, <3>4
  <2>5. CASE ConnectFailed
    BY <2>5 DEF ConnectFailed, ConnectUnderWay
  <2>6. CASE new_connection_handler
    <3>1. \A g : g # "new_connection" /\ Queued(g) => Queued(g)'
      BY <1>1, <2>6, HandleKeeps DEF new_connection_handler
    <3> QED
      BY <1>4, <2>6, <3>1 DEF new_connection_handler, Serving
  <2>7. CASE ReadDone
    <3>1. Handle("read", "ok", ReadPosts) /\ up'
      BY <2>7 DEF ReadDone
    <3>2. CASE CanRead
      BY <1>2, <2>7, <3>1, <3>2 DEF ReadDone, BeginRead, ReadUnderWay
    <3>3. CASE ~CanRead
      <4>1. Call("read", "err") \in Range(ReadPosts) /\ Call("read", "err").fn = "read"
        BY <3>3, ReadPostsType DEF Call
      <4>2. Queued("read")'
        BY <1>1, <3>1, <4>1, HandleKeeps
      <4> QED
        BY <3>1, <4>2 DEF ReadUnderWay
    <3> QED
      BY <3>2, <3>3
  <2>8. ASSUME Serving PROVE ConnectUnderWay \/ up
    BY <2>8 DEF ChainCarried
  <2>9. CASE ReadFailed
    BY <1>1, <2>8, <2>9, DisconnectCarries, DisconnectRuns DEF ReadFailed, Serving
  <2>10. CASE WriteSkipped \/ WriteDone
    <3>1. Handle("async_write", "ok", <<>>)
      BY <2>10 DEF WriteSkipped, WriteDone
    <3>2. \A g : g # "async_write" /\ Queued(g) => Queued(g)'
      BY <1>1, <3>1, HandleKeeps
    <3> QED
      BY <1>4, <2>10, <3>2 DEF WriteSkipped, WriteDone, Serving
  <2>11. CASE WriteFailed
    BY <1>1, <2>8, <2>11, DisconnectCarries, DisconnectRuns DEF WriteFailed, Serving
  <2>12. CASE SyncWriteDone
    <3>1. \A g : g # "sync_write" /\ Queued(g) => Queued(g)'
      BY <1>1, <2>12, HandleKeeps DEF SyncWriteDone
    <3> QED
      BY <2>12, <3>1
      DEF SyncWriteDone, Serving, ChainCarried, ConnectUnderWay, ReadUnderWay
  <2>13. CASE SyncWriteFailed
    BY <1>1, <2>8, <2>13, DisconnectCarries, DisconnectRuns DEF SyncWriteFailed, Serving
  <2>14. CASE set_idle_connection_timeout
    <3>1. \A g : g # "set_idle" /\ Queued(g) => Queued(g)'
      BY <1>1, <2>14, HandleKeeps DEF set_idle_connection_timeout, NullTimer
    <3> QED
      BY <1>3, <2>14, <3>1 DEF set_idle_connection_timeout, NullTimer, Serving, Handle
  <2>15. CASE IdleIgnored \/ IdleKept
    <3>1. \A g : g # "idle" /\ Queued(g) => Queued(g)'
      BY <1>1, <2>15, HandleKeeps DEF IdleIgnored, IdleKept
    <3> QED
      BY <1>4, <2>15, <3>1 DEF IdleIgnored, IdleKept, Serving
  <2>16. CASE IdleClosed
    BY <1>1, <2>8, <2>16, DisconnectCarries, DisconnectRuns DEF IdleClosed, Serving
  <2>17. CASE NullTimer("idle", "ok")
    BY <2>17 DEF NullTimer, Serving
  <2> QED
    BY <1>9, <2>1, <2>2, <2>3, <2>4, <2>5, <2>6, <2>7, <2>9, <2>10, <2>11, <2>12, <2>13,
       <2>14, <2>15, <2>16, <2>17
    DEF ThreadStep, Run_io_service, read_handler, async_write_handler, sync_write_handler,
        idle_connection_handler, connect_handler
<1>10. CASE NetworkStep
  <2>1. CASE ConnectAccepted \/ ConnectRefused
    <3>1. PICK arg \in {"ok", "err"} : ready' = Append(ready, Call("connect", arg))
      BY <2>1 DEF ConnectAccepted, ConnectRefused
    <3>2. Call("connect", arg) \in Range(ready') /\ Call("connect", arg).fn = "connect"
      BY <1>1, <3>1, CallType, AppendRange DEF Call
    <3> QED
      BY <3>2 DEF ConnectUnderWay, Queued
  <2>2. CASE ReadArrives \/ ReadBreaks
    <3>1. PICK arg \in {"ok", "err"} : ready' = Append(ready, Call("read", arg))
      BY <2>2 DEF ReadArrives, ReadBreaks
    <3>2. Call("read", arg) \in Handler /\ Call("read", arg).fn = "read"
      BY CallType DEF Call
    <3>3. Range(ready') = Range(ready) \cup {Call("read", arg)}
      BY <1>1, <3>1, <3>2, AppendRange
    <3>4. Queued("read")' /\ (Queued("connect") => Queued("connect")')
      BY <3>2, <3>3 DEF Queued
    <3> QED
      BY <2>2, <3>4
      DEF ReadArrives, ReadBreaks, Serving, ChainCarried, ConnectUnderWay, ReadUnderWay
  <2>3. CASE NetworkDrops
    BY <2>3 DEF NetworkDrops, Serving, ChainCarried, ConnectUnderWay, ReadUnderWay, Queued
  <2>4. CASE IdleExpires
    BY <1>5, <2>4, CallType DEF IdleExpires, Serving
  <2> QED
    BY <1>10, <2>1, <2>2, <2>3, <2>4 DEF NetworkStep
<1> QED
  BY <1>6, <1>7, <1>8, <1>9, <1>10 DEF Next, Done

-----------------------------------------------------------------------------
(* The theorems *)

LEMMA InvStep == IInv /\ [Next]_vars => IInv'
BY TypeStep, StartOrderStep, ReleasedStep, WatchStep, ChainStep DEF IInv

\* In every behaviour of the connection the strengthened invariant holds.
THEOREM Inductive == Spec => []IInv
<1>1. Init => IInv
  BY InitInv
<1>2. IInv /\ [Next]_vars => IInv'
  BY InvStep
<1> QED
  BY <1>1, <1>2, PTL DEF Spec

\* The variables of BasicConnection and ClientConnection keep their types.
THEOREM TypeCorrect == Spec => []TypeOK
<1>1. IInv => TypeOK
  BY DEF IInv
<1> QED
  BY <1>1, Inductive, PTL

\* An ASYNC connection that reconnects never goes deaf: its read_handler,
\* connect_handler and ProcessDisconnect always leave a read or a connect under
\* way, for any number of calls, failures and overlapping connects.
THEOREM NeverGoesDeaf == Spec => []NeverDeaf
<1>1. IInv => NeverDeaf
  BY DEF IInv, ChainCarried, NeverDeaf
<1> QED
  BY <1>1, Inductive, PTL

\* When Run_io_service has ended the socket is closed and stays closed.
THEOREM SocketIsReleased == Spec => []SocketReleased
<1>1. IInv => SocketReleased
  BY DEF IInv
<1> QED
  BY <1>1, Inductive, PTL

\* The idle timer is armed exactly while the timeout is on: no expiry and no
\* cancelled wait loses it, and none survives switching it off.
THEOREM IdleIsWatched == Spec => []IdleWatch
<1>1. IInv => IdleWatch
  BY DEF IInv
<1> QED
  BY <1>1, Inductive, PTL
=============================================================================
