----------------------- MODULE ClientLifecycleProofs -----------------------
(***************************************************************************)
(* The order of a client's callbacks, for every value of its constants:    *)
(* where OnNewConnection is in the queue, how far Stop() is, that the      *)
(* callbacks come in the promised order, and that every step of a          *)
(* connection whose user keeps a work object is a step of its lifecycle.   *)
(***************************************************************************)
EXTENDS ClientConnectionProofs

-----------------------------------------------------------------------------
(* Queues of handlers *)

NoNew(s) == \A i \in 1..Len(s) : ~IsNew(s[i])
NoTells(s) == \A i \in 1..Len(s) : ~Tells(s[i])

LEMMA RangeNew ==
    ASSUME NEW s \in Seq(Handler)
    PROVE  (\E h \in Range(s) : h.fn = "new_connection") <=> ~NoNew(s)
<1>1. Range(s) = {s[i] : i \in 1..Len(s)}
  BY RangeEquality
<1> QED
  BY <1>1 DEF NoNew, IsNew

LEMMA QueuedNew ==
    /\ ready \in Seq(Handler) => (Queued("new_connection") <=> ~NoNew(ready))
    /\ ready' \in Seq(Handler) => (Queued("new_connection")' <=> ~NoNew(ready'))
BY RangeNew DEF Queued

LEMMA ConcatOrder ==
    ASSUME NEW s \in Seq(Handler), NEW t \in Seq(Handler)
    PROVE  /\ NoNew(s \o t) <=> NoNew(s) /\ NoNew(t)
           /\ NoTells(s \o t) <=> NoTells(s) /\ NoTells(t)
           /\ Led(s) /\ (NoTells(t) \/ ~NoNew(s)) => Led(s \o t)
           /\ AtMostOneNew(s) /\ NoNew(t) => AtMostOneNew(s \o t)
           /\ AtMostOneNew(t) /\ NoNew(s) => AtMostOneNew(s \o t)
<1>1. /\ Len(s) \in Nat /\ Len(t) \in Nat /\ Len(s \o t) = Len(s) + Len(t)
      /\ \A i \in 1..Len(s) : i \in 1..Len(s \o t) /\ (s \o t)[i] = s[i]
      /\ \A i \in 1..Len(t) : Len(s) + i \in 1..Len(s \o t) /\ (s \o t)[Len(s) + i] = t[i]
  OBVIOUS
<1>2. \A i \in 1..Len(s \o t) : i \in 1..Len(s) \/ \E k \in 1..Len(t) : i = Len(s) + k
  <2> TAKE i \in 1..Len(s \o t)
  <2>1. CASE i > Len(s)
    <3>1. i - Len(s) \in 1..Len(t) /\ i = Len(s) + (i - Len(s))
      BY <1>1, <2>1
    <3> QED
      BY <3>1
  <2>2. CASE ~(i > Len(s))
    BY <1>1, <2>2
  <2> QED
    BY <2>1, <2>2
<1>3. NoNew(s \o t) <=> NoNew(s) /\ NoNew(t)
  BY <1>1, <1>2 DEF NoNew
<1>4. NoTells(s \o t) <=> NoTells(s) /\ NoTells(t)
  BY <1>1, <1>2 DEF NoTells
<1>5. ASSUME Led(s), NoTells(t) \/ ~NoNew(s) PROVE Led(s \o t)
  <2> SUFFICES ASSUME NEW i \in 1..Len(s \o t), Tells((s \o t)[i])
               PROVE  \E j \in 1..(i - 1) : IsNew((s \o t)[j])
    BY DEF Led
  <2>1. CASE i \in 1..Len(s)
    <3>1. PICK j \in 1..(i - 1) : IsNew(s[j])
      BY <1>1, <1>5, <2>1 DEF Led
    <3>2. j \in 1..Len(s)
      BY <1>1, <2>1, <3>1
    <3> QED
      BY <1>1, <3>1, <3>2
  <2>2. CASE i \notin 1..Len(s)
    <3>1. PICK k \in 1..Len(t) : i = Len(s) + k
      BY <1>2, <2>2
    <3>2. ~NoTells(t)
      BY <1>1, <3>1 DEF NoTells
    <3>3. PICK j \in 1..Len(s) : IsNew(s[j])
      BY <1>5, <3>2 DEF NoNew
    <3>4. j \in 1..(i - 1) /\ (s \o t)[j] = s[j]
      BY <1>1, <3>1, <3>3
    <3> QED
      BY <3>3, <3>4
  <2> QED
    BY <2>1, <2>2
<1>6. ASSUME AtMostOneNew(s), NoNew(t) PROVE AtMostOneNew(s \o t)
  BY <1>1, <1>2, <1>6 DEF AtMostOneNew, NoNew
<1>7. ASSUME AtMostOneNew(t), NoNew(s) PROVE AtMostOneNew(s \o t)
  <2> SUFFICES ASSUME NEW i \in 1..Len(s \o t), NEW j \in 1..Len(s \o t),
                      IsNew((s \o t)[i]), IsNew((s \o t)[j])
               PROVE  i = j
    BY DEF AtMostOneNew
  <2>1. PICK k \in 1..Len(t) : i = Len(s) + k
    BY <1>1, <1>2, <1>7 DEF NoNew
  <2>2. PICK l \in 1..Len(t) : j = Len(s) + l
    BY <1>1, <1>2, <1>7 DEF NoNew
  <2>3. k = l
    BY <1>1, <1>7, <2>1, <2>2 DEF AtMostOneNew
  <2> QED
    BY <2>1, <2>2, <2>3
<1> QED
  BY <1>3, <1>4, <1>5, <1>6, <1>7

\* Taking the head keeps the order, and OnNewConnection is the last of its kind.
LEMMA TailOrder ==
    ASSUME NEW s \in Seq(Handler), s # <<>>
    PROVE  /\ Tail(s) \in Seq(Handler)
           /\ Led(s) => ~Tells(Head(s))
           /\ Led(s) /\ ~IsNew(Head(s)) => Led(Tail(s))
           /\ AtMostOneNew(s) => AtMostOneNew(Tail(s))
           /\ AtMostOneNew(s) /\ IsNew(Head(s)) => NoNew(Tail(s))
           /\ ~IsNew(Head(s)) => (NoNew(s) <=> NoNew(Tail(s)))
<1>1. /\ Tail(s) \in Seq(Handler) /\ Len(s) \in Nat \ {0} /\ Len(Tail(s)) = Len(s) - 1
      /\ Head(s) = s[1] /\ 1 \in 1..Len(s)
      /\ \A i \in 1..Len(Tail(s)) : i + 1 \in 1..Len(s) /\ Tail(s)[i] = s[i + 1]
  OBVIOUS
<1>2. \A i \in 1..Len(s) : i = 1 \/ \E k \in 1..Len(Tail(s)) : i = k + 1
  <2> TAKE i \in 1..Len(s)
  <2>1. CASE i > 1
    <3>1. i - 1 \in 1..Len(Tail(s)) /\ i = (i - 1) + 1
      BY <1>1, <2>1
    <3> QED
      BY <3>1
  <2> QED
    BY <1>1, <2>1
<1>3. Led(s) => ~Tells(Head(s))
  BY <1>1 DEF Led
<1>4. ASSUME Led(s), ~IsNew(Head(s)) PROVE Led(Tail(s))
  <2> SUFFICES ASSUME NEW i \in 1..Len(Tail(s)), Tells(Tail(s)[i])
               PROVE  \E j \in 1..(i - 1) : IsNew(Tail(s)[j])
    BY DEF Led
  <2>1. PICK j \in 1..i : IsNew(s[j])
    BY <1>1, <1>4 DEF Led
  <2>2. j - 1 \in 1..(i - 1) /\ j - 1 \in 1..Len(Tail(s)) /\ (j - 1) + 1 = j
    BY <1>1, <1>4, <2>1
  <2> QED
    BY <1>1, <2>1, <2>2
<1>5. AtMostOneNew(s) => AtMostOneNew(Tail(s))
  BY <1>1 DEF AtMostOneNew
<1>6. AtMostOneNew(s) /\ IsNew(Head(s)) => NoNew(Tail(s))
  BY <1>1 DEF AtMostOneNew, NoNew
<1>7. ~IsNew(Head(s)) => (NoNew(s) <=> NoNew(Tail(s)))
  BY <1>1, <1>2 DEF NoNew
<1> QED
  BY <1>1, <1>3, <1>4, <1>5, <1>6, <1>7

-----------------------------------------------------------------------------
(* What operations on the socket and the timer post *)

LEMMA CallKinds ==
    /\ \A fn, arg : IsNew(Call(fn, arg)) <=> fn = "new_connection"
    /\ \A arg : Tells(Call("connect", arg)) /\ Tells(Call("read", arg))
    /\ Tells(Call("sync_write", "ok")) /\ ~Tells(Call("sync_write", "err"))
    /\ \A arg : \A fn \in {"new_connection", "async_write", "set_idle", "idle"} :
         ~Tells(Call(fn, arg))
BY DEF IsNew, Tells, Call

LEMMA SingleKinds ==
    ASSUME NEW h
    PROVE  /\ NoNew(<<h>>) <=> ~IsNew(h)
           /\ NoTells(<<h>>) <=> ~Tells(h)
           /\ AtMostOneNew(<<h>>)
           /\ NoNew(<<>>) /\ NoTells(<<>>)
<1>1. Len(<<h>>) = 1 /\ <<h>>[1] = h /\ Len(<<>>) = 0
  OBVIOUS
<1> QED
  BY <1>1 DEF NoNew, NoTells, AtMostOneNew

LEMMA PostsKinds ==
    ASSUME reads \in Nat
    PROVE  /\ NoNew(<<>>) /\ NoTells(<<>>)
           /\ NoNew(ReadPosts)
           /\ NoNew(CancelPosts) /\ NoTells(CancelPosts)
           /\ NoNew(ConnectPosts)
           /\ NoNew(ClosePosts)
           /\ reads = 0 /\ sock # "connecting" => NoTells(ClosePosts)
<1>1. NoNew(<<>>) /\ NoTells(<<>>)
  BY SingleKinds
<1>2. NoNew(ReadPosts) /\ NoNew(CancelPosts) /\ NoTells(CancelPosts) /\ NoNew(ConnectPosts)
  BY <1>1, SingleKinds, CallKinds DEF ReadPosts, CancelPosts, ConnectPosts
<1> DEFINE aborted == [i \in 1..reads |-> Call("read", "err")]
           refused == IF sock = "connecting" THEN <<Call("connect", "err")>> ELSE <<>>
<1>3. aborted \in Seq(Handler) /\ refused \in Seq(Handler)
  <2>1. aborted \in [1..reads -> Handler]
    BY CallType
  <2>2. aborted \in Seq(Handler)
    BY <2>1, SeqDef
  <2> QED
    BY <2>2, CallType, SingleRange, EmptyRange
<1>4. NoNew(aborted) /\ (reads = 0 => NoTells(aborted))
  <2>1. Len(aborted) = reads
    OBVIOUS
  <2> QED
    BY <2>1, CallKinds DEF NoNew, NoTells
<1>5. NoNew(refused) /\ (sock # "connecting" => NoTells(refused))
  BY <1>1, SingleKinds, CallKinds
<1>6. NoNew(ClosePosts) /\ (reads = 0 /\ sock # "connecting" => NoTells(ClosePosts))
  BY <1>3, <1>4, <1>5, ConcatOrder DEF ClosePosts
<1> QED
  BY <1>1, <1>2, <1>6

-----------------------------------------------------------------------------
(* How a step may change the queue and keep TellOrder *)

\* What else a step must respect before OnNewConnection.
Quiet ==
    /\ told' = told /\ (owner' = "new" => owner = "new")
    /\ told = "nothing" =>
         /\ ~up' /\ reads' = 0
         /\ writer' = "ok" \/ sock' \in {"connecting", "connected", "dropped"} =>
              Queued("new_connection")

LEMMA PostOrder ==
    ASSUME BaseTypeOK, TellOrder, Quiet,
           NEW t \in Seq(Handler), NoNew(t), ready' = ready \o t,
           told = "nothing" => NoTells(t) \/ Queued("new_connection")
    PROVE  TellOrder'
<1>1. ready \in Seq(Handler) /\ ready' \in Seq(Handler)
  BY ConcatRange DEF BaseTypeOK
<1>2. Queued("new_connection") <=> Queued("new_connection")'
  BY <1>1, QueuedNew, ConcatOrder
<1>3. AtMostOneNew(ready')
  BY <1>1, ConcatOrder DEF TellOrder
<1>4. told = "nothing" => Led(ready')
  BY <1>1, QueuedNew, ConcatOrder DEF TellOrder
<1> QED
  BY <1>2, <1>3, <1>4 DEF TellOrder, Quiet

LEMMA AppendOrder ==
    ASSUME BaseTypeOK, TellOrder, Quiet,
           NEW h \in Handler, ~IsNew(h), ready' = Append(ready, h),
           told = "nothing" => ~Tells(h) \/ Queued("new_connection")
    PROVE  TellOrder'
<1>1. ready' = ready \o <<h>>
  BY AppendIsConcat DEF BaseTypeOK
<1> QED
  BY <1>1, SingleRange, SingleKinds, PostOrder

LEMMA SameOrder == ASSUME BaseTypeOK, TellOrder, Quiet, ready' = ready PROVE TellOrder'
<1>1. (Queued("new_connection") <=> Queued("new_connection")')
  BY DEF Queued
<1> QED
  BY <1>1 DEF TellOrder, Quiet

\* A handler other than new_connection_handler.
LEMMA HandleOrder ==
    ASSUME BaseTypeOK, TellOrder, StartOrder,
           NEW fn, NEW arg, NEW posts \in Seq(Handler), fn # "new_connection",
           Handle(fn, arg, posts), NoNew(posts),
           owner' = owner,
           \/ Quiet /\ (told = "nothing" => NoTells(posts) \/ Queued("new_connection"))
           \/ told # "nothing" /\ told' \in {"connected", "disconnected"} /\ told # "terminated"
    PROVE  TellOrder'
<1>1. /\ ready \in Seq(Handler) /\ ready # <<>> /\ Head(ready) = Call(fn, arg)
      /\ ready' = Tail(ready) \o posts /\ io = "run"
  BY DEF Handle, BaseTypeOK
<1>2. ~IsNew(Head(ready))
  BY <1>1, CallKinds
<1>3. /\ Tail(ready) \in Seq(Handler) /\ (NoNew(ready) <=> NoNew(Tail(ready)))
      /\ AtMostOneNew(Tail(ready)) /\ (Led(ready) => Led(Tail(ready)))
  BY <1>1, <1>2, TailOrder DEF TellOrder
<1>4. ready' \in Seq(Handler)
  BY <1>1, <1>3, ConcatRange
<1>5. AtMostOneNew(ready') /\ (NoNew(ready') <=> NoNew(ready))
  BY <1>1, <1>3, ConcatOrder
<1>6. Queued("new_connection") <=> Queued("new_connection")'
  BY <1>1, <1>4, <1>5, QueuedNew
<1>7. told = "nothing" /\ Quiet => Led(ready')
  BY <1>1, <1>3, QueuedNew, ConcatOrder DEF TellOrder, Quiet
<1>8. owner # "new"
  BY <1>1 DEF StartOrder
<1>9. told \in {"nothing", "new", "connected", "disconnected", "terminated"}
  BY DEF BaseTypeOK
<1> QED
  BY <1>5, <1>6, <1>7, <1>8, <1>9 DEF TellOrder, Quiet

\* While nothing was told, a handler that tells is not the next to run.
LEMMA HeadSilent ==
    ASSUME BaseTypeOK, TellOrder, NEW fn, NEW arg, NEW posts, Handle(fn, arg, posts),
           Tells(Call(fn, arg))
    PROVE  told # "nothing"
BY TailOrder DEF BaseTypeOK, TellOrder, Handle

-----------------------------------------------------------------------------
(* How far Stop() is *)

LEMMA StopOrderStep ==
    BaseTypeOK /\ StartOrder /\ StopOrder /\ TellOrder /\ [Next]_vars => StopOrder'
<1> SUFFICES ASSUME BaseTypeOK, StartOrder, StopOrder, TellOrder, [Next]_vars
             PROVE  StopOrder'
  OBVIOUS
<1> USE ClientAssumption DEF connVars, idleVars, netVars, ownerVars
\* A handler runs on a thread that Stop() has not stopped, and leaves it running.
<1>1. ASSUME UNCHANGED <<owner, stopped, idle>>, io = "run", io' \in {"run", "delay"},
             told' \in {"new", "connected", "disconnected"} \/ told' = told,
             io' = "delay" => told' # "nothing"
      PROVE  StopOrder'
  BY <1>1 DEF StopOrder
<1>2. ASSUME NEW fn, NEW arg, NEW posts, ProcessDisconnect(fn, arg, posts), owner' = owner,
             idle' \in {idle, "waiting"}
      PROVE  StopOrder'
  <2>1. io = "run" /\ ~stopped
    BY <1>2 DEF ProcessDisconnect, Handle
  <2>2. \/ UNCHANGED <<io, stopped, told>>
        \/ io' \in {io, "delay"} /\ stopped' = FALSE /\ told' = "disconnected"
    <3>1. Role # "server"
      OBVIOUS
    <3>2. ASSUME ReconnectOrStop PROVE io' \in {io, "delay"} /\ stopped' = FALSE
      BY <2>1, <3>1, <3>2 DEF ReconnectOrStop
    <3> QED
      BY <1>2, <3>2 DEF ProcessDisconnect
  <2> QED
    BY <1>2, <2>1, <2>2 DEF StopOrder
<1>3. CASE UNCHANGED vars
  BY <1>3 DEF vars, StopOrder
<1>4. CASE UserStep
  <2>1. CASE Start
    BY <2>1 DEF Start, StartOrder, StopOrder, TellOrder
  <2>2. CASE AsyncWrite \/ SetOnIdleTimeout \/ SyncWriteSend \/ SyncWritePost
    BY <2>2 DEF AsyncWrite, SetOnIdleTimeout, SyncWriteSend, SyncWritePost, StopOrder
  <2> QED
    BY <1>4, <2>1, <2>2 DEF UserStep
<1>5. CASE Stop
  BY <1>5 DEF Stop, StopResetTimer, StopCloseSocket, StopService, StopJoin, StopOrder
<1>6. CASE ThreadStep
  <2>1. CASE connect_handler
    BY <1>1, <2>1 DEF connect_handler, Connected, ConnectFailed, Handle
  <2>2. CASE DelayEnds
    BY <2>2 DEF DelayEnds, StopOrder
  <2>3. CASE CreateIdleTimer \/ EnterRun \/ ProcessTerminate
    BY <2>3 DEF CreateIdleTimer, EnterRun, ProcessTerminate, StopOrder
  <2>4. CASE new_connection_handler
    BY <1>1, <2>4 DEF new_connection_handler, Handle
  <2>5. CASE ReadDone \/ WriteSkipped \/ WriteDone \/ SyncWriteDone \/ IdleIgnored
    BY <1>1, <2>5 DEF ReadDone, WriteSkipped, WriteDone, SyncWriteDone, IdleIgnored, Handle
  <2>6. CASE ReadFailed \/ WriteFailed \/ SyncWriteFailed \/ IdleClosed
    BY <1>2, <2>6 DEF ReadFailed, WriteFailed, SyncWriteFailed, IdleClosed
  <2>7. CASE set_idle_connection_timeout \/ IdleKept \/ NullTimer("idle", "ok")
    BY <2>7 DEF set_idle_connection_timeout, IdleKept, NullTimer, Handle, StopOrder
  <2> QED
    BY <1>6, <2>1, <2>2, <2>3, <2>4, <2>5, <2>6, <2>7
    DEF ThreadStep, Run_io_service, read_handler, async_write_handler, sync_write_handler,
        idle_connection_handler
<1>7. CASE NetworkStep
  BY <1>7 DEF NetworkStep, ConnectAccepted, ConnectRefused, ReadArrives, ReadBreaks,
     NetworkDrops, IdleExpires, StopOrder
<1> QED
  BY <1>3, <1>4, <1>5, <1>6, <1>7 DEF Next, Done

-----------------------------------------------------------------------------
(* Where OnNewConnection is *)

\* ProcessDisconnect tells nothing before OnNewConnection: nothing is up yet.
LEMMA DisconnectOrder ==
    ASSUME BaseTypeOK, StartOrder, StopOrder, TellOrder,
           NEW fn, NEW arg, NEW posts \in Seq(Handler), fn # "new_connection",
           ProcessDisconnect(fn, arg, posts), NoNew(posts), NoTells(posts),
           UNCHANGED <<owner, writer>>
    PROVE  TellOrder'
<1>1. NoNew(ClosePosts) /\ ClosePosts \in Seq(Handler)
  BY PostsKinds, ClosePostsType DEF BaseTypeOK
<1>2. CASE up
  <2>1. told # "nothing"
    BY <1>2 DEF TellOrder
  <2>2. told # "terminated"
    BY DEF ProcessDisconnect, Handle, StopOrder
  <2>3. posts \o ClosePosts \in Seq(Handler) /\ NoNew(posts \o ClosePosts)
    BY <1>1, ConcatOrder, ConcatRange
  <2> QED
    BY <1>2, <2>1, <2>2, <2>3, HandleOrder DEF ProcessDisconnect
<1>3. CASE ~up
  <2>1. Handle(fn, arg, posts) /\ UNCHANGED <<sock, reads, up, told>>
    BY <1>3 DEF ProcessDisconnect
  <2>2. Quiet
    BY <1>3, <2>1 DEF Quiet, TellOrder
  <2> QED
    BY <2>1, <2>2, HandleOrder
<1> QED
  BY <1>2, <1>3

LEMMA TellOrderStep ==
    BaseTypeOK /\ StartOrder /\ StopOrder /\ TellOrder /\ [Next]_vars => TellOrder'
<1> SUFFICES ASSUME BaseTypeOK, StartOrder, StopOrder, TellOrder, [Next]_vars
             PROVE  TellOrder'
  OBVIOUS
<1> USE DEF connVars, idleVars, netVars, ownerVars
<1>1. /\ ready \in Seq(Handler) /\ <<>> \in Seq(Handler) /\ ReadPosts \in Seq(Handler)
      /\ CancelPosts \in Seq(Handler) /\ ClosePosts \in Seq(Handler)
      /\ ConnectPosts \in Seq(Handler) /\ reads \in Nat
  BY EmptyRange, ReadPostsType, CancelPostsType, ClosePostsType, ConnectPostsType
  DEF BaseTypeOK
<1>2. /\ NoNew(<<>>) /\ NoTells(<<>>) /\ NoNew(ReadPosts)
      /\ NoNew(CancelPosts) /\ NoTells(CancelPosts)
      /\ NoNew(ConnectPosts) /\ NoNew(ClosePosts)
      /\ reads = 0 /\ sock # "connecting" => NoTells(ClosePosts)
  BY <1>1, PostsKinds
<1>3. CASE UNCHANGED vars
  BY <1>3, SameOrder DEF vars, Quiet, TellOrder
<1>4. CASE UserStep
  <2>1. CASE Start
    <3> DEFINE h == Call("new_connection", "ok")
    <3>1. h \in Handler /\ IsNew(h) /\ ~Tells(h)
      BY CallType, CallKinds
    <3>2. /\ <<h>> \in Seq(Handler) /\ AtMostOneNew(<<h>>) /\ NoTells(<<h>>)
          /\ ~NoNew(<<h>>)
      BY <3>1, SingleRange, SingleKinds
    <3>3. NoNew(ready) /\ told = "nothing" /\ ~up /\ reads = 0 /\ Led(ready)
      BY <1>1, <2>1, QueuedNew DEF Start, TellOrder, StartOrder, StopOrder
    <3> DEFINE s == ready \o <<h>>
    <3>4. s \in Seq(Handler) /\ AtMostOneNew(s) /\ Led(s) /\ ~NoNew(s)
      BY <1>1, <3>2, <3>3, ConcatRange, ConcatOrder DEF TellOrder
    <3>5. ready' = s \o ConnectPosts
      <4>1. \A a, b, c \in Seq(Handler) : a \o (b \o c) = (a \o b) \o c
        BY ConcatAssociative
      <4> QED
        BY <1>1, <2>1, <3>2, <4>1 DEF Start, NewConnectionPosts
    <3>6. ready' \in Seq(Handler) /\ AtMostOneNew(ready') /\ Led(ready') /\ ~NoNew(ready')
      BY <1>1, <1>2, <3>4, <3>5, ConcatRange, ConcatOrder
    <3>7. Queued("new_connection")'
      BY <3>6, QueuedNew
    <3> QED
      BY <2>1, <3>3, <3>6, <3>7 DEF Start, TellOrder
  <2>2. CASE AsyncWrite
    <3>1. Quiet
      BY <2>2 DEF AsyncWrite, Quiet, TellOrder
    <3> QED
      BY <2>2, <3>1, CallType, CallKinds, AppendOrder DEF AsyncWrite
  <2>3. CASE SetOnIdleTimeout
    <3>1. Quiet
      BY <2>3 DEF SetOnIdleTimeout, Quiet, TellOrder
    <3>2. PICK arg \in {"ok", "err"} : ready' = Append(ready, Call("set_idle", arg))
      BY <2>3 DEF SetOnIdleTimeout
    <3> QED
      BY <3>1, <3>2, CallType, CallKinds, AppendOrder
  <2>4. CASE SyncWriteSend
    <3>1. Quiet
      BY <2>4 DEF SyncWriteSend, Quiet, TellOrder
    <3> QED
      BY <2>4, <3>1, SameOrder DEF SyncWriteSend
  <2>5. CASE SyncWritePost
    <3>1. Quiet
      BY <2>5 DEF SyncWritePost, Quiet, TellOrder
    <3>2. writer \in {"ok", "err"} /\ ready' = Append(ready, Call("sync_write", writer))
      BY <2>5 DEF SyncWritePost, BaseTypeOK
    <3>3. told = "nothing" => ~Tells(Call("sync_write", writer)) \/ Queued("new_connection")
      BY <3>2, CallKinds DEF TellOrder
    <3> QED
      BY <3>1, <3>2, <3>3, CallType, CallKinds, AppendOrder
  <2> QED
    BY <1>4, <2>1, <2>2, <2>3, <2>4, <2>5 DEF UserStep
<1>5. CASE Stop
  <2>1. CASE StopResetTimer
    <3>1. Quiet
      BY <2>1 DEF StopResetTimer, Quiet, TellOrder
    <3> QED
      BY <1>1, <1>2, <2>1, <3>1, PostOrder DEF StopResetTimer
  <2>2. CASE StopCloseSocket
    <3>1. Quiet
      BY <2>2 DEF StopCloseSocket, CloseSocket, Quiet, TellOrder
    <3>2. told = "nothing" => NoTells(ClosePosts) \/ Queued("new_connection")
      BY <1>2 DEF TellOrder
    <3> QED
      BY <1>1, <1>2, <2>2, <3>1, <3>2, PostOrder DEF StopCloseSocket
  <2>3. CASE StopService \/ StopJoin
    <3>1. Quiet /\ ready' = ready
      BY <2>3 DEF StopService, StopJoin, Quiet, TellOrder
    <3> QED
      BY <3>1, SameOrder
  <2> QED
    BY <1>5, <2>1, <2>2, <2>3 DEF Stop
<1>6. CASE ThreadStep
  <2>1. CASE connect_handler
    <3>1. PICK arg \in {"ok", "err", "isconn"}, posts \in {ReadPosts, <<>>} :
             Handle("connect", arg, posts)
      BY <2>1 DEF connect_handler, Connected, ConnectFailed
    <3>2. told # "nothing"
      BY <3>1, CallKinds, HeadSilent
    <3>3. told # "terminated" /\ told' \in {"connected", "disconnected"} /\ owner' = owner
      BY <2>1 DEF connect_handler, Connected, ConnectFailed, Handle, StopOrder
    <3> QED
      BY <1>1, <1>2, <3>1, <3>2, <3>3, HandleOrder
  <2>2. CASE DelayEnds
    <3>1. Quiet /\ told # "nothing"
      BY <2>2 DEF DelayEnds, Quiet, StopOrder
    <3> QED
      BY <1>1, <1>2, <2>2, <3>1, PostOrder DEF DelayEnds
  <2>3. CASE CreateIdleTimer \/ EnterRun
    <3>1. Quiet /\ ready' = ready
      BY <2>3 DEF CreateIdleTimer, EnterRun, Quiet, TellOrder
    <3> QED
      BY <3>1, SameOrder
  <2>4. CASE ProcessTerminate
    <3>1. AtMostOneNew(ready')
      BY <1>1, <1>2, <2>4, ConcatOrder DEF ProcessTerminate, TellOrder
    <3>2. owner # "new"
      BY <2>4 DEF ProcessTerminate, StartOrder
    <3> QED
      BY <2>4, <3>1, <3>2 DEF ProcessTerminate, TellOrder
  <2>5. CASE new_connection_handler
    <3>1. /\ ready # <<>> /\ IsNew(Head(ready)) /\ ready' = Tail(ready) \o <<>>
          /\ io = "run"
      BY <2>5, CallKinds DEF new_connection_handler, Handle
    <3>2. Tail(ready) \in Seq(Handler) /\ NoNew(Tail(ready)) /\ AtMostOneNew(Tail(ready))
      BY <1>1, <3>1, TailOrder DEF TellOrder
    <3>3. ready' \in Seq(Handler) /\ NoNew(ready') /\ AtMostOneNew(ready')
      BY <1>1, <1>2, <3>1, <3>2, ConcatOrder, ConcatRange
    <3>4. ~Queued("new_connection")'
      BY <3>3, QueuedNew
    <3> QED
      BY <2>5, <3>3, <3>4 DEF new_connection_handler, TellOrder
  <2>6. CASE ReadDone \/ SyncWriteDone
    <3>1. PICK fn \in {"read", "sync_write"}, posts \in {ReadPosts, <<>>} :
             Handle(fn, "ok", posts)
      BY <2>6 DEF ReadDone, SyncWriteDone
    <3>2. told # "nothing"
      BY <3>1, CallKinds, HeadSilent
    <3>3. Quiet /\ owner' = owner
      BY <2>6, <3>2 DEF ReadDone, SyncWriteDone, Quiet
    <3> QED
      BY <1>1, <1>2, <3>1, <3>2, <3>3, HandleOrder
  <2>7. CASE ReadFailed \/ WriteFailed \/ SyncWriteFailed \/ IdleClosed
    BY <1>1, <1>2, <2>7, DisconnectOrder
    DEF ReadFailed, WriteFailed, SyncWriteFailed, IdleClosed
  <2>8. CASE \/ WriteSkipped \/ WriteDone \/ IdleIgnored \/ IdleKept
             \/ set_idle_connection_timeout \/ NullTimer("idle", "ok")
    <3>1. PICK fn \in {"async_write", "set_idle", "idle"}, arg \in {"ok", "err"},
               posts \in {CancelPosts, <<>>} : Handle(fn, arg, posts)
      BY <2>8 DEF WriteSkipped, WriteDone, IdleIgnored, IdleKept,
         set_idle_connection_timeout, NullTimer
    <3>2. Quiet /\ owner' = owner
      BY <2>8 DEF WriteSkipped, WriteDone, IdleIgnored, IdleKept,
         set_idle_connection_timeout, NullTimer, Quiet, TellOrder
    <3> QED
      BY <1>1, <1>2, <3>1, <3>2, HandleOrder
  <2> QED
    BY <1>6, <2>1, <2>2, <2>3, <2>4, <2>5, <2>6, <2>7, <2>8
    DEF ThreadStep, Run_io_service, read_handler, async_write_handler, sync_write_handler,
        idle_connection_handler
<1>7. CASE NetworkStep
  <2>1. CASE ConnectAccepted \/ ConnectRefused
    <3>1. PICK arg \in {"ok", "err"} : ready' = Append(ready, Call("connect", arg))
      BY <2>1 DEF ConnectAccepted, ConnectRefused
    <3>2. Quiet /\ (told = "nothing" => Queued("new_connection"))
      BY <2>1 DEF ConnectAccepted, ConnectRefused, Quiet, TellOrder
    <3> QED
      BY <3>1, <3>2, CallType, CallKinds, AppendOrder
  <2>2. CASE ReadArrives \/ ReadBreaks
    <3>1. PICK arg \in {"ok", "err"} : ready' = Append(ready, Call("read", arg))
      BY <2>2 DEF ReadArrives, ReadBreaks
    <3>2. told # "nothing"
      BY <1>1, <2>2 DEF ReadArrives, ReadBreaks, TellOrder
    <3>3. Quiet
      BY <2>2, <3>2 DEF ReadArrives, ReadBreaks, Quiet
    <3> QED
      BY <3>1, <3>2, <3>3, CallType, CallKinds, AppendOrder
  <2>3. CASE NetworkDrops
    <3>1. Quiet
      BY <2>3 DEF NetworkDrops, Quiet, TellOrder
    <3> QED
      BY <2>3, <3>1, SameOrder DEF NetworkDrops
  <2>4. CASE IdleExpires
    <3>1. Quiet
      BY <2>4 DEF IdleExpires, Quiet, TellOrder
    <3> QED
      BY <2>4, <3>1, CallType, CallKinds, AppendOrder DEF IdleExpires
  <2> QED
    BY <1>7, <2>1, <2>2, <2>3, <2>4 DEF NetworkStep
<1> QED
  BY <1>3, <1>4, <1>5, <1>6, <1>7 DEF Next, Done

-----------------------------------------------------------------------------
(* The theorems *)

\* OnNewConnection is queued once, ahead of every handler that could call
\* another callback, and Stop() and the thread agree on how far they are.
THEOREM OrderInductive == Spec => []OrderInv
<1>1. Init => OrderInv
  <2> SUFFICES ASSUME Init PROVE OrderInv
    OBVIOUS
  <2>1. ready = <<>> /\ Len(<<>>) = 0 /\ Range(<<>>) = {}
    BY EmptyRange DEF Init
  <2>2. StopOrder /\ TellOrder
    BY <2>1 DEF Init, StopOrder, TellOrder, Queued, Led, AtMostOneNew
  <2> QED
    BY <2>2, InitInv DEF OrderInv
<1>2. OrderInv /\ [Next]_vars => OrderInv'
  BY InvStep, StopOrderStep, TellOrderStep DEF OrderInv, IInv, TypeOK
<1> QED
  BY <1>1, <1>2, PTL DEF Spec

LEMMA StepProtocol ==
    ASSUME OrderInv, [Next]_vars
    PROVE  [/\ told = "nothing" => told' \in {"nothing", "new", "terminated"}
            /\ told' = "new" => told \in {"nothing", "new"}
            /\ told = "terminated" => told' = told
            /\ stopped => told' \in {told, "terminated"}]_vars
<1> DEFINE protocol == /\ told = "nothing" => told' \in {"nothing", "new", "terminated"}
                       /\ told' = "new" => told \in {"nothing", "new"}
                       /\ told = "terminated" => told' = told
                       /\ stopped => told' \in {told, "terminated"}
<1> USE DEF connVars, idleVars, netVars, ownerVars
<1>1. BaseTypeOK /\ StopOrder /\ TellOrder
  BY DEF OrderInv, IInv, TypeOK
<1>2. ASSUME told' = told PROVE protocol
  BY <1>1, <1>2 DEF BaseTypeOK
<1>3. ASSUME NEW fn, NEW arg, NEW posts, ProcessDisconnect(fn, arg, posts) PROVE protocol
  BY <1>1, <1>3 DEF ProcessDisconnect, Handle, StopOrder, TellOrder
<1>4. CASE UserStep \/ Stop \/ NetworkStep \/ UNCHANGED vars
  BY <1>2, <1>4
  DEF UserStep, Start, AsyncWrite, SetOnIdleTimeout, SyncWriteSend, SyncWritePost,
      Stop, StopResetTimer, StopCloseSocket, StopService, StopJoin,
      NetworkStep, ConnectAccepted, ConnectRefused, ReadArrives, ReadBreaks,
      NetworkDrops, IdleExpires, vars
<1>5. CASE ThreadStep
  <2>1. CASE connect_handler
    <3>1. PICK arg \in {"ok", "err", "isconn"}, posts \in {ReadPosts, <<>>} :
             Handle("connect", arg, posts)
      BY <2>1 DEF connect_handler, Connected, ConnectFailed
    <3>2. told # "nothing"
      BY <1>1, <3>1, CallKinds, HeadSilent
    <3>3. told # "terminated" /\ ~stopped /\ told' \in {"connected", "disconnected"}
      BY <1>1, <2>1 DEF connect_handler, Connected, ConnectFailed, Handle, StopOrder
    <3> QED
      BY <3>2, <3>3
  <2>2. CASE new_connection_handler
    <3>1. /\ Handle("new_connection", "ok", <<>>) /\ ready \in Seq(Handler)
          /\ <<>> \in Seq(Handler) /\ Call("new_connection", "ok").fn = "new_connection"
      BY <1>1, <2>2, EmptyRange DEF new_connection_handler, BaseTypeOK, Call
    <3>2. Queued("new_connection")
      BY <3>1, HandleRange DEF Queued
    <3>3. told \notin {"new", "connected", "disconnected"} /\ io = "run" /\ ~stopped
      BY <1>1, <3>1, <3>2 DEF TellOrder, Handle
    <3>4. told = "nothing"
      BY <1>1, <3>3 DEF StopOrder, BaseTypeOK
    <3> QED
      BY <2>2, <3>3, <3>4 DEF new_connection_handler
  <2>3. CASE ProcessTerminate
    BY <1>1, <2>3 DEF ProcessTerminate
  <2>4. CASE ReadFailed \/ WriteFailed \/ SyncWriteFailed \/ IdleClosed
    BY <1>3, <2>4 DEF ReadFailed, WriteFailed, SyncWriteFailed, IdleClosed
  <2>5. CASE \/ DelayEnds \/ CreateIdleTimer \/ EnterRun \/ ReadDone \/ SyncWriteDone
             \/ WriteSkipped \/ WriteDone \/ IdleIgnored \/ IdleKept
             \/ set_idle_connection_timeout \/ NullTimer("idle", "ok")
    BY <1>2, <2>5
    DEF DelayEnds, CreateIdleTimer, EnterRun, ReadDone, SyncWriteDone, WriteSkipped,
        WriteDone, IdleIgnored, IdleKept, set_idle_connection_timeout, NullTimer
  <2> QED
    BY <1>5, <2>1, <2>2, <2>3, <2>4, <2>5
    DEF ThreadStep, Run_io_service, read_handler, async_write_handler, sync_write_handler,
        idle_connection_handler
<1> QED
  BY <1>4, <1>5 DEF Next, Done

\* The handler is told of the new connection first, of nothing after
\* OnTerminate, and of nothing else once the io_service is stopped, however
\* calls, completions and Stop() interleave.
THEOREM CallbacksInOrder == Spec => HandlerProtocol
<1>1. OrderInv /\ [Next]_vars =>
        [/\ told = "nothing" => told' \in {"nothing", "new", "terminated"}
         /\ told' = "new" => told \in {"nothing", "new"}
         /\ told = "terminated" => told' = told
         /\ stopped => told' \in {told, "terminated"}]_vars
  BY StepProtocol
<1> QED
  BY <1>1, OrderInductive, PTL DEF Spec, HandlerProtocol

-----------------------------------------------------------------------------
(* The refinement of ConnectionLifecycle *)

\* While a handler runs, the object is served or in Stop() before the
\* io_service is stopped, and nothing was terminated.
LEMMA HandlingPhase ==
    ASSUME BaseTypeOK, StartOrder, StopOrder, io = "run", ~stopped
    PROVE  /\ owner \in {"started", "stop_timer", "stop_socket"}
           /\ Phase \in {"serving", "stopping"} /\ Lifecycle!Alive
           /\ told \in {"nothing", "new", "connected", "disconnected"}
<1>1. owner \in {"started", "stop_timer", "stop_socket"}
  BY DEF BaseTypeOK, StartOrder, StopOrder
<1>2. Phase \in {"serving", "stopping"}
  BY <1>1 DEF Phase
<1> QED
  BY <1>1, <1>2 DEF Lifecycle!Alive, BaseTypeOK, StopOrder

\* A step of the thread that keeps it running keeps the phase.
LEMMA SamePhase ==
    ASSUME owner' = owner, io # "none", io' # "none", io # "crashed", io' # "crashed"
    PROVE  Phase' = Phase /\ (io # "none")' = (io # "none")
BY DEF Phase

LEMMA LifecycleStep ==
    ASSUME HasWork, OrderInv, [Next]_vars
    PROVE  [Lifecycle!Next]_(Lifecycle!vars)
<1> USE DEF connVars, idleVars, netVars, ownerVars
<1>1. BaseTypeOK /\ StartOrder /\ StopOrder /\ TellOrder
  BY DEF OrderInv, IInv, TypeOK
<1>2. ASSUME told' = told, Phase' = Phase, (io # "none")' = (io # "none")
      PROVE  UNCHANGED Lifecycle!vars
  BY <1>2 DEF Lifecycle!vars
<1>3. ASSUME UNCHANGED <<owner, io, told>> PROVE UNCHANGED Lifecycle!vars
  BY <1>2, <1>3 DEF Phase
\* OnConnect, OnDisconnect and OnConnectFailed.
<1>4. ASSUME io = "run", ~stopped, io' \in {"run", "delay"}, owner' = owner,
             told # "nothing", told' \in {"connected", "disconnected"}
      PROVE  Lifecycle!OnConnect \/ Lifecycle!OnDisconnect
  <2>1. Lifecycle!Alive /\ told \in {"new", "connected", "disconnected"}
    BY <1>1, <1>4, HandlingPhase
  <2>2. Phase' = Phase /\ (io # "none")' = (io # "none")
    BY <1>4, SamePhase
  <2> QED
    BY <1>4, <2>1, <2>2 DEF Lifecycle!OnConnect, Lifecycle!OnDisconnect
<1>5. ASSUME NEW fn, NEW arg, NEW posts, ProcessDisconnect(fn, arg, posts), owner' = owner
      PROVE  [Lifecycle!Next]_(Lifecycle!vars)
  <2>1. io = "run" /\ ~stopped /\ io' \in {"run", "delay"}
    BY <1>5 DEF ProcessDisconnect, Handle, ReconnectOrStop
  <2>2. CASE up
    <3>1. told # "nothing" /\ told' = "disconnected"
      BY <1>1, <1>5, <2>2 DEF TellOrder, ProcessDisconnect
    <3> QED
      BY <1>4, <1>5, <2>1, <3>1 DEF Lifecycle!Next
  <2>3. CASE ~up
    <3>1. UNCHANGED <<io, told>>
      BY <1>5, <2>3 DEF ProcessDisconnect
    <3> QED
      BY <1>3, <1>5, <3>1
  <2> QED
    BY <2>2, <2>3
\* A handler that finds its timer gone: Stop() has begun.
<1>6. ASSUME idle = "null", io \in {"created", "run"}, ~(owner = "gone"),
             io' = "crashed", UNCHANGED <<owner, told>>
      PROVE  Lifecycle!Crash
  <2>1. owner \in {"stop_timer", "stop_socket", "joining"} /\ told # "terminated"
    BY <1>1, <1>6 DEF BaseTypeOK, StartOrder, StopOrder
  <2>2. Phase \in {"stopping", "halted"} /\ Phase' = "crashed"
    BY <1>6, <2>1 DEF Phase
  <2> QED
    BY <1>6, <2>1, <2>2 DEF Lifecycle!Crash
<1>7. ASSUME NEW fn, NEW arg, NullTimer(fn, arg) PROVE Lifecycle!Crash
  <2>1. io = "run" /\ idle = "null" /\ io' = "crashed" /\ UNCHANGED <<owner, told>>
    BY <1>7 DEF NullTimer, Handle
  <2>2. owner # "gone"
    BY <1>1, <2>1 DEF StopOrder
  <2> QED
    BY <1>6, <2>1, <2>2
<1>8. CASE UNCHANGED vars
  BY <1>3, <1>8 DEF vars
<1>9. CASE UserStep
  <2>1. CASE Start
    <3>1. io = "none" /\ owner = "new" /\ owner' = "started" /\ io' = "starting"
      BY <1>1, <2>1 DEF Start, StartOrder
    <3>2. Phase = "new" /\ Phase' = "serving"
      BY <3>1 DEF Phase
    <3> QED
      BY <2>1, <3>1, <3>2 DEF Start, Lifecycle!Next, Lifecycle!Start
  <2>2. CASE AsyncWrite \/ SetOnIdleTimeout \/ SyncWriteSend \/ SyncWritePost
    BY <1>3, <2>2 DEF AsyncWrite, SetOnIdleTimeout, SyncWriteSend, SyncWritePost
  <2> QED
    BY <1>9, <2>1, <2>2 DEF UserStep
<1>10. CASE Stop
  <2>1. UNCHANGED <<io, told>>
    BY <1>10 DEF Stop, StopResetTimer, StopCloseSocket, StopService, StopJoin
  <2>2. CASE io = "crashed"
    <3>1. Phase' = Phase
      BY <2>1, <2>2 DEF Phase
    <3> QED
      BY <1>2, <2>1, <3>1
  <2>3. CASE io # "crashed"
    <3>1. CASE StopResetTimer
      <4>1. Phase \in {"new", "serving"} /\ Phase' = "stopping"
        BY <2>1, <2>3, <3>1 DEF Phase, StopResetTimer
      <4> QED
        BY <2>1, <4>1 DEF Lifecycle!Next, Lifecycle!StopBegins
    <3>2. CASE StopCloseSocket
      <4>1. Phase' = Phase
        BY <2>1, <2>3, <3>2 DEF Phase, StopCloseSocket
      <4> QED
        BY <1>2, <2>1, <4>1
    <3>3. CASE StopService
      <4>1. Phase = "stopping" /\ Phase' = "halted"
        BY <2>1, <2>3, <3>3 DEF Phase, StopService
      <4> QED
        BY <2>1, <4>1 DEF Lifecycle!Next, Lifecycle!ServiceStops
    <3>4. CASE StopJoin
      <4>1. Phase = "halted" /\ Phase' = "gone"
        BY <2>1, <2>3, <3>4 DEF Phase, StopJoin
      <4>2. io # "none" => told = "terminated"
        BY <1>1, <3>4 DEF StopJoin, StopOrder
      <4> QED
        BY <2>1, <4>1, <4>2 DEF Lifecycle!Next, Lifecycle!StopReturns
    <3> QED
      BY <1>10, <3>1, <3>2, <3>3, <3>4 DEF Stop
  <2> QED
    BY <2>2, <2>3
<1>11. CASE ThreadStep
  <2>1. CASE connect_handler
    <3>1. PICK arg \in {"ok", "err", "isconn"}, posts \in {ReadPosts, <<>>} :
             Handle("connect", arg, posts)
      BY <2>1 DEF connect_handler, Connected, ConnectFailed
    <3>2. told # "nothing" /\ io = "run" /\ ~stopped
      BY <1>1, <3>1, CallKinds, HeadSilent DEF Handle
    <3>3. told' \in {"connected", "disconnected"} /\ owner' = owner /\ io' \in {io, "delay"}
      BY <2>1 DEF connect_handler, Connected, ConnectFailed
    <3> QED
      BY <1>4, <3>2, <3>3 DEF Lifecycle!Next
  <2>2. CASE DelayEnds \/ CreateIdleTimer
    <3>1. /\ io \in {"delay", "starting"} /\ io' \in {"run", "created"}
          /\ UNCHANGED <<owner, told>>
      BY <2>2 DEF DelayEnds, CreateIdleTimer
    <3> QED
      BY <1>2, <3>1, SamePhase
  <2>3. CASE EnterRun
    <3>1. io = "created" /\ io' = (IF idle = "null" THEN "crashed" ELSE "run")
          /\ UNCHANGED <<owner, told>>
      BY <2>3 DEF EnterRun
    <3>2. owner # "gone"
      BY <1>1, <3>1 DEF StopOrder
    <3>3. idle = "null" => Lifecycle!Crash
      BY <1>6, <3>1, <3>2
    <3> QED
      BY <1>2, <3>1, <3>3, SamePhase DEF Lifecycle!Next
  <2>4. CASE ProcessTerminate
    <3>1. stopped /\ io = "run" /\ io' = "ended" /\ told' = "terminated" /\ owner' = owner
      BY <2>4 DEF ProcessTerminate, Busy
    <3>2. owner = "joining" /\ told # "terminated"
      BY <1>1, <3>1 DEF StopOrder
    <3>3. Phase = "halted" /\ Phase' = Phase
      BY <3>1, <3>2 DEF Phase
    <3> QED
      BY <3>1, <3>2, <3>3 DEF Lifecycle!Next, Lifecycle!OnTerminate
  <2>5. CASE new_connection_handler
    <3>1. /\ Handle("new_connection", "ok", <<>>) /\ ready \in Seq(Handler)
          /\ <<>> \in Seq(Handler) /\ Call("new_connection", "ok").fn = "new_connection"
      BY <1>1, <2>5, EmptyRange DEF new_connection_handler, BaseTypeOK, Call
    <3>2. Queued("new_connection") /\ io = "run" /\ ~stopped
      BY <3>1, HandleRange DEF Queued, Handle
    <3>3. told = "nothing" /\ Lifecycle!Alive
      BY <1>1, <3>2, HandlingPhase DEF TellOrder
    <3>4. told' = "new" /\ UNCHANGED <<io, owner>>
      BY <2>5 DEF new_connection_handler
    <3>5. Phase' = Phase
      BY <3>4 DEF Phase
    <3> QED
      BY <3>3, <3>4, <3>5 DEF Lifecycle!Next, Lifecycle!OnNewConnection
  <2>6. CASE ReadFailed \/ WriteFailed \/ SyncWriteFailed \/ IdleClosed
    BY <1>5, <2>6 DEF ReadFailed, WriteFailed, SyncWriteFailed, IdleClosed
  <2>7. CASE (\E arg \in {"ok", "err"} : NullTimer("set_idle", arg)) \/ NullTimer("idle", "ok")
    BY <1>7, <2>7 DEF Lifecycle!Next
  <2>8. CASE \/ ReadDone \/ SyncWriteDone \/ WriteSkipped \/ WriteDone \/ IdleIgnored
             \/ IdleKept
             \/ set_idle_connection_timeout /\ idle # "null"
    BY <1>3, <2>8
    DEF ReadDone, SyncWriteDone, WriteSkipped, WriteDone, IdleIgnored, IdleKept,
        set_idle_connection_timeout, NullTimer
  <2> QED
    BY <1>11, <2>1, <2>2, <2>3, <2>4, <2>5, <2>6, <2>7, <2>8
    DEF ThreadStep, Run_io_service, read_handler, async_write_handler, sync_write_handler,
        idle_connection_handler, set_idle_connection_timeout
<1>12. CASE NetworkStep
  BY <1>3, <1>12 DEF NetworkStep, ConnectAccepted, ConnectRefused, ReadArrives, ReadBreaks,
     NetworkDrops, IdleExpires
<1> QED
  BY <1>8, <1>9, <1>10, <1>11, <1>12 DEF Next, Done

\* A client whose user keeps a work object implements the lifecycle: every
\* call, handler, completion and step of Stop() is a step of it or a stutter.
THEOREM ImplementsLifecycle ==
    HasWork => (Spec => Lifecycle!Init /\ [][Lifecycle!Next]_(Lifecycle!vars))
<1> SUFFICES ASSUME HasWork
             PROVE  Spec => Lifecycle!Init /\ [][Lifecycle!Next]_(Lifecycle!vars)
  OBVIOUS
<1>1. Init => Lifecycle!Init
  BY DEF Init, Lifecycle!Init, Phase
<1>2. OrderInv /\ [Next]_vars => [Lifecycle!Next]_(Lifecycle!vars)
  BY LifecycleStep
<1> QED
  BY <1>1, <1>2, OrderInductive, PTL DEF Spec
=============================================================================
