---------------------------- MODULE SyncReceiver ---------------------------
(***************************************************************************)
(* SyncConnectionlessReceiver.cpp: a blocking Receive made of an           *)
(* asynchronous one and a timer.  The caller's thread starts both and      *)
(* polls the members the handlers set; the handlers run on the io_service  *)
(* thread of ConnectionlessComms, and another thread may close everything  *)
(* (TerminateComms, then TerminateReceiver).  What a Receive cancels still *)
(* completes, and its handlers do not know which Receive they belong to.   *)
(*                                                                         *)
(* A datagram is its number, in the order the socket takes them in; its    *)
(* size is its number too, so that sizes tell datagrams apart.  Each access*)
(* of a member is atomic (scoped_lock(m_bstLock) in the code declares a    *)
(* variable and locks nothing), and the sender's address is left out.      *)
(***************************************************************************)
EXTENDS Naturals, Sequences, Functions

CONSTANTS
    MaxReceives,  \* bound: calls of Receive
    MaxDatagrams  \* bound: datagrams that arrive

ASSUME BoundAssumption == MaxReceives \in Nat /\ MaxDatagrams \in Nat

VARIABLES
    caller,       \* the caller: "begun" is before m_bReceiving = true, "loop" after
    receiving,    \* m_bReceiving
    readError,    \* m_bstReadError: not set, no error, or an error
    timeoutError, \* m_bstTimeoutError is set (with whatever error)
    size,         \* m_sizeReadSize, 0 for -1
    buffer,       \* m_strRecvBuffer: the datagram last taken in, 0 for none
    timer,        \* m_bstReadTimer has a wait outstanding
    ops,          \* number of async_receive_from outstanding on the socket
    ready,        \* the io_service's queue of handlers
    sizing,       \* HandleReceiveFrom between its two assignments: the size to set
    term,         \* the terminating thread's progress
    outcome,      \* history: how the last Receive ended
    clean,        \* history: it began with nothing left over from earlier ones
    expired,      \* history: its timer has expired
    erred,        \* history: a receive has failed since it began
    taken,        \* history: the datagram in the buffer when it began
    calls         \* Receives begun, up to MaxReceives

pollVars   == <<caller, receiving, outcome, clean, taken, calls>>
resultVars == <<readError, timeoutError, size>>
timerVars  == <<timer, expired>>
socketVars == <<buffer, ops, erred>>
vars == <<pollVars, resultVars, timerVars, socketVars, ready, sizing, term>>

-----------------------------------------------------------------------------

\* A completed operation: its handler and the error code it gets; n is the
\* number of bytes received.
Completion(fn, arg, n) == [fn |-> fn, arg |-> arg, n |-> n]

\* Cancelling or destroying the timer aborts the wait it has outstanding.
CancelTimer == IF timer THEN <<Completion("timeout", "err", 0)>> ELSE <<>>

\* Cancelling or closing the socket aborts all its receives.
CancelReceives == [i \in 1..ops |-> Completion("receive", "err", 0)]

\* The io_service runs the handlers until TerminateComms stops it.
Serving == term = "none"

Init ==
    /\ caller = "idle" /\ receiving = FALSE
    /\ readError = "none" /\ timeoutError = FALSE /\ size = 0
    /\ timer = FALSE /\ expired = FALSE
    /\ buffer = 0 /\ ops = 0 /\ erred = FALSE
    /\ ready = <<>> /\ sizing = 0 /\ term = "none"
    /\ outcome = "none" /\ clean = FALSE /\ taken = 0 /\ calls = 0

-----------------------------------------------------------------------------
(* Receive, on the caller's thread *)

\* Mutant: the results of an earlier Receive are kept.
ForgetResults_Kept == UNCHANGED resultVars

\* Lines 56-58: nothing is known of this Receive yet.
ForgetResults == readError' = "none" /\ timeoutError' = FALSE /\ size' = 0

\* Mutant: the wait is never begun.
StartTimer_NotStarted == timer' = FALSE /\ expired' = FALSE

\* A new timer replaces the old one and its wait begins.
StartTimer == timer' = TRUE /\ expired' = FALSE

\* Forget earlier results, start the timer, start to receive.
Begin ==
    /\ caller = "idle" /\ term # "closed" /\ calls < MaxReceives
    /\ caller' = "begun"
    /\ ForgetResults
    /\ ready' = ready \o CancelTimer
    /\ StartTimer
    /\ ops' = ops + 1 /\ erred' = FALSE
    /\ calls' = calls + 1
    /\ clean' = (ready = <<>> /\ sizing = 0 /\ ops = 0 /\ ~timer)
    /\ taken' = buffer
    /\ UNCHANGED <<receiving, buffer, sizing, term, outcome>>

StartReceiving ==
    /\ caller = "begun"
    /\ caller' = "loop"
    /\ receiving' = TRUE
    /\ UNCHANGED <<outcome, clean, taken, calls, resultVars, timerVars, socketVars, ready,
                   sizing, term>>

Return(how) ==
    /\ caller' = "idle"
    /\ outcome' = how
    /\ UNCHANGED <<clean, taken, calls, expired, erred, buffer, sizing, term>>

\* TerminateReceiver has cleared m_bReceiving.
Interrupted ==
    /\ caller = "loop" /\ ~receiving
    /\ Return("interrupted")
    /\ UNCHANGED <<receiving, resultVars, timer, ops, ready>>

\* There is a result, of this Receive or an earlier one: cancel the timer.
ResultSeen ==
    /\ caller = "loop" /\ receiving /\ readError # "none"
    /\ timer' = FALSE
    /\ ready' = ready \o CancelTimer
    /\ UNCHANGED <<size, ops>>

Take(how) ==
    /\ ResultSeen
    /\ Return(how)
    /\ receiving' = FALSE
    /\ readError' = "none" /\ timeoutError' = FALSE

\* The message is what the buffer holds, cut to the size of the last read.
Succeeded ==
    /\ readError = "ok" /\ size # 0
    /\ Take(IF size = buffer /\ buffer > taken THEN "received" ELSE "mixed up")

Failed == readError = "err" /\ Take("failed")

\* Line 81: the size is not there yet, std::string throws, and Receive returns
\* false without an error.  "torn" is such an end between the two assignments
\* that handle the datagram in the buffer.
ThrewLength ==
    /\ readError = "ok" /\ size = 0
    /\ ResultSeen
    /\ Return(IF sizing = buffer /\ buffer > taken THEN "torn" ELSE "threw")
    /\ UNCHANGED <<receiving, readError, timeoutError>>

AbortReceives == ops' = 0

\* The timeout: cancel the socket, destroy the timer, throw and catch.
TimedOut ==
    /\ caller = "loop" /\ receiving /\ readError = "none" /\ timeoutError
    /\ Return("timed out")
    /\ ready' = ready \o CancelReceives \o CancelTimer
    /\ AbortReceives
    /\ timer' = FALSE /\ timeoutError' = FALSE
    /\ UNCHANGED <<receiving, readError, size>>

\* Nothing yet: sleep and look again.
Sleep == caller = "loop" /\ receiving /\ readError = "none" /\ ~timeoutError /\ UNCHANGED vars

Receive ==
    \/ StartReceiving
    \/ Interrupted \/ Succeeded \/ ThrewLength \/ Failed \/ TimedOut \/ Sleep

-----------------------------------------------------------------------------
(* The handlers, on the io_service's thread *)

Handle(fn, arg) ==
    /\ Serving /\ sizing = 0
    /\ ready # <<>> /\ Head(ready).fn = fn /\ Head(ready).arg = arg
    /\ ready' = Tail(ready)

HandleReceiveFrom ==
    /\ \E arg \in {"ok", "err"} : Handle("receive", arg) /\ readError' = arg
    /\ sizing' = Head(ready).n
    /\ UNCHANGED <<pollVars, timeoutError, size, timerVars, socketVars, term>>

\* Mutant: the terminating zero of a C string is counted.
SetReadSize_PlusOne ==
    /\ sizing # 0
    /\ size' = sizing + 1 /\ sizing' = 0
    /\ UNCHANGED <<pollVars, readError, timeoutError, timerVars, socketVars, ready, term>>

\* The second assignment of HandleReceiveFrom.
SetReadSize ==
    /\ sizing # 0
    /\ size' = sizing /\ sizing' = 0
    /\ UNCHANGED <<pollVars, readError, timeoutError, timerVars, socketVars, ready, term>>

HandleTimeout ==
    /\ \E arg \in {"ok", "err"} : Handle("timeout", arg)
    /\ timeoutError' = TRUE
    /\ UNCHANGED <<pollVars, readError, size, timerVars, socketVars, sizing, term>>

IOThread == HandleReceiveFrom \/ SetReadSize \/ HandleTimeout

\* The clock and the network.
TimerExpires ==
    /\ timer /\ Serving
    /\ timer' = FALSE /\ expired' = TRUE
    /\ ready' = Append(ready, Completion("timeout", "ok", 0))
    /\ UNCHANGED <<pollVars, resultVars, socketVars, sizing, term>>

DatagramArrives ==
    /\ ops > 0 /\ Serving /\ buffer < MaxDatagrams
    /\ ops' = ops - 1
    /\ buffer' = buffer + 1
    /\ ready' = Append(ready, Completion("receive", "ok", buffer + 1))
    /\ UNCHANGED <<pollVars, resultVars, timerVars, erred, sizing, term>>

\* A datagram that is too large, or an ICMP error.
ReceiveFails ==
    /\ ops > 0 /\ Serving
    /\ ops' = ops - 1
    /\ erred' = TRUE
    /\ ready' = Append(ready, Completion("receive", "err", 0))
    /\ UNCHANGED <<pollVars, resultVars, timerVars, buffer, sizing, term>>

-----------------------------------------------------------------------------
(* TerminateComms and TerminateReceiver, on another thread *)

StopService ==
    /\ term = "none" /\ term' = "stopped"
    /\ UNCHANGED <<pollVars, resultVars, timerVars, socketVars, ready, sizing>>

\* Mutant: TerminateReceiver leaves m_bReceiving alone.
LowerFlag_Kept == UNCHANGED receiving

LowerFlag == receiving' = FALSE

\* The io_service's thread has been joined.
ClearReceiving ==
    /\ term = "stopped" /\ sizing = 0 /\ term' = "flagged"
    /\ LowerFlag
    /\ UNCHANGED <<caller, outcome, clean, taken, calls, resultVars, timerVars, socketVars,
                   ready, sizing>>

CloseSocket ==
    /\ term = "flagged" /\ term' = "closed"
    /\ ready' = ready \o CancelTimer \o CancelReceives
    /\ timer' = FALSE /\ AbortReceives
    /\ UNCHANGED <<pollVars, resultVars, expired, erred, buffer, sizing>>

TerminateReceiver == ClearReceiving \/ CloseSocket

-----------------------------------------------------------------------------

Done == caller = "idle" /\ term = "closed" /\ UNCHANGED vars

Next ==
    \/ Begin \/ Receive
    \/ IOThread
    \/ TimerExpires \/ DatagramArrives \/ ReceiveFails
    \/ StopService \/ TerminateReceiver
    \/ Done

\* Both threads run, timers expire, and a termination that has begun goes on.
\* Nobody has to receive, to send a datagram or to terminate, and no receive has
\* to fail.
Fairness ==
    /\ WF_vars(Receive)
    /\ WF_vars(IOThread)
    /\ WF_vars(TimerExpires)
    /\ WF_vars(TerminateReceiver)

Spec == Init /\ [][Next]_vars /\ Fairness

-----------------------------------------------------------------------------
(* Properties *)

Sizes == 0..MaxDatagrams
Completions == [fn : {"receive", "timeout"}, arg : {"ok", "err"}, n : Sizes]

\* Every variable keeps its type, and a size is that of a datagram.
TypeOK ==
    /\ caller \in {"idle", "begun", "loop"} /\ receiving \in BOOLEAN
    /\ readError \in {"none", "ok", "err"} /\ timeoutError \in BOOLEAN
    /\ size \in Sizes /\ buffer \in Sizes /\ sizing \in Sizes /\ taken \in Sizes
    /\ timer \in BOOLEAN /\ ops \in Nat
    /\ ready \in Seq(Completions)
    /\ term \in {"none", "stopped", "flagged", "closed"}
    /\ outcome \in {"none", "received", "mixed up", "torn", "threw", "failed", "timed out",
                   "interrupted"}
    /\ clean \in BOOLEAN /\ expired \in BOOLEAN /\ erred \in BOOLEAN
    /\ calls \in 0..MaxReceives

\* A Receive that polls is always woken: whatever the handlers of earlier
\* Receives do to the members it polls, a result is there, or a timeout is
\* running, expired or queued that nothing but this Receive takes away.
WakeUpPending ==
    caller # "idle" /\ Serving =>
      \/ readError # "none" \/ timeoutError
      \/ timer
      \/ \E c \in Range(ready) : c.fn = "timeout"

\* A Receive that begins with nothing left over from earlier ones ends by what
\* has happened since it began: it returns the one datagram that arrived, fails
\* only for its own receive's error and not for an operation that was cancelled,
\* times out only when its own timer has expired, and misses a size only between
\* the two assignments of its own datagram's handler ("torn", which loses the
\* datagram; ReportsMessage is what the code says of that).
CleanReceive ==
    clean /\ caller = "idle" =>
      \/ outcome \in {"received", "torn"} /\ buffer > taken
      \/ outcome = "failed" /\ erred
      \/ outcome = "timed out" /\ expired
      \/ outcome = "interrupted" /\ term # "none"

\* Receive returns while the io_service runs.
ReceiveReturns == caller # "idle" ~> caller = "idle" \/ ~Serving

\* A Receive that polls when the terminating thread gets to it returns, though
\* no handler runs any more.
InterruptReturns == (caller = "loop" /\ term = "stopped") ~> caller = "idle"

-----------------------------------------------------------------------------
(* What the comments of the code say *)

\* SyncConnectionlessReceiver.cpp:37 "If there is no error, the method will
\* report success and send back the message": a Receive with nothing left over
\* that took a datagram in, while nothing failed, expired or was terminated,
\* returns it.
ReportsMessage ==
    clean /\ caller = "idle" /\ buffer > taken /\ ~erred /\ ~expired /\ term = "none" =>
      outcome = "received"

-----------------------------------------------------------------------------
(* Strengthenings: what the invariants above need to be inductive *)

NoReceives(queue) == \A i \in 1..Len(queue) : queue[i].fn # "receive"

\* The queue holds one handler of a receive, completed as c.
OneReceive(queue, c) ==
    \E i \in 1..Len(queue) :
        /\ queue[i] = c
        /\ \A j \in 1..Len(queue) : j # i => queue[j].fn # "receive"

NoTimeouts(queue) == \A i \in 1..Len(queue) : queue[i].fn # "timeout"

\* The one receive of a clean Receive: outstanding, queued, or handled in two
\* steps; or queued and handled as failed.
Outstanding ==
    /\ ops = 1 /\ buffer = taken /\ NoReceives(ready)
    /\ readError = "none" /\ size = 0 /\ sizing = 0

Queued ==
    /\ ops = 0 /\ buffer > taken /\ OneReceive(ready, Completion("receive", "ok", buffer))
    /\ readError = "none" /\ size = 0 /\ sizing = 0

Handled ==
    /\ ops = 0 /\ buffer > taken /\ NoReceives(ready)
    /\ readError = "ok"
    /\ (sizing = buffer /\ size = 0) \/ (sizing = 0 /\ size = buffer)

FailureQueued ==
    /\ ops = 0 /\ OneReceive(ready, Completion("receive", "err", 0))
    /\ readError = "none" /\ sizing = 0

FailureHandled ==
    /\ ops = 0 /\ NoReceives(ready)
    /\ readError = "err" /\ sizing = 0

OwnReceive ==
    \/ Outstanding \/ Queued \/ Handled
    \/ erred /\ (FailureQueued \/ FailureHandled)

\* What a clean Receive polls is its own: no other receive and no timeout before
\* its timer expires, until the socket is closed and no handler runs any more.
OwnResult ==
    clean /\ caller # "idle" =>
        /\ timeoutError => expired
        /\ term # "closed" =>
             /\ OwnReceive
             /\ expired \/ NoTimeouts(ready)
        /\ term = "closed" =>
             /\ readError = "err" => erred
             /\ readError = "ok" => size = buffer /\ buffer > taken

\* TerminateReceiver runs after the io_service's thread has been joined.
Joined == term \in {"flagged", "closed"} => sizing = 0

\* m_bReceiving is cleared under a Receive that polls by TerminateReceiver only.
FlagHolds == caller = "loop" /\ ~receiving => term # "none"

IInv == TypeOK /\ WakeUpPending /\ CleanReceive /\ Joined /\ FlagHolds /\ OwnResult
=============================================================================
