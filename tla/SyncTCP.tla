------------------------------- MODULE SyncTCP -------------------------------
(***************************************************************************)
(* SyncTCPCommsSendRecv.cpp over TCPCommsImpl.cpp and TCPComms.cpp: Read   *)
(* and Send look synchronous, but each starts an asynchronous operation    *)
(* and a timer on the connection's io_service and polls what the handlers  *)
(* set.  Handlers run on the connection's thread; one thread calls Read    *)
(* and one calls Send (a single thread that alternates them is the case    *)
(* without overlap).  Reads that overlap are not modelled.                 *)
(*                                                                         *)
(* Abstracted: the connection (see ClientConnection; a SYNC one reads      *)
(* nothing by itself, so IsConnected, once true, stays true until the      *)
(* object is replaced), the bytes (one number per read that succeeds, in   *)
(* stream order), the length of timeouts and sleeps.                       *)
(***************************************************************************)
EXTENDS Naturals, Sequences

CONSTANTS
    MaxReads, MaxSends,  \* bounds: calls of Read and of Send
    MaxData              \* bound: reads that succeed

ASSUME BoundAssumption == MaxReads \in Nat /\ MaxSends \in Nat /\ MaxData \in Nat

VARIABLES
    rd,         \* where Read is: "terminated" is between TerminateComms and InitComms
    sd,         \* where Send is
    comms,      \* m_pComms exists
    up,         \* m_pComms->IsConnected()
    sock,       \* its socket: "closed" by the peer, or "broken"
    queue,      \* its io_service: handlers to run
    handler,    \* ReadHandler between its two assignments: what it will still store
    reading,    \* number of async_read_some outstanding
    writing,    \* number of async_write_some outstanding
    buffer,     \* m_strRecvBuffer: what was read last
    receiving,  \* m_bReceiving, which no constructor sets
    readSize,   \* m_sizeReadSize # -1
    readError,  \* *m_bstReadError
    writeError, \* *m_bstWriteError
    timeoutError, \* m_bstTimeoutError # null, shared by Read and Send
    readTimer, writeTimer,  \* "dangling": its io_service is gone, with its wait
    issued,     \* Read sent its command
    sent,       \* bWriteSent
    disturbed,  \* history: a Send has overlapped the Read in progress, or the last one
    orphaned,   \* history: Read has destroyed the connection under the Send in progress
    spoilt,     \* history: a Read has given up on a handler that is still to run
    got,        \* history: what the Reads that returned TRUE returned
    reads, sends, data  \* calls made and reads that succeeded

readVars == <<rd, receiving, issued, spoilt, got, reads>>
sendVars == <<sd, sent, sends, orphaned>>
connVars == <<comms, up, sock>>
opVars   == <<reading, writing, buffer, data>>
vars     == <<readVars, sendVars, connVars, opVars, queue, handler, readSize, readError,
              writeError, timeoutError, readTimer, writeTimer, disturbed>>

-----------------------------------------------------------------------------

Call(fn, arg) == [fn |-> fn, arg |-> arg]

\* InitComms: a new connection, not established yet.
Fresh ==
    /\ comms' = TRUE
    /\ up' = FALSE
    /\ sock' = "connecting"

Init ==
    /\ rd = "idle" /\ sd = "idle"
    /\ comms = TRUE /\ up = FALSE /\ sock = "connecting"
    /\ queue = <<>> /\ handler = "none"
    /\ reading = 0 /\ writing = 0 /\ buffer = 0
    /\ receiving \in BOOLEAN
    /\ readSize = FALSE
    /\ readError = "null" /\ writeError = "null" /\ timeoutError = FALSE
    /\ readTimer = "null" /\ writeTimer = "null"
    /\ issued = FALSE /\ sent = FALSE
    /\ disturbed = FALSE /\ orphaned = FALSE /\ spoilt = FALSE /\ got = <<>>
    /\ reads = 0 /\ sends = 0 /\ data = 0

\* CancelIO: the outstanding operations complete with an error.
CancelPosts ==
    [i \in 1..reading |-> Call("read", "err")] \o [i \in 1..writing |-> Call("write", "err")]

\* Mutant: one operation of each kind is taken off, whatever is outstanding.
CancelIO_One ==
    /\ queue' = queue \o CancelPosts
    /\ reading' = reading - 1
    /\ writing' = writing - 1

CancelIO ==
    /\ queue' = queue \o CancelPosts
    /\ reading' = 0
    /\ writing' = 0

Cancelled(timer) == IF timer = "waiting" THEN "quiet" ELSE timer

-----------------------------------------------------------------------------
(* Read *)

ReadBegin ==
    /\ rd = "idle" /\ reads < MaxReads
    /\ rd' = "connect"
    /\ reads' = reads + 1
    /\ timeoutError' = FALSE /\ readError' = "null" /\ readSize' = FALSE
    /\ issued' = FALSE
    /\ disturbed' = (sd # "idle")
    /\ UNCHANGED <<receiving, spoilt, got, sendVars, connVars, opVars, queue, handler,
                   writeError, readTimer, writeTimer>>

\* Mutant: nothing keeps the command from being sent again on the next turn.
ReadIssue_Twice ==
    /\ rd = "connect" /\ up
    /\ rd' = IF readTimer = "dangling" THEN "crashed" ELSE "poll"
    /\ readTimer' = IF readTimer = "dangling" THEN readTimer ELSE "waiting"
    /\ reading' = reading + 2
    /\ receiving' = TRUE
    /\ issued' = TRUE
    /\ UNCHANGED <<spoilt, got, reads, sendVars, connVars, writing, buffer, data, queue,
                   handler, readSize, readError, writeError, timeoutError, writeTimer, disturbed>>

\* Connected within the timeout: timer, ReadAsync, m_bReceiving.
ReadIssue ==
    /\ rd = "connect" /\ up
    /\ rd' = IF readTimer = "dangling" THEN "crashed" ELSE "poll"
    /\ readTimer' = IF readTimer = "dangling" THEN readTimer ELSE "waiting"
    /\ reading' = reading + 1
    /\ receiving' = TRUE
    /\ issued' = TRUE
    /\ UNCHANGED <<spoilt, got, reads, sendVars, connVars, writing, buffer, data, queue,
                   handler, readSize, readError, writeError, timeoutError, writeTimer, disturbed>>

\* Not connected within the timeout: nothing is sent...
ReadGivesUp ==
    /\ rd = "connect" /\ ~up
    /\ rd' = "check"
    /\ UNCHANGED <<receiving, issued, spoilt, got, reads, sendVars, connVars, opVars, queue,
                   handler, readSize, readError, writeError, timeoutError, readTimer,
                   writeTimer, disturbed>>

\* ... but a connection that has come up since is polled all the same.
ReadCheck ==
    /\ rd = "check"
    /\ rd' = IF up THEN "poll" ELSE "idle"
    /\ UNCHANGED <<receiving, issued, spoilt, got, reads, sendVars, connVars, opVars, queue,
                   handler, readSize, readError, writeError, timeoutError, readTimer,
                   writeTimer, disturbed>>

\* The loop ends at once: m_bReceiving is a stale FALSE.
PollNothing ==
    /\ rd = "poll" /\ ~receiving
    /\ rd' = "idle"
    /\ UNCHANGED <<receiving, issued, spoilt, got, reads, sendVars, connVars, opVars, queue,
                   handler, readSize, readError, writeError, timeoutError, readTimer,
                   writeTimer, disturbed>>

Reported(e) == rd = "poll" /\ receiving /\ readError = e

\* The handler has run: the timer is cancelled and Read returns the buffer.
PollData ==
    /\ Reported("ok") /\ readSize
    /\ rd' = "idle"
    /\ got' = Append(got, buffer)
    /\ readTimer' = Cancelled(readTimer)
    /\ receiving' = FALSE
    /\ readError' = "null" /\ timeoutError' = FALSE
    /\ UNCHANGED <<issued, spoilt, reads, sendVars, connVars, opVars, queue, handler,
                   readSize, writeError, writeTimer, disturbed>>

\* The handler is between its assignments: a string of size -1 throws, and
\* Read returns FALSE with everything as it was.
PollTorn ==
    /\ Reported("ok") /\ ~readSize
    /\ rd' = "idle"
    /\ readTimer' = Cancelled(readTimer)
    /\ spoilt' = TRUE
    /\ UNCHANGED <<receiving, issued, got, reads, sendVars, connVars, opVars, queue, handler,
                   readSize, readError, writeError, timeoutError, writeTimer, disturbed>>

\* Mutant: a Read that fails leaves its timer running.
PollError_NoCancel ==
    /\ Reported("err")
    /\ rd' = "idle"
    /\ receiving' = FALSE
    /\ readError' = "null" /\ timeoutError' = FALSE
    /\ UNCHANGED <<issued, spoilt, got, reads, sendVars, connVars, opVars, queue, handler,
                   readSize, writeError, readTimer, writeTimer, disturbed>>

PollError ==
    /\ Reported("err")
    /\ rd' = "idle"
    /\ readTimer' = Cancelled(readTimer)
    /\ receiving' = FALSE
    /\ readError' = "null" /\ timeoutError' = FALSE
    /\ UNCHANGED <<issued, spoilt, got, reads, sendVars, connVars, opVars, queue, handler,
                   readSize, writeError, writeTimer, disturbed>>

\* The io_service of a timer is destroyed.
Orphaned(timer) == IF timer = "waiting" THEN "dangling" ELSE timer

\* Mutant: Read cancels its timer only when there is no error.
PollEof_NoCancel ==
    /\ Reported("eof")
    /\ rd' = "terminated"
    /\ comms' = FALSE /\ up' = FALSE /\ sock' = "gone"
    /\ queue' = <<>> /\ handler' = "none" /\ reading' = 0 /\ writing' = 0
    /\ readTimer' = Orphaned(readTimer)
    /\ writeTimer' = Orphaned(writeTimer)
    /\ receiving' = FALSE
    /\ orphaned' = (sd = "send")
    /\ UNCHANGED <<issued, spoilt, got, reads, sd, sent, sends, buffer, data, readSize, readError,
                   writeError, timeoutError, disturbed>>

\* End of stream: TerminateComms joins the connection's thread and destroys its
\* io_service, with the handlers and the waits it has...
PollEof ==
    /\ Reported("eof")
    /\ rd' = "terminated"
    /\ comms' = FALSE /\ up' = FALSE /\ sock' = "gone"
    /\ queue' = <<>> /\ handler' = "none" /\ reading' = 0 /\ writing' = 0
    /\ readTimer' = Orphaned(Cancelled(readTimer))
    /\ writeTimer' = Orphaned(writeTimer)
    /\ receiving' = FALSE
    /\ orphaned' = (sd = "send")
    /\ UNCHANGED <<issued, spoilt, got, reads, sd, sent, sends, buffer, data, readSize, readError,
                   writeError, timeoutError, disturbed>>

\* ... and InitComms makes a new connection.
Reinit ==
    /\ rd = "terminated"
    /\ rd' = "idle"
    /\ Fresh
    /\ readError' = "null" /\ timeoutError' = FALSE
    /\ UNCHANGED <<receiving, issued, spoilt, got, reads, sendVars, opVars, queue, handler,
                   readSize, writeError, readTimer, writeTimer, disturbed>>

\* The timer: the operations are cancelled, but what their handlers will set
\* is left for the next call, and m_bReceiving stays TRUE.
PollTimeout ==
    /\ Reported("null") /\ timeoutError
    /\ rd' = "idle"
    /\ CancelIO
    /\ readTimer' = "null"
    /\ timeoutError' = FALSE
    /\ spoilt' = TRUE
    /\ UNCHANGED <<receiving, issued, got, reads, sendVars, connVars, buffer, data, handler,
                   readSize, readError, writeError, writeTimer, disturbed>>

Read ==
    \/ ReadBegin \/ ReadIssue \/ ReadGivesUp \/ ReadCheck
    \/ PollNothing \/ PollData \/ PollTorn \/ PollError \/ PollEof \/ Reinit \/ PollTimeout

-----------------------------------------------------------------------------
(* Send *)

\* Using m_pComms while Read replaces it, or a timer whose io_service is gone.
Crashes == ~comms \/ writeTimer = "dangling"

SendBegin ==
    /\ sd = "idle" /\ sends < MaxSends
    /\ sends' = sends + 1
    /\ sd' = IF Crashes THEN "crashed" ELSE "send"
    /\ writeTimer' = IF Crashes THEN writeTimer ELSE "waiting"
    /\ sent' = FALSE /\ orphaned' = FALSE
    /\ timeoutError' = FALSE /\ writeError' = "null"
    /\ disturbed' = (disturbed \/ rd # "idle")
    /\ UNCHANGED <<readVars, connVars, opVars, queue, handler, readSize, readError, readTimer>>

\* One turn of the loop, on a connection that exists.
Turn == sd = "send" /\ comms

SendCrashes ==
    /\ sd = "send"
    /\ \/ ~comms
       \/ writeTimer = "dangling" /\ (writeError # "null" \/ timeoutError)
    /\ sd' = "crashed"
    /\ UNCHANGED <<readVars, sent, sends, orphaned, connVars, opVars, queue, handler, readSize,
                   readError, writeError, timeoutError, readTimer, writeTimer, disturbed>>

SendWrite ==
    /\ Turn /\ up /\ ~sent
    /\ sent' = TRUE
    /\ writing' = writing + 1
    /\ UNCHANGED <<readVars, sd, sends, orphaned, connVars, reading, buffer, data, queue, handler,
                   readSize, readError, writeError, timeoutError, readTimer, writeTimer, disturbed>>

\* The write is waited for once it is sent, and the timer in any case.
CanFinish == Turn /\ (up => sent) /\ (up \/ timeoutError) /\ writeTimer # "dangling"

SendReturns ==
    /\ CanFinish /\ writeError # "null"
    /\ sd' = "idle"
    /\ writeTimer' = Cancelled(writeTimer)
    /\ writeError' = "null" /\ timeoutError' = FALSE
    /\ UNCHANGED <<readVars, sent, sends, orphaned, connVars, opVars, queue, handler, readSize,
                   readError, readTimer, disturbed>>

SendTimeout ==
    /\ CanFinish /\ writeError = "null" /\ timeoutError
    /\ sd' = "idle"
    /\ CancelIO
    /\ writeTimer' = "null"
    /\ timeoutError' = FALSE
    /\ UNCHANGED <<readVars, sent, sends, orphaned, connVars, buffer, data, handler, readSize,
                   readError, writeError, readTimer, disturbed>>

Send == SendBegin \/ SendCrashes \/ SendWrite \/ SendReturns \/ SendTimeout

-----------------------------------------------------------------------------
(* The connection's thread *)

Take(fn) == handler = "none" /\ queue # <<>> /\ Head(queue).fn = fn /\ queue' = Tail(queue)

\* ReadHandler stores the error first...
ReadHandler ==
    /\ Take("read")
    /\ readError' = Head(queue).arg
    /\ handler' = IF Head(queue).arg = "ok" THEN "size" ELSE "none"
    /\ UNCHANGED <<readVars, sendVars, connVars, opVars, readSize, writeError, timeoutError,
                   readTimer, writeTimer, disturbed>>

\* ... and the size after.
ReadHandlerSize ==
    /\ handler = "size"
    /\ handler' = "none"
    /\ readSize' = TRUE
    /\ UNCHANGED <<readVars, sendVars, connVars, opVars, queue, readError, writeError,
                   timeoutError, readTimer, writeTimer, disturbed>>


WriteHandler ==
    /\ Take("write")
    /\ writeError' = Head(queue).arg
    /\ UNCHANGED <<readVars, sendVars, connVars, opVars, handler, readSize, readError,
                   timeoutError, readTimer, writeTimer, disturbed>>

\* Mutant: the expiry sets the flag only when an error is passed.
HandleTimeout_OnError ==
    /\ Take("timeout")
    /\ UNCHANGED <<readVars, sendVars, connVars, opVars, handler, readSize, readError,
                   writeError, timeoutError, readTimer, writeTimer, disturbed>>

\* A timer that expired; one that was cancelled changes nothing and is not queued.
HandleTimeout ==
    /\ Take("timeout")
    /\ timeoutError' = TRUE
    /\ UNCHANGED <<readVars, sendVars, connVars, opVars, handler, readSize, readError,
                   writeError, readTimer, writeTimer, disturbed>>

\* The connection is established: connect_handler.
Connects ==
    /\ comms /\ sock = "connecting"
    /\ sock' = "open"
    /\ up' = TRUE
    /\ UNCHANGED <<readVars, sendVars, comms, opVars, queue, handler, readSize, readError,
                   writeError, timeoutError, readTimer, writeTimer, disturbed>>

HandlerStep == ReadHandler \/ ReadHandlerSize \/ WriteHandler \/ HandleTimeout

-----------------------------------------------------------------------------
(* The network and the clock *)

ConnectionLost ==
    /\ sock = "open"
    /\ sock' \in {"closed", "broken"}
    /\ UNCHANGED <<readVars, sendVars, comms, up, opVars, queue, handler, readSize, readError,
                   writeError, timeoutError, readTimer, writeTimer, disturbed>>

ReadCompletes ==
    /\ reading > 0
    /\ reading' = reading - 1
    /\ \/ /\ sock = "open" /\ data < MaxData
          /\ data' = data + 1
          /\ buffer' = data + 1
          /\ queue' = Append(queue, Call("read", "ok"))
       \/ /\ sock \in {"closed", "broken"}
          /\ queue' = Append(queue, Call("read", IF sock = "closed" THEN "eof" ELSE "err"))
          /\ UNCHANGED <<data, buffer>>
    /\ UNCHANGED <<readVars, sendVars, connVars, writing, handler, readSize, readError,
                   writeError, timeoutError, readTimer, writeTimer, disturbed>>

WriteCompletes ==
    /\ writing > 0
    /\ writing' = writing - 1
    /\ \E arg \in {"ok", "err"} :
         /\ sock = "open" => arg = "ok"
         /\ queue' = Append(queue, Call("write", arg))
    /\ UNCHANGED <<readVars, sendVars, connVars, reading, buffer, data, handler, readSize,
                   readError, writeError, timeoutError, readTimer, writeTimer, disturbed>>

Expires ==
    /\ \/ readTimer = "waiting" /\ readTimer' = "quiet" /\ UNCHANGED writeTimer
       \/ writeTimer = "waiting" /\ writeTimer' = "quiet" /\ UNCHANGED readTimer
    /\ queue' = Append(queue, Call("timeout", "ok"))
    /\ UNCHANGED <<readVars, sendVars, connVars, opVars, handler, readSize, readError,
                   writeError, timeoutError, disturbed>>

NetworkStep == ConnectionLost \/ ReadCompletes \/ WriteCompletes \/ Connects

-----------------------------------------------------------------------------

crashed == rd = "crashed" \/ sd = "crashed"

\* A loop that finds nothing new sleeps, and looks again: for ever, if neither
\* a handler nor a timer is left to set anything.
Sleep ==
    \/ rd = "poll" /\ receiving /\ readError = "null" /\ ~timeoutError
    \/ sd = "send" /\ writeError = "null" /\ ~timeoutError

\* Both threads have made their calls.
AtRest == rd = "idle" /\ sd = "idle" /\ reads = MaxReads /\ sends = MaxSends

Next ==
    \/ ~crashed /\ (Read \/ Send \/ HandlerStep \/ NetworkStep \/ Expires)
    \/ (crashed \/ AtRest \/ Sleep) /\ UNCHANGED vars

\* A call that has begun goes on, the connection's thread runs its handlers,
\* timers expire, the peer accepts connections and the socket takes what is
\* written.  Nothing has to be received and nobody has to call.
Fairness ==
    /\ WF_vars(~crashed /\ Read /\ rd # "idle")
    /\ WF_vars(~crashed /\ Send /\ sd # "idle")
    /\ WF_vars(~crashed /\ HandlerStep)
    /\ WF_vars(~crashed /\ Expires)
    /\ WF_vars(~crashed /\ Connects)
    /\ WF_vars(~crashed /\ WriteCompletes)

Spec == Init /\ [][Next]_vars /\ Fairness

-----------------------------------------------------------------------------
(* Properties *)

Errors == {"null", "ok", "err", "eof"}
Calls == [fn : {"read"}, arg : {"ok", "err", "eof"}]
           \cup [fn : {"write"}, arg : {"ok", "err"}] \cup [fn : {"timeout"}, arg : {"ok"}]
Timers == {"null", "quiet", "waiting", "dangling"}

\* Every variable keeps its type.
TypeOK ==
    /\ rd \in {"idle", "connect", "check", "poll", "terminated", "crashed"}
    /\ sd \in {"idle", "send", "crashed"}
    /\ comms \in BOOLEAN /\ up \in BOOLEAN
    /\ sock \in {"connecting", "open", "closed", "broken", "gone"}
    /\ queue \in Seq(Calls)
    /\ handler \in {"none", "size"}
    /\ reading \in Nat /\ writing \in Nat /\ buffer \in 0..MaxData
    /\ receiving \in BOOLEAN /\ readSize \in BOOLEAN
    /\ readError \in Errors /\ writeError \in Errors \ {"eof"}
    /\ timeoutError \in BOOLEAN
    /\ readTimer \in Timers /\ writeTimer \in Timers
    /\ issued \in BOOLEAN /\ sent \in BOOLEAN
    /\ disturbed \in BOOLEAN /\ orphaned \in BOOLEAN /\ spoilt \in BOOLEAN
    /\ got \in Seq(1..MaxData)
    /\ reads \in 0..MaxReads /\ sends \in 0..MaxSends /\ data \in 0..MaxData

\* Until a Read gives up on a handler (at its timeout, or because it looked in
\* between the handler's two assignments), the Reads return all that arrives,
\* once and in order, whatever the Sends that overlap them do.
InOrder ==
    ~spoilt => /\ Len(got) \in {data - 1, data}
               /\ \A i \in 1..Len(got) : got[i] = i

\* A timer waits only while its call is in progress: none is left to expire
\* into the next call.
NoTimerLeft ==
    /\ readTimer = "waiting" => rd = "poll"
    /\ writeTimer = "waiting" => sd = "send"

\* Replacing the connection at end of stream crashes only a Send that overlaps
\* the Read: a thread that alternates the two calls never uses a null m_pComms
\* or a timer whose io_service is gone.
CrashNeedsOverlap == crashed => disturbed

\* A Read that sent its command returns, data or not, if no Send overlaps it.
ReadEnds == (rd = "poll" /\ issued /\ ~disturbed) ~> (rd = "idle" \/ disturbed)


-----------------------------------------------------------------------------
(* Strengthenings: what the invariants above need to be inductive *)

\* The connection is missing only while Read replaces it, and no timer waits then;
\* a wait belongs to a Read that polls m_bReceiving, or to a Send.
TimerOrder ==
    /\ ~comms <=> rd = "terminated"
    /\ ~comms => writeTimer # "waiting"
    /\ readTimer = "waiting" => rd = "poll" /\ receiving
    /\ rd = "poll" /\ issued => receiving
    /\ rd \in {"connect", "check"} => ~issued
    /\ readTimer # "dangling"

\* Calls that overlap have disturbed each other, and only the timer of a Send
\* that is still in progress has lost its io_service.
OverlapSeen ==
    /\ rd # "idle" /\ sd # "idle" => disturbed
    /\ writeTimer = "dangling" => sd # "idle" /\ disturbed
    /\ rd # "crashed"

NoReads(q) == \A i \in 1..Len(q) : q[i].fn # "read"
OneRead(q, arg) ==
    \E i \in 1..Len(q) :
      /\ q[i] = Call("read", arg)
      /\ \A j \in 1..Len(q) : j # i => q[j].fn # "read"
NoData(q) == \A i \in 1..Len(q) : q[i] # Call("read", "ok")

\* What has become of the one read that a Read may have issued: still
\* outstanding, its handler queued, half-way through or done.
Outstanding == reading = 1 /\ NoReads(queue) /\ handler = "none" /\ readError = "null" /\ ~readSize
Completed(arg) ==
    reading = 0 /\ OneRead(queue, arg) /\ handler = "none" /\ readError = "null" /\ ~readSize
HalfHandled == reading = 0 /\ NoReads(queue) /\ handler = "size" /\ readError = "ok" /\ ~readSize
Handled(arg) ==
    reading = 0 /\ NoReads(queue) /\ handler = "none" /\ readError = arg /\ (arg = "ok" => readSize)
NoRead == reading = 0 /\ NoReads(queue) /\ handler = "none" /\ readError = "null"

\* Every datum but the one in `buffer` that a Read is still to return was returned.
Behind == Len(got) = data - 1
Abreast == Len(got) = data
Issued == rd = "poll" /\ issued
InStep ==
    /\ rd = "connect" => ~readSize
    /\ \A i \in 1..Len(got) : got[i] = i
    /\ Issued =>
         \/ Outstanding /\ Abreast
         \/ (Completed("ok") \/ HalfHandled \/ Handled("ok")) /\ Behind
         \/ \E arg \in {"err", "eof"} : (Completed(arg) \/ Handled(arg)) /\ Abreast
    /\ rd = "terminated" => Handled("eof") /\ Abreast
    /\ ~Issued /\ rd # "terminated" => NoRead /\ Abreast

Buffered ==
    /\ buffer = data
    /\ data = 0 => readError # "ok" /\ NoData(queue)

IInv ==
    /\ TypeOK
    /\ NoTimerLeft /\ TimerOrder
    /\ OverlapSeen /\ CrashNeedsOverlap
    /\ Buffered
    /\ ~spoilt => InStep
=============================================================================
