---------------------------- MODULE AsyncSender ----------------------------
(***************************************************************************)
(* AsyncConnectionlessSender.cpp: a Send transmits its message and, after  *)
(* every transmission that succeeded, waits and transmits again until the  *)
(* count is reached.  All Sends share one message, one counter, one maximum*)
(* and one timer.  Send, StopSender and CloseSender are called on the      *)
(* user's thread, and Send also from the callback, while the io_service's  *)
(* thread runs the handlers.                                               *)
(*                                                                         *)
(* A message is the number of its Send.  The length of the interval is left*)
(* out, a string is assigned in one step, and a transmission that has been *)
(* started carries the message it was started with.  TerminateSender       *)
(* returns true before doing anything: it is no action here.               *)
(***************************************************************************)
EXTENDS Integers, Sequences, FiniteSets

CONSTANTS
    MaxCounts,   \* the values of p_iMaxSendCount, -1 being "for ever"
    MaxSends,    \* bound: calls of Send
    MaxRepeats   \* bound: what the counters count to, then they stay

ASSUME CountAssumption == MaxCounts \subseteq Int
ASSUME BoundAssumption ==
    MaxSends \in Nat /\ MaxRepeats \in Nat \ {0} /\ \A k \in MaxCounts : k < MaxRepeats

Indefinite == -1

VARIABLES
    message,  \* m_strMessage: the number of the Send that set it, 0 for none
    count,    \* m_iSendCount
    max,      \* m_iMaxSendCount
    timer,    \* m_bstTimer has a wait outstanding
    open,     \* m_bstSocket is open
    flying,   \* number of async_send_to outstanding
    ready,    \* the io_service's queue of handlers
    stopper,  \* the user's thread within StopSender; "done" until the next Send
    asked,    \* history: p_iMaxSendCount of the last Send
    sent,     \* history: transmissions of its message that were started
    failed,   \* history: a transmission has failed or been aborted since
    extra,    \* history: repetitions due when the last Send returned to its caller
    late,     \* history: transmissions started since StopSender returned
    pending   \* history: repetitions due when StopSender returned

messageVars == <<message, max, asked, extra>>
socketVars  == <<open, flying>>
vars == <<messageVars, socketVars, count, timer, ready, stopper, sent, failed, late, pending>>

-----------------------------------------------------------------------------

Completion(fn, arg) == [fn |-> fn, arg |-> arg]

\* Takes the handler fn(arg) from the io_service's queue and queues `posts`.
Handle(fn, arg, posts) ==
    /\ ready # <<>> /\ Head(ready) = Completion(fn, arg)
    /\ ready' = Tail(ready) \o posts

\* Cancelling the timer, or setting a new expiry, aborts the wait outstanding.
CancelTimer == IF timer THEN <<Completion("timeout", "err")>> ELSE <<>>

\* Cancelling or closing the socket aborts the transmissions outstanding.
CancelSends == [i \in 1..flying |-> Completion("send", "err")]

\* Repetitions due: the timer is running, or has expired with its handler queued.
Expiries(queue) == {i \in 1..Len(queue) : queue[i] = Completion("timeout", "ok")}
Expired == Cardinality(Expiries(ready))
Due(t) == Expired + (IF t THEN 1 ELSE 0)

\* Counters stop at the bound.
Next1(n) == IF n < MaxRepeats THEN n + 1 ELSE n

\* Mutant: the counter is compared with <=.
Repeat_OffByOne(c, m) == c <= m \/ m = Indefinite

\* Mutant: the last repetition is left out.
Repeat_TooFew(c, m) == c + 1 < m \/ m = Indefinite

\* HandleSend's condition for another repetition.
Repeat(c, m) == c < m \/ m = Indefinite

\* async_send_to: outstanding, or failed at once when the socket is closed.
SendPosts == IF open THEN <<>> ELSE <<Completion("send", "err")>>
StartSend == flying' = (IF open THEN flying + 1 ELSE flying) /\ UNCHANGED open

Init ==
    /\ message = 0 /\ count = 0 /\ max = 0
    /\ timer = FALSE /\ open = TRUE /\ flying = 0 /\ ready = <<>>
    /\ stopper = "none"
    /\ asked = 0 /\ sent = 0 /\ failed = FALSE /\ extra = 0
    /\ late = 0 /\ pending = 0

-----------------------------------------------------------------------------
(* Send, from the user's thread or from the callback *)

\* The new Send takes everything over, what is under way for earlier ones included.
SetMessage(k) ==
    /\ message < MaxSends /\ message' = message + 1
    /\ count' = 0 /\ max' = k
    /\ StartSend
    /\ asked' = k /\ sent' = 1 /\ failed' = FALSE
    /\ stopper' = IF stopper = "done" THEN "none" ELSE stopper
    /\ late' = 0
    /\ UNCHANGED pending

Send(k) ==
    /\ stopper \in {"none", "done"}
    /\ SetMessage(k)
    /\ ready' = ready \o SendPosts
    /\ extra' = Due(timer)
    /\ UNCHANGED timer

-----------------------------------------------------------------------------
(* The handlers, on the io_service's thread *)

\* Mutant: a repetition is not counted.
CountSend_NotCounted == count' = count

CountSend == count' = Next1(count)

\* A transmission is done, and the callback sends nothing.
HandleSendDone ==
    /\ CountSend
    /\ timer' = (timer \/ Repeat(count', max))
    /\ Handle("send", "ok", IF Repeat(count', max) THEN CancelTimer ELSE <<>>)
    /\ UNCHANGED <<messageVars, socketVars, stopper, sent, failed, late, pending>>

\* The callback sends a message: the count compared afterwards is that message's.
HandleSendThenSend(k) ==
    /\ SetMessage(k)
    /\ timer' = (timer \/ Repeat(0, k))
    /\ Handle("send", "ok", SendPosts \o IF Repeat(0, k) THEN CancelTimer ELSE <<>>)
    /\ extra' = Due(timer')

\* A transmission failed or was aborted: it is reported and not repeated.
HandleSendFailed ==
    /\ Handle("send", "err", <<>>)
    /\ failed' = TRUE
    /\ UNCHANGED <<messageVars, socketVars, count, timer, stopper, sent, late, pending>>

\* The interval is over: transmit again, whatever the message is by now.
HandleTimeout ==
    /\ Handle("timeout", "ok", SendPosts)
    /\ StartSend
    /\ sent' = Next1(sent)
    /\ late' = IF stopper = "done" THEN Next1(late) ELSE late
    /\ UNCHANGED <<messageVars, count, timer, stopper, failed, pending>>

\* The wait was aborted: it is reported.
HandleTimeoutAborted ==
    /\ Handle("timeout", "err", <<>>)
    /\ UNCHANGED <<messageVars, socketVars, count, timer, stopper, sent, failed, late, pending>>

\* The callback that reports an error sends a message.
HandleErrorThenSend(k) ==
    /\ \E fn \in {"send", "timeout"} : Handle(fn, "err", SendPosts)
    /\ SetMessage(k)
    /\ extra' = Due(timer)
    /\ UNCHANGED timer

HandleSend == HandleSendDone \/ HandleSendFailed \/ \E k \in MaxCounts : HandleSendThenSend(k)

IOThread ==
    \/ HandleSend
    \/ HandleTimeout \/ HandleTimeoutAborted
    \/ \E k \in MaxCounts : HandleErrorThenSend(k)

-----------------------------------------------------------------------------
(* The network and the clock *)

SendCompletes ==
    /\ flying > 0
    /\ flying' = flying - 1
    /\ \E arg \in {"ok", "err"} : ready' = Append(ready, Completion("send", arg))
    /\ UNCHANGED <<messageVars, open, count, timer, stopper, sent, failed, late, pending>>

TimerExpires ==
    /\ timer
    /\ timer' = FALSE
    /\ ready' = Append(ready, Completion("timeout", "ok"))
    /\ UNCHANGED <<messageVars, socketVars, count, stopper, sent, failed, late, pending>>

-----------------------------------------------------------------------------
(* StopSender and CloseSender, on the user's thread *)

\* Mutant: one of the transmissions is taken off, however many there are.
AbortSends_OneSend == flying' = flying - 1 /\ ready' = ready \o CancelSends

AbortSends == flying' = 0 /\ ready' = ready \o CancelSends

\* Mutant: the maximum is left as it was.
StopRepeating_Kept == UNCHANGED max

StopRepeating == max' = 0

StopTimer ==
    /\ stopper \in {"none", "done"} /\ stopper' = "timer"
    /\ timer' = FALSE
    /\ ready' = ready \o CancelTimer
    /\ UNCHANGED <<messageVars, socketVars, count, sent, failed, late, pending>>

\* On a closed socket nothing is outstanding, and the exception is caught.
StopSocket ==
    /\ stopper = "timer" /\ stopper' = "socket"
    /\ AbortSends
    /\ UNCHANGED <<messageVars, open, count, timer, sent, failed, late, pending>>

StopCount ==
    /\ stopper = "socket" /\ stopper' = "done"
    /\ StopRepeating
    /\ late' = 0 /\ pending' = Due(timer)
    /\ UNCHANGED <<message, asked, extra, socketVars, count, timer, ready, sent, failed>>

StopSender == StopSocket \/ StopCount

CloseSender ==
    /\ stopper \in {"none", "done"} /\ open
    /\ open' = FALSE
    /\ AbortSends
    /\ UNCHANGED <<messageVars, count, timer, stopper, sent, failed, late, pending>>

-----------------------------------------------------------------------------

\* Nothing is under way.
Silent == flying = 0 /\ ~timer /\ ready = <<>>

Done == Silent /\ UNCHANGED vars

Next ==
    \/ \E k \in MaxCounts : Send(k)
    \/ IOThread
    \/ SendCompletes \/ TimerExpires
    \/ StopTimer \/ StopSender \/ CloseSender
    \/ Done

\* The io_service's thread runs, transmissions complete, the timer expires and a
\* StopSender that has begun goes on.  Nobody has to call anything.
Fairness ==
    /\ WF_vars(IOThread)
    /\ WF_vars(SendCompletes)
    /\ WF_vars(TimerExpires)
    /\ WF_vars(StopSender)

Spec == Init /\ [][Next]_vars /\ Fairness

-----------------------------------------------------------------------------
(* Properties *)

Completions == [fn : {"send", "timeout"}, arg : {"ok", "err"}]

\* Every variable keeps its type.
TypeOK ==
    /\ message \in 0..MaxSends
    /\ count \in 0..MaxRepeats /\ sent \in 0..MaxRepeats /\ late \in 0..MaxRepeats
    /\ max \in MaxCounts \union {0} /\ asked \in MaxCounts \union {0}
    /\ timer \in BOOLEAN /\ open \in BOOLEAN /\ failed \in BOOLEAN
    /\ flying \in Nat /\ extra \in Nat /\ pending \in Nat
    /\ ready \in Seq(Completions)
    /\ stopper \in {"none", "timer", "socket", "done"}

\* A message with a finite count is transmitted once, repeated at most count - 1
\* times, and once more for each repetition that was due when it was sent: Sends
\* that share the counter and the timer do not multiply each other's repetitions.
SentAtMost ==
    asked # Indefinite => sent <= 1 + (IF asked > 1 THEN asked - 1 ELSE 0) + extra

\* After StopSender has returned only the repetitions that were due by then can
\* be transmitted, each of them once: no handler starts another.
StopHolds == stopper = "done" => late + Due(timer) <= pending

\* The first Send is transmitted as often as it was asked to, unless it fails, it
\* is stopped, or another Send takes over.
SentInFull ==
    message = 1 ~>
      \/ sent >= asked
      \/ failed \/ stopper # "none" \/ ~open
      \/ message > 1

\* With the last Send's count finite the sender falls silent.
FallsSilent == (message = MaxSends /\ max # Indefinite) ~> Silent

-----------------------------------------------------------------------------
(* Strengthenings: what the invariants above need to be inductive *)

\* The repetitions that HandleSend may still start, and all that a Send may transmit.
Left == IF count + 1 < asked THEN asked - 1 - count ELSE 0
Allowed == 1 + (IF asked > 1 THEN asked - 1 ELSE 0) + extra

\* What was transmitted, is due or may still be started never exceeds what is
\* allowed; the maximum is the last Send's unless StopSender has taken it away.
Budget ==
    /\ max \in {asked, 0}
    /\ stopper = "done" => max = 0
    /\ asked # Indefinite => sent + Due(timer) + Left <= Allowed

IInv == TypeOK /\ Budget /\ StopHolds
=============================================================================
