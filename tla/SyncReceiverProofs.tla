------------------------- MODULE SyncReceiverProofs -------------------------
(***************************************************************************)
(* Invariance proofs about SyncReceiver, for any number of calls of Receive*)
(* and any number of datagrams: types, that a polling Receive is always    *)
(* woken, and that a Receive with nothing left over ends by what has       *)
(* happened since it began.                                                *)
(***************************************************************************)
EXTENDS SyncReceiver, SequenceTheorems, TLAPS

-----------------------------------------------------------------------------
(* Queues of handlers *)

HasTimeout(q) == \E c \in Range(q) : c.fn = "timeout"

LEMMA ZeroSize == 0 \in Sizes /\ \A n \in Sizes : n \in Nat
BY BoundAssumption DEF Sizes

LEMMA CompletionType ==
    \A fn \in {"receive", "timeout"}, arg \in {"ok", "err"}, n \in Sizes :
       Completion(fn, arg, n) \in Completions
BY DEF Completion, Completions

LEMMA CompletionFields ==
    \A fn, arg, n : LET c == Completion(fn, arg, n)
                    IN  c.fn = fn /\ c.arg = arg /\ c.n = n
BY DEF Completion

LEMMA EmptyQueue == <<>> \in Seq(Completions) /\ NoReceives(<<>>) /\ NoTimeouts(<<>>)
BY DEF NoReceives, NoTimeouts

LEMMA TimeoutAt ==
    ASSUME NEW q \in Seq(Completions)
    PROVE  HasTimeout(q) <=> \E i \in 1..Len(q) : q[i].fn = "timeout"
<1>1. Range(q) = {q[i] : i \in 1..Len(q)}
  BY RangeEquality
<1> QED
  BY <1>1 DEF HasTimeout

LEMMA AppendQueue ==
    ASSUME NEW q \in Seq(Completions), NEW c \in Completions
    PROVE  /\ Append(q, c) \in Seq(Completions)
           /\ NoReceives(q) /\ c.fn # "receive" => NoReceives(Append(q, c))
           /\ NoTimeouts(q) /\ c.fn # "timeout" => NoTimeouts(Append(q, c))
           /\ \A d : OneReceive(q, d) /\ c.fn # "receive" => OneReceive(Append(q, c), d)
           /\ NoReceives(q) => OneReceive(Append(q, c), c)
           /\ HasTimeout(q) \/ c.fn = "timeout" => HasTimeout(Append(q, c))
<1>1. /\ Append(q, c) \in Seq(Completions)
      /\ Len(q) \in Nat /\ Len(Append(q, c)) = Len(q) + 1
      /\ \A i \in 1..Len(q) : Append(q, c)[i] = q[i]
      /\ Append(q, c)[Len(q) + 1] = c
  BY AppendProperties, LenProperties
<1>2. \A i \in 1..Len(Append(q, c)) : i \in 1..Len(q) \/ i = Len(q) + 1
  BY <1>1
<1>3. \A i \in 1..Len(q) : i \in 1..Len(Append(q, c)) /\ i # Len(q) + 1
  BY <1>1
<1>4. Len(q) + 1 \in 1..Len(Append(q, c))
  BY <1>1
<1>5. NoReceives(q) /\ c.fn # "receive" => NoReceives(Append(q, c))
  BY <1>1, <1>2 DEF NoReceives
<1>6. NoTimeouts(q) /\ c.fn # "timeout" => NoTimeouts(Append(q, c))
  BY <1>1, <1>2 DEF NoTimeouts
<1>7. \A d : OneReceive(q, d) /\ c.fn # "receive" => OneReceive(Append(q, c), d)
  BY <1>1, <1>2, <1>3 DEF OneReceive
<1>8. NoReceives(q) => OneReceive(Append(q, c), c)
  BY <1>1, <1>2, <1>4 DEF NoReceives, OneReceive
<1>9. HasTimeout(q) \/ c.fn = "timeout" => HasTimeout(Append(q, c))
  BY <1>1, <1>3, <1>4, TimeoutAt
<1> QED
  BY <1>1, <1>5, <1>6, <1>7, <1>8, <1>9

LEMMA TailQueue ==
    ASSUME NEW q \in Seq(Completions), q # <<>>
    PROVE  /\ Head(q) \in Completions /\ Tail(q) \in Seq(Completions)
           /\ NoReceives(q) => Head(q).fn # "receive" /\ NoReceives(Tail(q))
           /\ NoTimeouts(q) => Head(q).fn # "timeout" /\ NoTimeouts(Tail(q))
           /\ \A d : OneReceive(q, d) /\ d.fn = "receive" =>
                IF Head(q).fn = "receive"
                THEN Head(q) = d /\ NoReceives(Tail(q))
                ELSE OneReceive(Tail(q), d)
           /\ HasTimeout(q) => Head(q).fn = "timeout" \/ HasTimeout(Tail(q))
<1>1. /\ Head(q) \in Completions /\ Tail(q) \in Seq(Completions)
      /\ Len(q) \in Nat \ {0} /\ Len(Tail(q)) = Len(q) - 1
      /\ Head(q) = q[1]
      /\ \A i \in 1..Len(Tail(q)) : Tail(q)[i] = q[i + 1]
  BY HeadTailProperties, EmptySeq
<1>2. 1 \in 1..Len(q)
  BY <1>1
<1>3. \A i \in 1..Len(Tail(q)) : i + 1 \in 1..Len(q) /\ i + 1 # 1
  BY <1>1
<1>4. \A i \in 1..Len(q) : i = 1 \/ (i - 1 \in 1..Len(Tail(q)) /\ (i - 1) + 1 = i)
  BY <1>1
<1>5. NoReceives(q) => Head(q).fn # "receive" /\ NoReceives(Tail(q))
  BY <1>1, <1>2, <1>3 DEF NoReceives
<1>6. NoTimeouts(q) => Head(q).fn # "timeout" /\ NoTimeouts(Tail(q))
  BY <1>1, <1>2, <1>3 DEF NoTimeouts
<1>7. ASSUME NEW d, OneReceive(q, d), d.fn = "receive"
      PROVE  IF Head(q).fn = "receive"
             THEN Head(q) = d /\ NoReceives(Tail(q))
             ELSE OneReceive(Tail(q), d)
  <2>1. PICK i \in 1..Len(q) :
          /\ q[i] = d
          /\ \A j \in 1..Len(q) : j # i => q[j].fn # "receive"
    BY <1>7 DEF OneReceive
  <2>2. q[i].fn = "receive"
    BY <1>7, <2>1
  <2>3. CASE i = 1
    BY <1>1, <1>3, <2>1, <2>2, <2>3 DEF NoReceives
  <2>4. CASE i # 1
    <3>1. Head(q).fn # "receive"
      BY <1>1, <1>2, <2>1, <2>4
    <3>2. /\ i - 1 \in 1..Len(Tail(q)) /\ Tail(q)[i - 1] = d
          /\ \A j \in 1..Len(Tail(q)) : j # i - 1 => j + 1 # i
      BY <1>1, <1>4, <2>1, <2>4
    <3>3. \A j \in 1..Len(Tail(q)) : j # i - 1 => Tail(q)[j].fn # "receive"
      BY <1>1, <1>3, <2>1, <3>2
    <3> QED
      BY <3>1, <3>2, <3>3 DEF OneReceive
  <2> QED
    BY <2>3, <2>4
<1>8. ASSUME HasTimeout(q) PROVE Head(q).fn = "timeout" \/ HasTimeout(Tail(q))
  <2>1. PICK i \in 1..Len(q) : q[i].fn = "timeout"
    BY <1>8, TimeoutAt
  <2>2. i = 1 \/ \E j \in 1..Len(Tail(q)) : Tail(q)[j].fn = "timeout"
    BY <1>1, <1>4, <2>1
  <2>3. HasTimeout(Tail(q)) <=> \E j \in 1..Len(Tail(q)) : Tail(q)[j].fn = "timeout"
    BY <1>1, TimeoutAt
  <2> QED
    BY <1>1, <2>1, <2>2, <2>3
<1> QED
  BY <1>1, <1>5, <1>6, <1>7, <1>8

\* What cancelling the timer and the receives adds to the queue.
LEMMA CancelQueue ==
    ASSUME ready \in Seq(Completions), ops \in Nat
    PROVE  /\ ready \o CancelTimer \in Seq(Completions)
           /\ (ready \o CancelReceives) \o CancelTimer \in Seq(Completions)
           /\ (ready \o CancelTimer) \o CancelReceives \in Seq(Completions)
           /\ ~timer => CancelTimer = <<>>
<1>1. CancelReceives \in Seq(Completions)
  BY CompletionType, ZeroSize DEF CancelReceives
<1>2. Completion("timeout", "err", 0) \in Completions
  BY CompletionType, ZeroSize
<1>3. CancelTimer \in Seq(Completions) /\ (~timer => CancelTimer = <<>>)
  <2>1. CASE timer
    BY <1>2, <2>1 DEF CancelTimer
  <2>2. CASE ~timer
    BY <2>2, EmptyQueue DEF CancelTimer
  <2> QED
    BY <2>1, <2>2
<1> QED
  BY <1>1, <1>3, ConcatProperties
-----------------------------------------------------------------------------
(* Types *)

\* The Boolean variables apart from the rest: the provers differ in what they can do.
Flags ==
    /\ receiving \in BOOLEAN /\ timeoutError \in BOOLEAN /\ timer \in BOOLEAN
    /\ clean \in BOOLEAN /\ expired \in BOOLEAN /\ erred \in BOOLEAN

Plain ==
    /\ caller \in {"idle", "begun", "loop"}
    /\ readError \in {"none", "ok", "err"}
    /\ size \in Sizes /\ buffer \in Sizes /\ sizing \in Sizes /\ taken \in Sizes
    /\ ops \in Nat
    /\ ready \in Seq(Completions)
    /\ term \in {"none", "stopped", "flagged", "closed"}
    /\ outcome \in {"none", "received", "mixed up", "torn", "threw", "failed", "timed out",
                   "interrupted"}
    /\ calls \in 0..MaxReceives

LEMMA TypeSplit == (TypeOK <=> Flags /\ Plain) /\ (TypeOK' <=> Flags' /\ Plain')
BY DEF TypeOK, Flags, Plain

LEMMA NextCases ==
    ASSUME [Next]_vars
    PROVE  \/ Begin \/ StartReceiving \/ Interrupted \/ Succeeded \/ ThrewLength \/ Failed
           \/ TimedOut \/ HandleReceiveFrom \/ SetReadSize \/ HandleTimeout
           \/ TimerExpires \/ DatagramArrives \/ ReceiveFails
           \/ StopService \/ ClearReceiving \/ CloseSocket \/ UNCHANGED vars
BY DEF Next, Receive, IOThread, TerminateReceiver, Sleep, Done

LEMMA FlagsStep == ASSUME Flags, [Next]_vars PROVE Flags'
<1> USE DEF Flags, pollVars, resultVars, timerVars, socketVars
<1>1. CASE Begin
  BY <1>1, Zenon DEF Begin, ForgetResults, StartTimer
<1>2. CASE StartReceiving
  BY <1>2, Zenon DEF StartReceiving
<1>3. CASE Interrupted
  BY <1>3, Zenon DEF Interrupted, Return
<1>4. CASE Succeeded
  BY <1>4, Zenon DEF Succeeded, Take, ResultSeen, Return
<1>5. CASE ThrewLength
  BY <1>5, Zenon DEF ThrewLength, ResultSeen, Return
<1>6. CASE Failed
  BY <1>6, Zenon DEF Failed, Take, ResultSeen, Return
<1>7. CASE TimedOut
  BY <1>7, Zenon DEF TimedOut, Return, AbortReceives
<1>8. CASE HandleReceiveFrom
  BY <1>8, Zenon DEF HandleReceiveFrom, Handle
<1>9. CASE SetReadSize
  BY <1>9, Zenon DEF SetReadSize
<1>10. CASE HandleTimeout
  BY <1>10, Zenon DEF HandleTimeout, Handle
<1>11. CASE TimerExpires
  BY <1>11, Zenon DEF TimerExpires
<1>12. CASE DatagramArrives
  BY <1>12, Zenon DEF DatagramArrives
<1>13. CASE StopService
  BY <1>13, Zenon DEF StopService
<1>14. CASE ClearReceiving
  BY <1>14, Zenon DEF ClearReceiving, LowerFlag
<1>15. CASE CloseSocket
  BY <1>15, Zenon DEF CloseSocket, AbortReceives
<1>16. CASE UNCHANGED vars
  BY <1>16, Zenon DEF vars
<1>17. CASE ReceiveFails
  BY <1>17, Zenon DEF ReceiveFails
<1> QED
  BY <1>1, <1>2, <1>3, <1>4, <1>5, <1>6, <1>7, <1>8, <1>9, <1>10, <1>11, <1>12, <1>13, <1>14,
     <1>15, <1>16, <1>17, NextCases

LEMMA PlainStep == ASSUME TypeOK, [Next]_vars PROVE Plain'
<1> USE BoundAssumption DEF Plain, pollVars, resultVars, timerVars, socketVars
<1>0. Plain
  BY TypeSplit
<1>z. 0 \in Sizes
  BY ZeroSize
<1>n. ops \in Nat /\ buffer \in Sizes /\ calls \in 0..MaxReceives /\ MaxReceives \in Nat
  BY <1>0, Zenon
<1>a. /\ ready \o CancelTimer \in Seq(Completions)
      /\ (ready \o CancelReceives) \o CancelTimer \in Seq(Completions)
      /\ (ready \o CancelTimer) \o CancelReceives \in Seq(Completions)
  BY <1>0, CancelQueue
<1>b. ready # <<>> => Head(ready) \in Completions /\ Tail(ready) \in Seq(Completions)
  BY <1>0, TailQueue
<1>c. \A c \in Completions : Append(ready, c) \in Seq(Completions)
  BY <1>0, AppendQueue
<1>1. CASE Begin
  <2>1. /\ caller' = "begun" /\ readError' = "none" /\ size' = 0 /\ taken' = buffer
        /\ ready' = ready \o CancelTimer /\ ops' = ops + 1
        /\ calls < MaxReceives /\ calls' = calls + 1
        /\ buffer' = buffer /\ sizing' = sizing /\ term' = term /\ outcome' = outcome
    BY <1>1, Zenon DEF Begin, ForgetResults
  <2>2. ready' \in Seq(Completions)
    BY <1>a, <2>1
  <2>3. calls' \in 0..MaxReceives /\ ops' \in Nat
    BY <1>n, <2>1
  <2> QED
    BY <1>0, <1>z, <2>1, <2>2, <2>3
<1>2. CASE StartReceiving
  BY <1>0, <1>2 DEF StartReceiving
<1>3. CASE Interrupted
  BY <1>0, <1>3 DEF Interrupted, Return
<1>4. CASE Succeeded
  BY <1>0, <1>4, <1>a DEF Succeeded, Take, ResultSeen, Return
<1>5. CASE ThrewLength
  BY <1>0, <1>5, <1>a DEF ThrewLength, ResultSeen, Return
<1>6. CASE Failed
  BY <1>0, <1>6, <1>a DEF Failed, Take, ResultSeen, Return
<1>7. CASE TimedOut
  BY <1>0, <1>7, <1>a DEF TimedOut, Return, AbortReceives
<1>8. CASE HandleReceiveFrom
  BY <1>0, <1>8, <1>b DEF HandleReceiveFrom, Handle, Completions
<1>9. CASE SetReadSize
  BY <1>0, <1>z, <1>9 DEF SetReadSize
<1>10. CASE HandleTimeout
  BY <1>0, <1>10, <1>b DEF HandleTimeout, Handle, Completions
<1>11. CASE TimerExpires
  BY <1>0, <1>11, <1>c, <1>z, CompletionType DEF TimerExpires
<1>12. CASE DatagramArrives
  <2>1. buffer + 1 \in Sizes /\ ops' \in Nat
    <3>1. ops > 0 /\ ops' = ops - 1 /\ buffer < MaxDatagrams
      BY <1>12 DEF DatagramArrives
    <3> QED
      BY <1>n, <3>1 DEF Sizes
  <2>2. ready' \in Seq(Completions)
    <3>1. ready' = Append(ready, Completion("receive", "ok", buffer + 1))
      BY <1>12 DEF DatagramArrives
    <3>2. Completion("receive", "ok", buffer + 1) \in Completions
      BY <2>1, CompletionType
    <3> QED
      BY <1>c, <3>1, <3>2
  <2> QED
    BY <1>0, <1>12, <2>1, <2>2 DEF DatagramArrives
<1>13. CASE StopService
  BY <1>0, <1>13 DEF StopService
<1>14. CASE ClearReceiving
  BY <1>0, <1>14 DEF ClearReceiving, LowerFlag
<1>15. CASE CloseSocket
  BY <1>0, <1>15, <1>a DEF CloseSocket, AbortReceives
<1>16. CASE UNCHANGED vars
  BY <1>0, <1>16 DEF vars
<1>17. CASE ReceiveFails
  <2>1. ops > 0 /\ ops' = ops - 1 /\ ready' = Append(ready, Completion("receive", "err", 0))
    BY <1>17 DEF ReceiveFails
  <2>2. ready' \in Seq(Completions)
    BY <1>c, <1>z, <2>1, CompletionType
  <2>3. ops' \in Nat
    BY <1>n, <2>1
  <2> QED
    BY <1>0, <1>17, <2>2, <2>3 DEF ReceiveFails
<1> QED
  BY <1>1, <1>2, <1>3, <1>4, <1>5, <1>6, <1>7, <1>8, <1>9, <1>10, <1>11, <1>12, <1>13, <1>14,
     <1>15, <1>16, <1>17, NextCases
LEMMA TypeStep == ASSUME TypeOK, [Next]_vars PROVE TypeOK'
BY TypeSplit, FlagsStep, PlainStep

-----------------------------------------------------------------------------
(* The invariants *)

\* What a step to "idle" makes true of everything that is about a Receive under way.
LEMMA IdleSteps ==
    ASSUME Interrupted \/ Succeeded \/ ThrewLength \/ Failed \/ TimedOut
    PROVE  /\ caller = "loop" /\ caller' = "idle"
           /\ term' = term /\ sizing' = sizing /\ clean' = clean /\ expired' = expired
BY DEF Interrupted, Succeeded, ThrewLength, Failed, TimedOut, Take, ResultSeen, Return

LEMMA JoinedStep == ASSUME IInv, [Next]_vars PROVE Joined'
<1> USE DEF IInv, Joined, pollVars, resultVars, timerVars, socketVars
<1>1. CASE Begin
  BY <1>1 DEF Begin
<1>2. CASE Interrupted \/ Succeeded \/ ThrewLength \/ Failed \/ TimedOut
  BY <1>2, IdleSteps
<1>3. CASE HandleReceiveFrom
  BY <1>3 DEF HandleReceiveFrom, Handle, Serving
<1>4. CASE SetReadSize
  BY <1>4 DEF SetReadSize
<1>5. CASE ClearReceiving
  BY <1>5 DEF ClearReceiving
<1>6. CASE UNCHANGED <<sizing, term>>
  BY <1>6
<1>7. CASE StopService
  BY <1>7 DEF StopService
<1>8. CASE CloseSocket
  BY <1>8 DEF CloseSocket
<1>9. \/ StartReceiving \/ HandleTimeout \/ TimerExpires \/ DatagramArrives \/ ReceiveFails
      \/ UNCHANGED vars
      => UNCHANGED <<sizing, term>>
  BY DEF StartReceiving, HandleTimeout, TimerExpires, DatagramArrives, ReceiveFails, vars
<1> QED
  BY <1>1, <1>2, <1>3, <1>4, <1>5, <1>6, <1>7, <1>8, <1>9, NextCases

LEMMA FlagStep == ASSUME IInv, [Next]_vars PROVE FlagHolds'
<1>0. FlagHolds
  BY DEF IInv
<1> USE DEF FlagHolds, pollVars, resultVars, timerVars, socketVars
<1>1. CASE Begin
  BY <1>1 DEF Begin
<1>2. CASE StartReceiving
  BY <1>2, Zenon DEF StartReceiving
<1>3. CASE Interrupted \/ Succeeded \/ ThrewLength \/ Failed \/ TimedOut
  BY <1>3, IdleSteps
<1>4. CASE \/ HandleReceiveFrom \/ SetReadSize \/ HandleTimeout \/ TimerExpires
           \/ DatagramArrives \/ ReceiveFails \/ UNCHANGED vars
  <2>1. UNCHANGED <<caller, receiving, term>>
    BY <1>4, Zenon DEF HandleReceiveFrom, SetReadSize, HandleTimeout, TimerExpires,
       DatagramArrives, ReceiveFails, vars
  <2> QED
    BY <1>0, <2>1, Zenon
<1>5. CASE StopService \/ ClearReceiving \/ CloseSocket
  BY <1>5 DEF StopService, ClearReceiving, CloseSocket
<1> QED
  BY <1>1, <1>2, <1>3, <1>4, <1>5, NextCases

\* The handler at the head of the queue is taken off.
LEMMA HandleQueue ==
    ASSUME TypeOK, NEW fn, NEW arg, Handle(fn, arg)
    PROVE  /\ Serving /\ sizing = 0
           /\ ready \in Seq(Completions) /\ ready # <<>> /\ ready' = Tail(ready)
           /\ Head(ready).fn = fn /\ Head(ready).arg = arg
BY DEF Handle, TypeOK

LEMMA WakeStep == ASSUME IInv, [Next]_vars PROVE WakeUpPending'
<1> DEFINE Woken == readError # "none" \/ timeoutError \/ timer \/ HasTimeout(ready)
<1>0. /\ WakeUpPending <=> (caller # "idle" /\ Serving => Woken)
      /\ WakeUpPending' <=> (caller' # "idle" /\ Serving' => Woken')
  BY Zenon DEF WakeUpPending, HasTimeout
<1>q. TypeOK /\ WakeUpPending /\ ready \in Seq(Completions)
  BY DEF IInv, TypeOK
<1> USE DEF pollVars, resultVars, timerVars, socketVars
<1>1. CASE Begin
  BY <1>0, <1>1, Zenon DEF Begin, StartTimer
<1>2. CASE Interrupted \/ Succeeded \/ ThrewLength \/ Failed \/ TimedOut
  BY <1>0, <1>2, IdleSteps, Zenon
<1>3. CASE HandleReceiveFrom
  <2>1. readError' # "none"
    BY <1>3 DEF HandleReceiveFrom
  <2> QED
    BY <1>0, <2>1, Zenon
<1>4. CASE HandleTimeout
  BY <1>0, <1>4, Zenon DEF HandleTimeout
<1>5. CASE TimerExpires
  <2>1. HasTimeout(ready')
    <3>1. /\ Completion("timeout", "ok", 0) \in Completions
          /\ Completion("timeout", "ok", 0).fn = "timeout"
      BY CompletionType, CompletionFields, ZeroSize
    <3> QED
      BY <1>q, <1>5, <3>1, AppendQueue DEF TimerExpires
  <2>2. HasTimeout(ready)'
    BY <2>1 DEF HasTimeout
  <2> QED
    BY <1>0, <2>2, Zenon
<1>6. CASE DatagramArrives
  <2>1. HasTimeout(ready) => HasTimeout(ready')
    <3>1. buffer + 1 \in Sizes
      <4>1. buffer \in Sizes
        BY <1>q, Zenon DEF TypeOK
      <4>2. buffer < MaxDatagrams
        BY <1>6 DEF DatagramArrives
      <4> QED
        BY <4>1, <4>2, BoundAssumption DEF Sizes
    <3>2. Completion("receive", "ok", buffer + 1) \in Completions
      BY <3>1, CompletionType
    <3> QED
      BY <1>q, <1>6, <3>2, AppendQueue DEF DatagramArrives
  <2>2. UNCHANGED <<caller, term, readError, timeoutError, timer>>
    BY <1>6, Zenon DEF DatagramArrives
  <2>3. HasTimeout(ready) => HasTimeout(ready)'
    BY <2>1 DEF HasTimeout
  <2> QED
    BY <1>0, <1>q, <2>2, <2>3, Zenon DEF Serving
<1>7. CASE StopService \/ ClearReceiving \/ CloseSocket
  <2>1. ~Serving'
    BY <1>7 DEF StopService, ClearReceiving, CloseSocket, Serving
  <2> QED
    BY <1>0, <2>1, Zenon
<1>8. CASE StartReceiving \/ SetReadSize \/ UNCHANGED vars
  <2>1. UNCHANGED <<term, readError, timeoutError, timer, ready>>
    BY <1>8, Zenon DEF StartReceiving, SetReadSize, vars
  <2>2. caller' # "idle" => caller # "idle"
    BY <1>8 DEF StartReceiving, SetReadSize, vars
  <2> QED
    BY <1>0, <1>q, <2>1, <2>2, Zenon DEF Serving, HasTimeout
<1>9. CASE ReceiveFails
  <2>1. HasTimeout(ready) => HasTimeout(ready')
    BY <1>q, <1>9, AppendQueue, CompletionType, ZeroSize DEF ReceiveFails
  <2>2. UNCHANGED <<caller, term, readError, timeoutError, timer>>
    BY <1>9, Zenon DEF ReceiveFails
  <2>3. HasTimeout(ready) => HasTimeout(ready)'
    BY <2>1 DEF HasTimeout
  <2> QED
    BY <1>0, <1>q, <2>2, <2>3, Zenon DEF Serving
<1> QED
  BY <1>1, <1>2, <1>3, <1>4, <1>5, <1>6, <1>7, <1>8, <1>9, NextCases

\* What a clean Receive polls when there is a result.
LEMMA OwnDone ==
    ASSUME OwnResult, clean, caller # "idle", buffer \in Nat, taken \in Nat
    PROVE  /\ readError = "ok" /\ size # 0 => size = buffer /\ buffer > taken
           /\ readError = "ok" /\ size = 0 => sizing = buffer /\ buffer > taken
           /\ readError = "err" => erred
<1>1. CASE term # "closed"
  <2>1. OwnReceive
    BY <1>1 DEF OwnResult
  <2>2. readError = "ok" => Handled
    BY <2>1 DEF OwnReceive, Outstanding, Queued, FailureQueued, FailureHandled
  <2>3. readError = "err" => erred
    BY <2>1, <2>2 DEF OwnReceive, Outstanding, Queued, Handled
  <2> QED
    BY <2>2, <2>3 DEF Handled
<1>2. CASE term = "closed"
  <2>1. /\ readError = "err" => erred
        /\ readError = "ok" => size = buffer /\ buffer > taken
    BY <1>2 DEF OwnResult
  <2> QED
    BY <2>1
<1> QED
  BY <1>1, <1>2

LEMMA CleanStep == ASSUME IInv, [Next]_vars PROVE CleanReceive'
<1> USE DEF pollVars, resultVars, timerVars, socketVars
<1>0. TypeOK /\ CleanReceive /\ OwnResult /\ FlagHolds
      /\ buffer \in Nat /\ taken \in Nat
  BY ZeroSize, Zenon DEF IInv, TypeOK
<1>1. CASE Begin
  <2>1. caller' # "idle"
    BY <1>1 DEF Begin
  <2> QED
    BY <2>1, Zenon DEF CleanReceive
<1>2. CASE Interrupted
  <2>1. caller = "loop" /\ ~receiving /\ outcome' = "interrupted" /\ term' = term
    BY <1>2, Zenon DEF Interrupted, Return
  <2>2. term' # "none"
    BY <1>0, <2>1, Zenon DEF FlagHolds
  <2> QED
    BY <2>1, <2>2, Zenon DEF CleanReceive
<1>3. CASE Succeeded
  <2>1. /\ caller # "idle" /\ clean' = clean /\ buffer' = buffer /\ taken' = taken
        /\ readError = "ok" /\ size # 0
        /\ outcome' = IF size = buffer /\ buffer > taken THEN "received" ELSE "mixed up"
    BY <1>3 DEF Succeeded, Take, ResultSeen, Return
  <2>2. clean => size = buffer /\ buffer > taken
    BY <1>0, <2>1, OwnDone
  <2>3. clean' => outcome' = "received" /\ buffer' > taken'
    BY <2>1, <2>2
  <2> QED
    BY <2>3 DEF CleanReceive
<1>4. CASE ThrewLength
  <2>1. /\ caller # "idle" /\ clean' = clean /\ buffer' = buffer /\ taken' = taken
        /\ readError = "ok" /\ size = 0
        /\ outcome' = IF sizing = buffer /\ buffer > taken THEN "torn" ELSE "threw"
    BY <1>4 DEF ThrewLength, ResultSeen, Return
  <2>2. clean => sizing = buffer /\ buffer > taken
    BY <1>0, <2>1, OwnDone
  <2>3. clean' => outcome' = "torn" /\ buffer' > taken'
    BY <2>1, <2>2
  <2> QED
    BY <2>3 DEF CleanReceive
<1>5. CASE Failed
  <2>1. /\ caller # "idle" /\ clean' = clean /\ erred' = erred
        /\ readError = "err" /\ outcome' = "failed"
    BY <1>5, Zenon DEF Failed, Take, ResultSeen, Return
  <2>2. clean => erred
    BY <1>0, <2>1, OwnDone
  <2> QED
    BY <2>1, <2>2, Zenon DEF CleanReceive
<1>6. CASE TimedOut
  <2>1. caller # "idle" /\ timeoutError
    BY <1>6 DEF TimedOut
  <2>2. clean' = clean /\ expired' = expired /\ outcome' = "timed out"
    BY <1>6 DEF TimedOut, Return
  <2>3. clean => expired
    BY <1>0, <2>1, Zenon DEF OwnResult
  <2> QED
    BY <2>2, <2>3, Zenon DEF CleanReceive
<1>7. CASE \/ StartReceiving \/ HandleReceiveFrom \/ SetReadSize \/ HandleTimeout
           \/ UNCHANGED vars
  <2>1. /\ UNCHANGED <<outcome, clean, expired, erred, buffer, taken, term>>
        /\ caller' = "idle" => caller = "idle"
    BY <1>7 DEF StartReceiving, HandleReceiveFrom, SetReadSize, HandleTimeout, vars
  <2> QED
    BY <1>0, <2>1, Zenon DEF CleanReceive
<1>8. CASE StopService \/ ClearReceiving \/ CloseSocket
  <2>1. /\ UNCHANGED <<outcome, clean, expired, erred, buffer, taken, caller>>
        /\ term' # "none"
    BY <1>8 DEF StopService, ClearReceiving, CloseSocket
  <2> QED
    BY <1>0, <2>1, Zenon DEF CleanReceive
<1>9. CASE TimerExpires
  <2>1. UNCHANGED <<outcome, clean, caller, erred, buffer, taken, term>>
    BY <1>9 DEF TimerExpires
  <2>2. expired'
    BY <1>9, Zenon DEF TimerExpires
  <2> QED
    BY <1>0, <2>1, <2>2, Zenon DEF CleanReceive
<1>10. CASE ReceiveFails
  <2>1. UNCHANGED <<outcome, clean, caller, expired, buffer, taken, term>>
    BY <1>10 DEF ReceiveFails
  <2>2. erred'
    BY <1>10, Zenon DEF ReceiveFails
  <2> QED
    BY <1>0, <2>1, <2>2, Zenon DEF CleanReceive
<1>11. CASE DatagramArrives
  <2>1. UNCHANGED <<outcome, clean, caller, expired, erred, taken, term>>
    BY <1>11 DEF DatagramArrives
  <2>2. buffer' = buffer + 1
    BY <1>11 DEF DatagramArrives
  <2>3. buffer > taken => buffer' > taken'
    BY <1>0, <2>1, <2>2
  <2> QED
    BY <1>0, <2>1, <2>3, Zenon DEF CleanReceive
<1> QED
  BY <1>1, <1>2, <1>3, <1>4, <1>5, <1>6, <1>7, <1>8, <1>9, <1>10, <1>11, NextCases

\* A step that leaves the receive and its handler alone, whatever it does to timeouts.
LEMMA OwnKept ==
    ASSUME OwnReceive,
           UNCHANGED <<erred, readError, size, sizing, ops, buffer, taken>>,
           NoReceives(ready) => NoReceives(ready'),
           \A d : OneReceive(ready, d) /\ d.fn = "receive" => OneReceive(ready', d)
    PROVE  OwnReceive'
<1>1. NoReceives(ready) => NoReceives(ready)'
  BY DEF NoReceives
<1>2. /\ OneReceive(ready, Completion("receive", "ok", buffer))
           => OneReceive(ready, Completion("receive", "ok", buffer))'
      /\ OneReceive(ready, Completion("receive", "err", 0))
           => OneReceive(ready, Completion("receive", "err", 0))'
  BY CompletionFields DEF OneReceive, Completion
<1>3. /\ Outstanding => Outstanding'
      /\ Queued => Queued'
      /\ Handled => Handled'
      /\ FailureQueued => FailureQueued'
      /\ FailureHandled => FailureHandled'
  BY <1>1, <1>2 DEF Outstanding, Queued, Handled, FailureQueued, FailureHandled
<1>4. erred => erred'
  BY Zenon
<1> QED
  BY <1>3, <1>4, Zenon DEF OwnReceive

\* While an operation is outstanding it is the own one.
LEMMA OwnOutstanding ==
    ASSUME OwnReceive, ops > 0 PROVE Outstanding
<1>1. ops # 0
  OBVIOUS
<1> QED
  BY <1>1, Zenon DEF OwnReceive, Queued, Handled, FailureQueued, FailureHandled

\* What the Receives that are clean rest on, one action at a time.
LEMMA OwnStep == ASSUME IInv, [Next]_vars PROVE OwnResult'
<1> USE DEF pollVars, resultVars, timerVars, socketVars
<1>0. /\ TypeOK /\ OwnResult /\ Joined
      /\ buffer \in Nat /\ taken \in Nat /\ ops \in Nat /\ ready \in Seq(Completions)
  BY ZeroSize, Zenon DEF IInv, TypeOK
<1>1. CASE Begin
  <2>1. /\ clean' = (ready = <<>> /\ sizing = 0 /\ ops = 0 /\ ~timer)
        /\ ready' = ready \o CancelTimer /\ ~timeoutError'
    BY <1>1, Zenon DEF Begin, ForgetResults
  <2>2. /\ ops' = ops + 1 /\ taken' = buffer /\ buffer' = buffer
        /\ readError' = "none" /\ size' = 0 /\ sizing' = sizing
        /\ term # "closed" /\ term' = term
    BY <1>1, Zenon DEF Begin, ForgetResults
  <2>3. clean' => ready = <<>> /\ CancelTimer = <<>> /\ ops = 0 /\ sizing = 0
    BY <1>0, <2>1, CancelQueue, Zenon
  <2>4. clean' => ready' = <<>>
    BY <2>1, <2>3
  <2>5. clean' => Outstanding' /\ NoTimeouts(ready)'
    BY <2>2, <2>3, <2>4, EmptyQueue DEF Outstanding, NoReceives, NoTimeouts
  <2> QED
    BY <2>1, <2>2, <2>5, Zenon DEF OwnResult, OwnReceive
<1>2. CASE Interrupted \/ Succeeded \/ ThrewLength \/ Failed \/ TimedOut
  BY <1>2, IdleSteps, Zenon DEF OwnResult
<1> SUFFICES ASSUME clean', caller' # "idle", ~Begin,
                    ~(Interrupted \/ Succeeded \/ ThrewLength \/ Failed \/ TimedOut)
             PROVE  OwnResult'
  BY <1>1, <1>2, Zenon DEF OwnResult
<1>3. CASE HandleReceiveFrom
  <2>1. PICK arg \in {"ok", "err"} : Handle("receive", arg) /\ readError' = arg
    BY <1>3 DEF HandleReceiveFrom
  <2>2. /\ UNCHANGED <<clean, caller, timeoutError, expired, erred, term, size, ops, buffer, taken>>
        /\ sizing' = Head(ready).n
    BY <1>3, Zenon DEF HandleReceiveFrom
  <2>3. /\ Serving /\ sizing = 0 /\ ready # <<>> /\ ready' = Tail(ready)
        /\ Head(ready).fn = "receive" /\ Head(ready).arg = arg
    BY <1>0, <2>1, HandleQueue
  <2>4. /\ timeoutError => expired
        /\ OwnReceive
        /\ expired \/ NoTimeouts(ready)
    BY <1>0, <2>2, <2>3, Zenon DEF OwnResult, Serving
  <2>5. ~NoReceives(ready)
    BY <1>0, <2>3, TailQueue
  <2>6. Queued \/ (erred /\ FailureQueued)
    BY <2>4, <2>5, Zenon DEF OwnReceive, Outstanding, Handled, FailureHandled
  <2>7. ASSUME Queued PROVE OwnReceive'
    <3>1. Head(ready) = Completion("receive", "ok", buffer) /\ NoReceives(Tail(ready))
      BY <1>0, <2>3, <2>7, CompletionFields, TailQueue DEF Queued
    <3>2. readError' = "ok" /\ sizing' = buffer
      BY <2>1, <2>2, <2>3, <3>1, CompletionFields
    <3>3. Handled'
      BY <2>2, <2>3, <2>7, <3>1, <3>2 DEF Queued, Handled, NoReceives
    <3> QED
      BY <3>3 DEF OwnReceive
  <2>8. ASSUME erred, FailureQueued PROVE OwnReceive'
    <3>1. Head(ready) = Completion("receive", "err", 0) /\ NoReceives(Tail(ready))
      BY <1>0, <2>3, <2>8, CompletionFields, TailQueue DEF FailureQueued
    <3>2. readError' = "err" /\ sizing' = 0
      BY <2>1, <2>2, <2>3, <3>1, CompletionFields
    <3>3. FailureHandled'
      BY <2>2, <2>3, <2>8, <3>1, <3>2 DEF FailureQueued, FailureHandled, NoReceives
    <3>4. erred'
      BY <2>2, <2>8, Zenon
    <3> QED
      BY <3>3, <3>4, Zenon DEF OwnReceive
  <2>9. NoTimeouts(ready) => NoTimeouts(ready)'
    BY <1>0, <2>3, TailQueue DEF NoTimeouts
  <2> QED
    BY <2>2, <2>3, <2>4, <2>6, <2>7, <2>8, <2>9, Zenon DEF OwnResult, Serving
<1>4. CASE SetReadSize
  <2>1. /\ UNCHANGED <<clean, caller, timeoutError, expired, term, ready, ops, buffer, taken,
                        readError>>
        /\ sizing # 0 /\ size' = sizing /\ sizing' = 0
    BY <1>4, Zenon DEF SetReadSize
  <2>2. term # "closed"
    BY <1>0, <2>1 DEF Joined
  <2>3. /\ timeoutError => expired
        /\ OwnReceive
        /\ expired \/ NoTimeouts(ready)
    BY <1>0, <2>1, <2>2, Zenon DEF OwnResult
  <2>4. Handled
    BY <2>1, <2>3, Zenon DEF OwnReceive, Outstanding, Queued, FailureQueued, FailureHandled
  <2>5. Handled'
    BY <2>1, <2>4 DEF Handled, NoReceives
  <2> QED
    BY <2>1, <2>2, <2>3, <2>5, Zenon DEF OwnResult, OwnReceive, NoTimeouts
<1>5. CASE HandleTimeout
  <2>1. PICK arg \in {"ok", "err"} : Handle("timeout", arg)
    BY <1>5 DEF HandleTimeout
  <2>2. UNCHANGED <<clean, caller, expired, erred, term, readError, size, sizing, ops, buffer,
                    taken>>
    BY <1>5, Zenon DEF HandleTimeout
  <2>3. /\ Serving /\ ready # <<>> /\ ready' = Tail(ready) /\ Head(ready).fn = "timeout"
    BY <1>0, <2>1, HandleQueue
  <2>4. OwnReceive /\ (expired \/ NoTimeouts(ready))
    BY <1>0, <2>2, <2>3, Zenon DEF OwnResult, Serving
  <2>5. expired
    BY <1>0, <2>3, <2>4, TailQueue, Zenon
  <2>6. /\ NoReceives(ready) => NoReceives(ready')
        /\ \A d : OneReceive(ready, d) /\ d.fn = "receive" => OneReceive(ready', d)
    BY <1>0, <2>3, TailQueue
  <2>7. OwnReceive'
    BY <2>2, <2>4, <2>6, OwnKept
  <2> QED
    BY <2>2, <2>3, <2>5, <2>7, Zenon DEF OwnResult, Serving
<1>6. CASE TimerExpires
  <2>1. /\ UNCHANGED <<clean, caller, erred, term, readError, size, sizing, ops, buffer, taken>>
        /\ Serving /\ expired'
    BY <1>6, Zenon DEF TimerExpires
  <2>2. ready' = Append(ready, Completion("timeout", "ok", 0))
    BY <1>6 DEF TimerExpires
  <2>3. /\ Completion("timeout", "ok", 0) \in Completions
        /\ Completion("timeout", "ok", 0).fn # "receive"
    BY CompletionType, CompletionFields, ZeroSize
  <2>4. /\ NoReceives(ready) => NoReceives(ready')
        /\ \A d : OneReceive(ready, d) => OneReceive(ready', d)
    BY <1>0, <2>2, <2>3, AppendQueue
  <2>5. OwnReceive
    BY <1>0, <2>1, Zenon DEF OwnResult, Serving
  <2>6. OwnReceive'
    BY <2>1, <2>4, <2>5, OwnKept
  <2> QED
    BY <2>1, <2>6, Zenon DEF OwnResult, Serving
<1>7. CASE DatagramArrives
  <2>1. /\ UNCHANGED <<clean, caller, timeoutError, expired, term, readError, size, sizing, taken>>
        /\ Serving
    BY <1>7, Zenon DEF DatagramArrives
  <2>2. /\ ops > 0 /\ ops' = ops - 1 /\ buffer < MaxDatagrams /\ buffer' = buffer + 1
        /\ ready' = Append(ready, Completion("receive", "ok", buffer'))
    BY <1>7 DEF DatagramArrives
  <2>3. /\ timeoutError => expired
        /\ OwnReceive
        /\ expired \/ NoTimeouts(ready)
    BY <1>0, <2>1, Zenon DEF OwnResult, Serving
  <2>4. Outstanding
    BY <1>0, <2>2, <2>3, OwnOutstanding
  <2>5. buffer' \in Sizes /\ buffer' > taken' /\ ops' = 0
    BY <1>0, <2>1, <2>2, <2>4, BoundAssumption DEF Outstanding, Sizes
  <2>6. /\ Completion("receive", "ok", buffer') \in Completions
        /\ Completion("receive", "ok", buffer').fn # "timeout"
    BY <2>5, CompletionType, CompletionFields
  <2>7. /\ OneReceive(ready', Completion("receive", "ok", buffer'))
        /\ NoTimeouts(ready) => NoTimeouts(ready')
    BY <1>0, <2>2, <2>4, <2>6, AppendQueue DEF Outstanding
  <2>8. /\ OneReceive(ready, Completion("receive", "ok", buffer))'
        /\ NoTimeouts(ready) => NoTimeouts(ready)'
    BY <2>7 DEF OneReceive, NoTimeouts, Completion
  <2>9. Queued'
    BY <2>1, <2>4, <2>5, <2>8 DEF Outstanding, Queued
  <2> QED
    BY <2>1, <2>3, <2>8, <2>9, Zenon DEF OwnResult, OwnReceive, Serving
<1>10. CASE ReceiveFails
  <2>1. /\ UNCHANGED <<clean, caller, timeoutError, expired, term, readError, sizing>>
        /\ Serving /\ erred'
    BY <1>10, Zenon DEF ReceiveFails
  <2>2. /\ ops > 0 /\ ops' = ops - 1
        /\ ready' = Append(ready, Completion("receive", "err", 0))
    BY <1>10 DEF ReceiveFails
  <2>3. /\ timeoutError => expired
        /\ OwnReceive
        /\ expired \/ NoTimeouts(ready)
    BY <1>0, <2>1, Zenon DEF OwnResult, Serving
  <2>4. Outstanding
    BY <1>0, <2>2, <2>3, OwnOutstanding
  <2>5. /\ Completion("receive", "err", 0) \in Completions
        /\ Completion("receive", "err", 0).fn # "timeout"
    BY CompletionType, CompletionFields, ZeroSize
  <2>6. /\ OneReceive(ready', Completion("receive", "err", 0))
        /\ NoTimeouts(ready) => NoTimeouts(ready')
    BY <1>0, <2>2, <2>4, <2>5, AppendQueue DEF Outstanding
  <2>7. /\ OneReceive(ready, Completion("receive", "err", 0))'
        /\ NoTimeouts(ready) => NoTimeouts(ready)'
    BY <2>6 DEF OneReceive, NoTimeouts, Completion
  <2>8. FailureQueued'
    BY <2>1, <2>2, <2>4, <2>7 DEF Outstanding, FailureQueued
  <2> QED
    BY <2>1, <2>3, <2>7, <2>8, Zenon DEF OwnResult, OwnReceive, Serving
<1>8. CASE CloseSocket
  <2>1. /\ UNCHANGED <<clean, caller, timeoutError, expired, erred, readError, size, buffer, taken>>
        /\ term = "flagged" /\ term' = "closed"
    BY <1>8, Zenon DEF CloseSocket
  <2>2. /\ timeoutError => expired
        /\ OwnReceive
    BY <1>0, <2>1, Zenon DEF OwnResult
  <2>3. sizing = 0
    BY <1>0, <2>1 DEF Joined
  <2>4. Handled => size = buffer /\ buffer > taken
    BY <1>0, <2>3 DEF Handled
  <2>5. readError = "ok" => Handled
    BY <2>2, Zenon DEF OwnReceive, Outstanding, Queued, FailureQueued, FailureHandled
  <2>6. readError = "err" => erred
    BY <2>2, Zenon DEF OwnReceive, Outstanding, Queued, Handled
  <2> QED
    BY <2>1, <2>2, <2>4, <2>5, <2>6, Zenon DEF OwnResult
<1>9. CASE StartReceiving \/ StopService \/ ClearReceiving \/ UNCHANGED vars
  <2>1. UNCHANGED <<clean, timeoutError, expired, erred, readError, size, sizing, buffer, taken,
                    ops, ready>>
    BY <1>9, Zenon DEF StartReceiving, StopService, ClearReceiving, vars
  <2>2. caller # "idle" /\ (term' = "closed" <=> term = "closed")
    BY <1>9 DEF StartReceiving, StopService, ClearReceiving, vars
  <2>3. OwnReceive => OwnReceive'
    BY <2>1, OwnKept
  <2> QED
    BY <1>0, <2>1, <2>2, <2>3, Zenon DEF OwnResult, NoTimeouts
<1> QED
  BY <1>3, <1>4, <1>5, <1>6, <1>7, <1>8, <1>9, <1>10, NextCases

LEMMA StepInv == IInv /\ [Next]_vars => IInv'
<1> SUFFICES ASSUME IInv, [Next]_vars PROVE IInv'
  OBVIOUS
<1>1. TypeOK'
  BY TypeStep DEF IInv
<1> QED
  BY <1>1, WakeStep, CleanStep, JoinedStep, FlagStep, OwnStep, Zenon DEF IInv

LEMMA InitInv == Init => IInv
<1> SUFFICES ASSUME Init PROVE IInv
  OBVIOUS
<1>1. Flags
  BY Zenon DEF Init, Flags
<1>2. Plain
  BY BoundAssumption, ZeroSize, EmptyQueue DEF Init, Plain
<1>3. caller = "idle" /\ ~clean /\ term = "none"
  BY Zenon DEF Init
<1> QED
  BY <1>1, <1>2, <1>3, TypeSplit DEF IInv, WakeUpPending, CleanReceive, Joined, FlagHolds, OwnResult

-----------------------------------------------------------------------------
(* The theorems *)

\* The strengthened invariant holds of every behaviour, for any number of Receives
\* and of datagrams.
THEOREM Inductive == Spec => []IInv
BY InitInv, StepInv, PTL DEF Spec

\* Every variable of the receiver keeps its type.
THEOREM TypeCorrect == Spec => []TypeOK
<1>1. IInv => TypeOK
  BY DEF IInv
<1> QED
  BY <1>1, Inductive, PTL

\* Whatever the handlers of earlier Receives do to the members that Receive polls,
\* while the io_service runs something is there that wakes it.
THEOREM AlwaysWoken == Spec => []WakeUpPending
<1>1. IInv => WakeUpPending
  BY DEF IInv
<1> QED
  BY <1>1, Inductive, PTL

\* A Receive that begins with nothing left over ends by what has happened since it
\* began: it returns the datagram that arrived, reports its own receive's error or
\* its own timer's expiry, or was terminated; or it loses the datagram by polling
\* between the two assignments of its handler, and in no other way.
THEOREM CleanIsOwn == Spec => []CleanReceive
<1>1. IInv => CleanReceive
  BY DEF IInv
<1> QED
  BY <1>1, Inductive, PTL
=============================================================================
