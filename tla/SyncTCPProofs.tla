---------------------------- MODULE SyncTCPProofs ----------------------------
(***************************************************************************)
(* Invariance proofs about SyncTCP, for any number of calls of Read and    *)
(* Send and of reads that succeed: types, timers, what a replacement of    *)
(* the connection can crash, and the order of what the Reads return.       *)
(***************************************************************************)
EXTENDS SyncTCP, SequenceTheorems, TLAPS

-----------------------------------------------------------------------------
(* Queues of handlers *)

LEMMA CallType ==
    /\ \A arg \in {"ok", "err", "eof"} : Call("read", arg) \in Calls
    /\ \A arg \in {"ok", "err"} : Call("write", arg) \in Calls
    /\ Call("timeout", "ok") \in Calls
BY DEF Call, Calls

LEMMA AppendQueue ==
    ASSUME NEW q \in Seq(Calls), NEW c \in Calls
    PROVE  /\ Append(q, c) \in Seq(Calls)
           /\ NoReads(q) /\ c.fn # "read" => NoReads(Append(q, c))
           /\ \A arg : OneRead(q, arg) /\ c.fn # "read" => OneRead(Append(q, c), arg)
           /\ \A arg : NoReads(q) /\ c = Call("read", arg) => OneRead(Append(q, c), arg)
           /\ NoData(q) /\ c # Call("read", "ok") => NoData(Append(q, c))
<1>1. /\ Append(q, c) \in Seq(Calls)
      /\ Len(q) \in Nat /\ Len(Append(q, c)) = Len(q) + 1
      /\ \A i \in 1..Len(q) : Append(q, c)[i] = q[i]
      /\ Append(q, c)[Len(q) + 1] = c
  BY AppendProperties, LenProperties
<1>2. \A i \in 1..Len(Append(q, c)) : i \in 1..Len(q) \/ i = Len(q) + 1
  BY <1>1
<1>3. \A i \in 1..Len(q) : i \in 1..Len(Append(q, c)) /\ i # Len(q) + 1
  BY <1>1
<1>4. Len(q) + 1 \in 1..Len(Append(q, c))
  BY <1>1
<1>5. NoReads(q) /\ c.fn # "read" => NoReads(Append(q, c))
  BY <1>1, <1>2 DEF NoReads
<1>6. \A arg : OneRead(q, arg) /\ c.fn # "read" => OneRead(Append(q, c), arg)
  BY <1>1, <1>2, <1>3 DEF OneRead
<1>7. \A arg : NoReads(q) /\ c = Call("read", arg) => OneRead(Append(q, c), arg)
  BY <1>1, <1>2, <1>4 DEF NoReads, OneRead
<1>8. NoData(q) /\ c # Call("read", "ok") => NoData(Append(q, c))
  BY <1>1, <1>2 DEF NoData
<1> QED
  BY <1>1, <1>5, <1>6, <1>7, <1>8

LEMMA TailQueue ==
    ASSUME NEW q \in Seq(Calls), q # <<>>
    PROVE  /\ Head(q) \in Calls /\ Tail(q) \in Seq(Calls)
           /\ NoReads(q) => Head(q).fn # "read" /\ NoReads(Tail(q))
           /\ \A arg : OneRead(q, arg) =>
                IF Head(q).fn = "read" THEN Head(q) = Call("read", arg) /\ NoReads(Tail(q))
                ELSE OneRead(Tail(q), arg)
           /\ NoData(q) => Head(q) # Call("read", "ok") /\ NoData(Tail(q))
<1>1. /\ Head(q) \in Calls /\ Tail(q) \in Seq(Calls)
      /\ Len(q) \in Nat \ {0} /\ Len(Tail(q)) = Len(q) - 1
      /\ Head(q) = q[1]
      /\ \A i \in 1..Len(Tail(q)) : Tail(q)[i] = q[i + 1]
  BY HeadTailProperties, EmptySeq
<1>2. 1 \in 1..Len(q)
  BY <1>1
<1>3. \A i \in 1..Len(Tail(q)) : i + 1 \in 1..Len(q) /\ i + 1 # 1
  BY <1>1
<1>4. \A i \in 1..Len(q) : i = 1 \/ (i - 1 \in 1..Len(Tail(q)) /\ (i - 1) + 1 = i)
  BY <1>1
<1>5. NoReads(q) => Head(q).fn # "read" /\ NoReads(Tail(q))
  BY <1>1, <1>2, <1>3 DEF NoReads
<1>6. ASSUME NEW arg, OneRead(q, arg)
      PROVE  IF Head(q).fn = "read" THEN Head(q) = Call("read", arg) /\ NoReads(Tail(q))
             ELSE OneRead(Tail(q), arg)
  <2>1. PICK i \in 1..Len(q) :
          q[i] = Call("read", arg) /\ \A j \in 1..Len(q) : j # i => q[j].fn # "read"
    BY <1>6 DEF OneRead
  <2>2. q[i].fn = "read"
    BY <2>1 DEF Call
  <2>3. CASE i = 1
    BY <1>1, <1>3, <2>1, <2>2, <2>3 DEF NoReads
  <2>4. CASE i # 1
    <3>1. Head(q).fn # "read"
      BY <1>1, <1>2, <2>1, <2>4
    <3>2. /\ i - 1 \in 1..Len(Tail(q)) /\ Tail(q)[i - 1] = Call("read", arg)
          /\ \A j \in 1..Len(Tail(q)) : j # i - 1 => j + 1 # i
      BY <1>1, <1>4, <2>1, <2>4
    <3>3. \A j \in 1..Len(Tail(q)) : j # i - 1 => Tail(q)[j].fn # "read"
      BY <1>1, <1>3, <2>1, <3>2
    <3> QED
      BY <3>1, <3>2, <3>3 DEF OneRead
  <2> QED
    BY <2>3, <2>4
<1>7. NoData(q) => Head(q) # Call("read", "ok") /\ NoData(Tail(q))
  BY <1>1, <1>2, <1>3 DEF NoData
<1> QED
  BY <1>1, <1>5, <1>6, <1>7

\* What CancelIO adds to the queue.
LEMMA CancelQueue ==
    ASSUME queue \in Seq(Calls), reading \in Nat, writing \in Nat
    PROVE  LET q == queue \o CancelPosts
           IN  /\ q \in Seq(Calls)
               /\ reading = 0 /\ NoReads(queue) => NoReads(q)
               /\ \A arg : reading = 0 /\ OneRead(queue, arg) => OneRead(q, arg)
               /\ reading = 1 /\ NoReads(queue) => OneRead(q, "err")
               /\ NoData(queue) => NoData(q)
<1> DEFINE r == [i \in 1..reading |-> Call("read", "err")]
           w == [i \in 1..writing |-> Call("write", "err")]
           q == queue \o CancelPosts
<1>1. /\ r \in Seq(Calls) /\ Len(r) = reading
      /\ w \in Seq(Calls) /\ Len(w) = writing
  BY CallType
<1>2. r \o w \in Seq(Calls) /\ CancelPosts = r \o w /\ Len(r \o w) = reading + writing
  BY <1>1, ConcatProperties DEF CancelPosts
<1>3. /\ \A i \in 1..reading : (r \o w)[i] = Call("read", "err")
      /\ \A i \in 1..(reading + writing) : i > reading => (r \o w)[i] = Call("write", "err")
  BY <1>1, <1>2, ConcatProperties
<1>4. /\ q \in Seq(Calls) /\ Len(queue) \in Nat
      /\ Len(q) = Len(queue) + reading + writing
      /\ \A i \in 1..Len(queue) : i \in 1..Len(q) /\ q[i] = queue[i]
      /\ \A i \in 1..Len(q) : i > Len(queue) =>
           /\ i - Len(queue) \in 1..(reading + writing)
           /\ q[i] = (r \o w)[i - Len(queue)]
  BY <1>2, ConcatProperties, LenProperties
<1> HIDE DEF q, r, w
<1>5. \A i \in 1..Len(q) : i > Len(queue) =>
        q[i] = IF i > Len(queue) + reading THEN Call("write", "err") ELSE Call("read", "err")
  <2> SUFFICES ASSUME NEW i \in 1..Len(q), i > Len(queue)
               PROVE  q[i] = IF i > Len(queue) + reading THEN Call("write", "err")
                             ELSE Call("read", "err")
    OBVIOUS
  <2> DEFINE k == i - Len(queue)
  <2>1. k \in 1..(reading + writing) /\ q[i] = (r \o w)[k]
    BY <1>4
  <2>2. (k > reading <=> i > Len(queue) + reading) /\ (~(k > reading) => k \in 1..reading)
    BY <1>4, <2>1
  <2> HIDE DEF k
  <2> QED
    BY <1>3, <2>1, <2>2
<1>6. /\ Call("write", "err").fn # "read" /\ Call("read", "err").fn = "read"
      /\ Call("write", "err") # Call("read", "ok") /\ Call("read", "err") # Call("read", "ok")
  BY DEF Call
<1>7. \A i \in 1..Len(q) : i \in 1..Len(queue) \/ i > Len(queue)
  BY <1>4
<1>8. reading = 0 /\ NoReads(queue) => NoReads(q)
  BY <1>4, <1>5, <1>6, <1>7 DEF NoReads
<1>9. ASSUME NEW arg, reading = 0, OneRead(queue, arg) PROVE OneRead(q, arg)
  <2>1. PICK i \in 1..Len(queue) :
          /\ queue[i] = Call("read", arg)
          /\ \A j \in 1..Len(queue) : j # i => queue[j].fn # "read"
    BY <1>9 DEF OneRead
  <2>2. \A j \in 1..Len(q) : j # i => q[j].fn # "read"
    BY <1>4, <1>5, <1>6, <1>7, <1>9, <2>1
  <2> QED
    BY <1>4, <2>1, <2>2 DEF OneRead
<1>10. ASSUME reading = 1, NoReads(queue) PROVE OneRead(q, "err")
  <2>1. Len(queue) + 1 \in 1..Len(q) /\ q[Len(queue) + 1] = Call("read", "err")
    BY <1>4, <1>5, <1>10
  <2>2. \A j \in 1..Len(q) : j # Len(queue) + 1 => q[j].fn # "read"
    BY <1>4, <1>5, <1>6, <1>7, <1>10 DEF NoReads
  <2> QED
    BY <2>1, <2>2 DEF OneRead
<1>11. NoData(queue) => NoData(q)
  BY <1>4, <1>5, <1>6, <1>7 DEF NoData
<1> QED
  BY <1>4, <1>8, <1>9, <1>10, <1>11 DEF q

-----------------------------------------------------------------------------
(* Types *)

LEMMA QueueType == TypeOK => queue \in Seq(Calls) /\ reading \in Nat /\ writing \in Nat
BY DEF TypeOK

\* The handlers that the network, the timers and CancelIO complete.
LEMMA QueueSteps ==
    ASSUME TypeOK
    PROVE  /\ \A c \in Calls : Append(queue, c) \in Seq(Calls)
           /\ CancelIO => queue' \in Seq(Calls) /\ reading' \in Nat /\ writing' \in Nat
           /\ \A fn : Take(fn) =>
                queue' \in Seq(Calls) /\ Head(queue) \in Calls /\ Head(queue).fn = fn
<1>1. queue \in Seq(Calls) /\ reading \in Nat /\ writing \in Nat
  BY QueueType
<1>2. \A c \in Calls : Append(queue, c) \in Seq(Calls)
  BY <1>1, AppendQueue
<1>3. CancelIO => queue' \in Seq(Calls) /\ reading' \in Nat /\ writing' \in Nat
  BY <1>1, CancelQueue DEF CancelIO
<1>4. \A fn : Take(fn) => queue' \in Seq(Calls) /\ Head(queue) \in Calls /\ Head(queue).fn = fn
  BY <1>1, TailQueue DEF Take
<1> QED
  BY <1>2, <1>3, <1>4

\* The Boolean variables apart from the rest: the provers differ in what they can do.
Flags ==
    /\ comms \in BOOLEAN /\ up \in BOOLEAN
    /\ receiving \in BOOLEAN /\ readSize \in BOOLEAN /\ timeoutError \in BOOLEAN
    /\ issued \in BOOLEAN /\ sent \in BOOLEAN
    /\ disturbed \in BOOLEAN /\ orphaned \in BOOLEAN /\ spoilt \in BOOLEAN

Plain ==
    /\ rd \in {"idle", "connect", "check", "poll", "terminated", "crashed"}
    /\ sd \in {"idle", "send", "crashed"}
    /\ sock \in {"connecting", "open", "closed", "broken", "gone"}
    /\ queue \in Seq(Calls)
    /\ handler \in {"none", "size"}
    /\ reading \in Nat /\ writing \in Nat /\ buffer \in 0..MaxData
    /\ readError \in Errors /\ writeError \in Errors \ {"eof"}
    /\ readTimer \in Timers /\ writeTimer \in Timers
    /\ got \in Seq(1..MaxData)
    /\ reads \in 0..MaxReads /\ sends \in 0..MaxSends /\ data \in 0..MaxData

LEMMA TypeSplit == (TypeOK <=> Flags /\ Plain) /\ (TypeOK' <=> Flags' /\ Plain')
BY DEF TypeOK, Flags, Plain

LEMMA FlagsStep ==
    ASSUME Flags, Read \/ Send \/ HandlerStep \/ NetworkStep \/ Expires
    PROVE  Flags'
<1> USE DEF Flags, readVars, sendVars, connVars, opVars
<1>1. CASE ReadBegin
  BY <1>1, Zenon DEF ReadBegin
<1>2. CASE ReadIssue
  BY <1>2, Zenon DEF ReadIssue
<1>3. CASE ReadGivesUp
  BY <1>3, Zenon DEF ReadGivesUp
<1>4. CASE ReadCheck
  BY <1>4, Zenon DEF ReadCheck
<1>5. CASE PollNothing
  BY <1>5, Zenon DEF PollNothing
<1>6. CASE PollData
  BY <1>6, Zenon DEF PollData
<1>7. CASE PollTorn
  BY <1>7, Zenon DEF PollTorn
<1>8. CASE PollError
  BY <1>8, Zenon DEF PollError
<1>9. CASE PollEof
  BY <1>9, Zenon DEF PollEof
<1>10. CASE Reinit
  BY <1>10, Zenon DEF Reinit, Fresh
<1>11. CASE PollTimeout
  BY <1>11, Zenon DEF PollTimeout
<1>12. CASE SendBegin
  BY <1>12, Zenon DEF SendBegin
<1>13. CASE SendCrashes
  BY <1>13, Zenon DEF SendCrashes
<1>14. CASE SendWrite
  BY <1>14, Zenon DEF SendWrite
<1>15. CASE SendReturns
  BY <1>15, Zenon DEF SendReturns
<1>16. CASE SendTimeout
  BY <1>16, Zenon DEF SendTimeout
<1>17. CASE ReadHandler
  BY <1>17, Zenon DEF ReadHandler
<1>18. CASE ReadHandlerSize
  BY <1>18, Zenon DEF ReadHandlerSize
<1>19. CASE WriteHandler
  BY <1>19, Zenon DEF WriteHandler
<1>20. CASE HandleTimeout
  BY <1>20, Zenon DEF HandleTimeout
<1>21. CASE ConnectionLost
  BY <1>21, Zenon DEF ConnectionLost
<1>22. CASE ReadCompletes
  BY <1>22, Zenon DEF ReadCompletes
<1>23. CASE WriteCompletes
  BY <1>23, Zenon DEF WriteCompletes
<1>24. CASE Connects
  BY <1>24, Zenon DEF Connects
<1>25. CASE Expires
  BY <1>25, Zenon DEF Expires
<1> QED
  BY <1>1, <1>2, <1>3, <1>4, <1>5, <1>6, <1>7, <1>8, <1>9, <1>10, <1>11, <1>12, <1>13, <1>14,
     <1>15, <1>16, <1>17, <1>18, <1>19, <1>20, <1>21, <1>22, <1>23, <1>24, <1>25
  DEF Read, Send, HandlerStep, NetworkStep

LEMMA PlainRead == ASSUME IInv, Read PROVE Plain'
<1> USE BoundAssumption DEF Plain, Errors, Timers, readVars, sendVars, connVars, opVars
<1>1. TypeOK /\ Plain /\ (data = 0 => readError # "ok") /\ buffer = data
  BY TypeSplit DEF IInv, Buffered
<1>2. CASE ReadBegin
  BY <1>1, <1>2 DEF ReadBegin
<1>3. CASE ReadIssue
  BY <1>1, <1>3 DEF ReadIssue
<1>4. CASE ReadGivesUp
  BY <1>1, <1>4 DEF ReadGivesUp
<1>5. CASE ReadCheck
  BY <1>1, <1>5 DEF ReadCheck
<1>6. CASE PollNothing
  BY <1>1, <1>6 DEF PollNothing
<1>7. CASE PollTorn
  BY <1>1, <1>7 DEF PollTorn, Cancelled
<1>8. CASE PollError
  BY <1>1, <1>8 DEF PollError, Cancelled
<1>9. CASE PollData
  <2>1. buffer \in 1..MaxData
    BY <1>1, <1>9 DEF PollData, Reported
  <2>2. Append(got, buffer) \in Seq(1..MaxData)
    BY <1>1, <2>1, AppendProperties
  <2> QED
    BY <1>1, <1>9, <2>2 DEF PollData, Cancelled
<1>10. CASE PollEof
  <2>1. <<>> \in Seq(Calls)
    BY EmptySeq
  <2> QED
    BY <1>1, <1>10, <2>1 DEF PollEof, Cancelled, Orphaned
<1>11. CASE Reinit
  BY <1>1, <1>11 DEF Reinit, Fresh
<1>12. CASE PollTimeout
  <2>1. queue' \in Seq(Calls) /\ reading' \in Nat /\ writing' \in Nat
    BY <1>1, <1>12, QueueSteps DEF PollTimeout
  <2> QED
    BY <1>1, <1>12, <2>1 DEF PollTimeout
<1> QED
  BY <1>2, <1>3, <1>4, <1>5, <1>6, <1>7, <1>8, <1>9, <1>10, <1>11, <1>12 DEF Read

LEMMA PlainSend == ASSUME TypeOK, Send PROVE Plain'
<1> USE BoundAssumption DEF Plain, Errors, Timers, readVars, sendVars, connVars, opVars
<1>1. Plain
  BY TypeSplit
<1>2. CASE SendBegin
  BY <1>1, <1>2 DEF SendBegin
<1>3. CASE SendCrashes
  BY <1>1, <1>3 DEF SendCrashes
<1>4. CASE SendWrite
  BY <1>1, <1>4 DEF SendWrite
<1>5. CASE SendReturns
  BY <1>1, <1>5 DEF SendReturns, Cancelled
<1>6. CASE SendTimeout
  <2>1. queue' \in Seq(Calls) /\ reading' \in Nat /\ writing' \in Nat
    BY <1>6, QueueSteps DEF SendTimeout
  <2> QED
    BY <1>1, <1>6, <2>1 DEF SendTimeout
<1> QED
  BY <1>2, <1>3, <1>4, <1>5, <1>6 DEF Send

LEMMA PlainOutside ==
    ASSUME TypeOK, HandlerStep \/ NetworkStep \/ Expires
    PROVE  Plain'
<1> USE BoundAssumption DEF Plain, Errors, Timers, readVars, sendVars, connVars, opVars
<1>1. Plain
  BY TypeSplit
<1>2. CASE ReadHandlerSize
  BY <1>1, <1>2 DEF ReadHandlerSize
<1>3. CASE ConnectionLost
  BY <1>1, <1>3 DEF ConnectionLost
<1>4. CASE Connects
  BY <1>1, <1>4 DEF Connects
<1>5. CASE ReadHandler
  <2>1. queue' \in Seq(Calls) /\ Head(queue).arg \in Errors
    BY <1>5, QueueSteps DEF ReadHandler, Calls
  <2> QED
    BY <1>1, <1>5, <2>1 DEF ReadHandler
<1>6. CASE WriteHandler
  <2>1. queue' \in Seq(Calls) /\ Head(queue).arg \in Errors \ {"eof"}
    BY <1>6, QueueSteps DEF WriteHandler, Calls
  <2> QED
    BY <1>1, <1>6, <2>1 DEF WriteHandler
<1>7. CASE HandleTimeout
  <2>1. queue' \in Seq(Calls)
    BY <1>7, QueueSteps DEF HandleTimeout
  <2> QED
    BY <1>1, <1>7, <2>1 DEF HandleTimeout
<1>8. CASE ReadCompletes
  <2>1. queue' \in Seq(Calls)
    BY <1>8, QueueSteps, CallType DEF ReadCompletes
  <2> QED
    BY <1>1, <1>8, <2>1 DEF ReadCompletes
<1>9. CASE WriteCompletes
  <2>1. queue' \in Seq(Calls)
    BY <1>9, QueueSteps, CallType DEF WriteCompletes
  <2> QED
    BY <1>1, <1>9, <2>1 DEF WriteCompletes
<1>10. CASE Expires
  <2>1. queue' \in Seq(Calls)
    BY <1>10, QueueSteps, CallType DEF Expires
  <2> QED
    BY <1>1, <1>10, <2>1 DEF Expires
<1> QED
  BY <1>2, <1>3, <1>4, <1>5, <1>6, <1>7, <1>8, <1>9, <1>10 DEF HandlerStep, NetworkStep

-----------------------------------------------------------------------------
(* Timers, and what a replacement of the connection can crash *)

TimersInv == NoTimerLeft /\ TimerOrder /\ OverlapSeen /\ CrashNeedsOverlap

LEMMA TimersStep ==
    ASSUME TimersInv, Flags, ~crashed,
           Read \/ Send \/ HandlerStep \/ NetworkStep \/ Expires
    PROVE  TimersInv'
<1> USE DEF TimersInv, NoTimerLeft, TimerOrder, OverlapSeen, CrashNeedsOverlap, crashed, Flags,
            readVars, sendVars, connVars, opVars
<1>1. CASE ReadBegin
  BY <1>1 DEF ReadBegin
<1>2. CASE ReadIssue
  BY <1>2 DEF ReadIssue
<1>3. CASE ReadGivesUp
  BY <1>3 DEF ReadGivesUp
<1>4. CASE ReadCheck
  BY <1>4 DEF ReadCheck
<1>5. CASE PollNothing
  BY <1>5 DEF PollNothing
<1>6. CASE PollData
  BY <1>6 DEF PollData, Reported, Cancelled
<1>7. CASE PollTorn
  BY <1>7 DEF PollTorn, Reported, Cancelled
<1>8. CASE PollError
  BY <1>8 DEF PollError, Reported, Cancelled
<1>9. CASE PollEof
  BY <1>9 DEF PollEof, Reported, Cancelled, Orphaned
<1>10. CASE Reinit
  BY <1>10 DEF Reinit, Fresh
<1>11. CASE PollTimeout
  BY <1>11 DEF PollTimeout, Reported
<1>12. CASE SendBegin
  BY <1>12 DEF SendBegin, Crashes
<1>13. CASE SendCrashes
  BY <1>13 DEF SendCrashes
<1>14. CASE SendWrite
  BY <1>14 DEF SendWrite, Turn
<1>15. CASE SendReturns
  BY <1>15 DEF SendReturns, CanFinish, Turn, Cancelled
<1>16. CASE SendTimeout
  BY <1>16 DEF SendTimeout, CanFinish, Turn
<1>17. CASE ReadHandler
  BY <1>17 DEF ReadHandler
<1>18. CASE ReadHandlerSize
  BY <1>18 DEF ReadHandlerSize
<1>19. CASE WriteHandler
  BY <1>19 DEF WriteHandler
<1>20. CASE HandleTimeout
  BY <1>20 DEF HandleTimeout
<1>21. CASE ConnectionLost
  BY <1>21 DEF ConnectionLost
<1>22. CASE ReadCompletes
  BY <1>22 DEF ReadCompletes
<1>23. CASE WriteCompletes
  BY <1>23 DEF WriteCompletes
<1>24. CASE Connects
  BY <1>24 DEF Connects
<1>25. CASE Expires
  BY <1>25 DEF Expires
<1> QED
  BY <1>1, <1>2, <1>3, <1>4, <1>5, <1>6, <1>7, <1>8, <1>9, <1>10, <1>11, <1>12, <1>13, <1>14,
     <1>15, <1>16, <1>17, <1>18, <1>19, <1>20, <1>21, <1>22, <1>23, <1>24, <1>25
  DEF Read, Send, HandlerStep, NetworkStep

-----------------------------------------------------------------------------
(* What is read *)

LEMMA BufferedStep ==
    ASSUME TypeOK, Buffered, Read \/ Send \/ HandlerStep \/ NetworkStep \/ Expires
    PROVE  Buffered'
<1> USE DEF Buffered, readVars, sendVars, connVars, opVars
<1>q. /\ queue \in Seq(Calls) /\ reading \in Nat /\ writing \in Nat
      /\ data \in Nat /\ NoData(<<>>)
  BY QueueType DEF TypeOK, NoData
<1>1. CASE ReadBegin
  BY <1>1, <1>q DEF ReadBegin
<1>2. CASE ReadIssue
  BY <1>2, <1>q DEF ReadIssue
<1>3. CASE ReadGivesUp
  BY <1>3, <1>q DEF ReadGivesUp
<1>4. CASE ReadCheck
  BY <1>4, <1>q DEF ReadCheck
<1>5. CASE PollNothing
  BY <1>5, <1>q DEF PollNothing
<1>6. CASE PollData
  BY <1>6, <1>q DEF PollData
<1>7. CASE PollTorn
  BY <1>7, <1>q DEF PollTorn
<1>8. CASE PollError
  BY <1>8, <1>q DEF PollError
<1>9. CASE PollEof
  BY <1>9, <1>q DEF PollEof
<1>10. CASE Reinit
  BY <1>10, <1>q DEF Reinit, Fresh
<1>11. CASE SendBegin
  BY <1>11, <1>q DEF SendBegin
<1>12. CASE SendCrashes
  BY <1>12, <1>q DEF SendCrashes
<1>13. CASE SendWrite
  BY <1>13, <1>q DEF SendWrite
<1>14. CASE SendReturns
  BY <1>14, <1>q DEF SendReturns
<1>15. CASE ReadHandlerSize
  BY <1>15, <1>q DEF ReadHandlerSize
<1>16. CASE ConnectionLost
  BY <1>16, <1>q DEF ConnectionLost
<1>17. CASE Connects
  BY <1>17, <1>q DEF Connects
<1>18. CASE PollTimeout
  BY <1>18, <1>q, CancelQueue DEF PollTimeout, CancelIO
<1>19. CASE SendTimeout
  BY <1>19, <1>q, CancelQueue DEF SendTimeout, CancelIO
<1>20. CASE ReadHandler
  <2>1. /\ Head(queue) \in Calls /\ Head(queue).fn = "read" /\ queue' = Tail(queue)
        /\ NoData(queue) => Head(queue) # Call("read", "ok") /\ NoData(Tail(queue))
    BY <1>20, <1>q, TailQueue DEF ReadHandler, Take
  <2>2. Head(queue).arg = "ok" => Head(queue) = Call("read", "ok")
    BY <2>1 DEF Calls, Call
  <2> QED
    BY <1>20, <2>1, <2>2 DEF ReadHandler
<1>21. CASE WriteHandler
  BY <1>21, <1>q, TailQueue DEF WriteHandler, Take
<1>22. CASE HandleTimeout
  BY <1>22, <1>q, TailQueue DEF HandleTimeout, Take
<1>23. CASE ReadCompletes
  <2>1. CASE sock = "open"
    BY <1>23, <1>q, <2>1 DEF ReadCompletes
  <2>2. CASE sock # "open"
    <3>1. PICK arg \in {"eof", "err"} : queue' = Append(queue, Call("read", arg))
      BY <1>23, <2>2 DEF ReadCompletes
    <3>2. Call("read", arg) \in Calls /\ Call("read", arg) # Call("read", "ok")
      BY CallType DEF Call
    <3> QED
      BY <1>23, <1>q, <2>2, <3>1, <3>2, AppendQueue DEF ReadCompletes
  <2> QED
    BY <2>1, <2>2
<1>24. CASE WriteCompletes
  <2>1. PICK arg \in {"ok", "err"} : queue' = Append(queue, Call("write", arg))
    BY <1>24 DEF WriteCompletes
  <2>2. Call("write", arg) \in Calls /\ Call("write", arg) # Call("read", "ok")
    BY CallType DEF Call
  <2> QED
    BY <1>24, <1>q, <2>1, <2>2, AppendQueue DEF WriteCompletes
<1>25. CASE Expires
  <2>1. Call("timeout", "ok") \in Calls /\ Call("timeout", "ok") # Call("read", "ok")
    BY CallType DEF Call
  <2> QED
    BY <1>25, <1>q, <2>1, AppendQueue DEF Expires
<1> QED
  BY <1>1, <1>2, <1>3, <1>4, <1>5, <1>6, <1>7, <1>8, <1>9, <1>10, <1>11, <1>12, <1>13, <1>14,
     <1>15, <1>16, <1>17, <1>18, <1>19, <1>20, <1>21, <1>22, <1>23, <1>24, <1>25
  DEF Read, Send, HandlerStep, NetworkStep

\* A step that leaves the read in progress alone.
LEMMA SameRead ==
    ASSUME InStep,
           UNCHANGED <<rd, issued, reading, handler, readError, readSize, got, data>>,
           NoReads(queue) => NoReads(queue'),
           \A arg : OneRead(queue, arg) => OneRead(queue', arg)
    PROVE  InStep'
<1>1. Outstanding => Outstanding'
  BY DEF Outstanding
<1>2. \A arg : Completed(arg) => Completed(arg)'
  BY DEF Completed
<1>3. HalfHandled => HalfHandled'
  BY DEF HalfHandled
<1>4. \A arg : Handled(arg) => Handled(arg)'
  BY DEF Handled
<1>5. NoRead => NoRead'
  BY DEF NoRead
<1>6. (Behind => Behind') /\ (Abreast => Abreast') /\ (Issued <=> Issued')
  BY DEF Behind, Abreast, Issued
<1> QED
  BY <1>1, <1>2, <1>3, <1>4, <1>5, <1>6 DEF InStep

LEMMA InStepSend ==
    ASSUME TypeOK, InStep, Send
    PROVE  InStep'
<1> USE DEF readVars, connVars, opVars
<1>1. CASE SendBegin
  BY <1>1, SameRead DEF SendBegin
<1>2. CASE SendCrashes
  BY <1>2, SameRead DEF SendCrashes
<1>3. CASE SendWrite
  BY <1>3, SameRead DEF SendWrite
<1>4. CASE SendReturns
  BY <1>4, SameRead DEF SendReturns
<1>5. CASE SendTimeout
  <2>1. /\ reading = 0 /\ NoReads(queue) => NoReads(queue')
        /\ \A arg : reading = 0 /\ OneRead(queue, arg) => OneRead(queue', arg)
        /\ reading = 1 /\ NoReads(queue) => OneRead(queue', "err")
    BY <1>5, QueueType, CancelQueue DEF SendTimeout, CancelIO
  <2>2. /\ UNCHANGED <<rd, issued, handler, readError, readSize, got, data>>
        /\ reading' = 0
    BY <1>5 DEF SendTimeout, CancelIO
  <2>3. Outstanding => Completed("err")'
    BY <2>1, <2>2 DEF Outstanding, Completed
  <2>4. /\ \A arg : Completed(arg) => Completed(arg)'
        /\ HalfHandled => HalfHandled'
        /\ \A arg : Handled(arg) => Handled(arg)'
        /\ NoRead => NoRead'
    BY <2>1, <2>2 DEF Completed, HalfHandled, Handled, NoRead
  <2>5. (Behind => Behind') /\ (Abreast => Abreast') /\ (Issued <=> Issued')
    BY <2>2 DEF Behind, Abreast, Issued
  <2> QED
    BY <2>2, <2>3, <2>4, <2>5 DEF InStep
<1> QED
  BY <1>1, <1>2, <1>3, <1>4, <1>5 DEF Send

LEMMA InStepOutside ==
    ASSUME TypeOK, InStep, HandlerStep \/ NetworkStep \/ Expires
    PROVE  InStep'
<1> USE DEF readVars, connVars, opVars
<1>q. queue \in Seq(Calls) /\ reading \in Nat /\ data \in Nat /\ Len(got) \in Nat
  BY QueueType, LenProperties DEF TypeOK
<1>1. CASE ConnectionLost
  BY <1>1, SameRead DEF ConnectionLost
<1>2. CASE Connects
  BY <1>2, SameRead DEF Connects
<1>3. CASE WriteHandler
  <2>1. /\ Head(queue).fn # "read"
        /\ NoReads(queue) => NoReads(queue')
        /\ \A arg : OneRead(queue, arg) => OneRead(queue', arg)
    BY <1>3, <1>q, TailQueue DEF WriteHandler, Take
  <2> QED
    BY <1>3, <2>1, SameRead DEF WriteHandler
<1>4. CASE HandleTimeout
  <2>1. /\ Head(queue).fn # "read"
        /\ NoReads(queue) => NoReads(queue')
        /\ \A arg : OneRead(queue, arg) => OneRead(queue', arg)
    BY <1>4, <1>q, TailQueue DEF HandleTimeout, Take
  <2> QED
    BY <1>4, <2>1, SameRead DEF HandleTimeout
<1>5. CASE WriteCompletes
  <2>1. PICK arg \in {"ok", "err"} : queue' = Append(queue, Call("write", arg))
    BY <1>5 DEF WriteCompletes
  <2>2. Call("write", arg) \in Calls /\ Call("write", arg).fn # "read"
    BY CallType DEF Call
  <2>3. /\ NoReads(queue) => NoReads(queue')
        /\ \A a : OneRead(queue, a) => OneRead(queue', a)
    BY <1>q, <2>1, <2>2, AppendQueue
  <2> QED
    BY <1>5, <2>3, SameRead DEF WriteCompletes
<1>6. CASE Expires
  <2>1. Call("timeout", "ok") \in Calls /\ Call("timeout", "ok").fn # "read"
    BY CallType DEF Call
  <2>2. /\ NoReads(queue) => NoReads(queue')
        /\ \A a : OneRead(queue, a) => OneRead(queue', a)
    BY <1>6, <1>q, <2>1, AppendQueue DEF Expires
  <2> QED
    BY <1>6, <2>2, SameRead DEF Expires
<1>7. CASE ReadHandler
  <2>1. /\ Head(queue) \in Calls /\ Head(queue).fn = "read" /\ handler = "none"
        /\ ~NoReads(queue)
        /\ \A arg : OneRead(queue, arg) => Head(queue) = Call("read", arg) /\ NoReads(queue')
    BY <1>7, <1>q, TailQueue DEF ReadHandler, Take
  <2>2. ~Outstanding /\ ~HalfHandled /\ ~NoRead /\ \A arg : ~Handled(arg)
    BY <2>1 DEF Outstanding, HalfHandled, NoRead, Handled
  <2>3. PICK arg \in {"ok", "err", "eof"} :
          Issued /\ Completed(arg) /\ (IF arg = "ok" THEN Behind ELSE Abreast)
    BY <2>2 DEF InStep, Issued
  <2>4. /\ Call("read", arg).arg = arg /\ Head(queue) = Call("read", arg)
        /\ NoReads(queue') /\ reading = 0 /\ ~readSize
    BY <2>1, <2>3 DEF Completed, Call
  <2>5. /\ UNCHANGED <<rd, issued, reading, readSize, got, data>>
        /\ readError' = arg /\ handler' = IF arg = "ok" THEN "size" ELSE "none"
    BY <1>7, <2>4 DEF ReadHandler
  <2>6. IF arg = "ok" THEN HalfHandled' ELSE Handled(arg)'
    BY <2>4, <2>5 DEF HalfHandled, Handled
  <2>7. (Behind => Behind') /\ (Abreast => Abreast') /\ Issued'
    BY <2>3, <2>5 DEF Behind, Abreast, Issued
  <2>8. /\ rd' = "poll"
        /\ \A i \in 1..Len(got') : got'[i] = i
    BY <2>3, <2>5 DEF InStep, Issued
  <2> QED
    BY <2>3, <2>6, <2>7, <2>8 DEF InStep
<1>8. CASE ReadHandlerSize
  <2>1. ~Outstanding /\ ~NoRead /\ \A arg : ~Completed(arg) /\ ~Handled(arg)
    BY <1>8 DEF ReadHandlerSize, Outstanding, NoRead, Completed, Handled
  <2>2. Issued /\ HalfHandled /\ Behind
    BY <2>1 DEF InStep, Issued
  <2>3. /\ UNCHANGED <<rd, issued, reading, queue, readError, got, data>>
        /\ readSize' = TRUE /\ handler' = "none"
    BY <1>8 DEF ReadHandlerSize
  <2>4. Handled("ok")' /\ Behind' /\ Issued'
    BY <2>2, <2>3 DEF HalfHandled, Handled, Behind, Issued
  <2>5. /\ rd' = "poll"
        /\ \A i \in 1..Len(got') : got'[i] = i
    BY <2>2, <2>3 DEF InStep, Issued
  <2> QED
    BY <2>4, <2>5 DEF InStep
<1>9. CASE ReadCompletes
  <2>1. ~HalfHandled /\ ~NoRead /\ \A arg : ~Completed(arg) /\ ~Handled(arg)
    BY <1>9 DEF ReadCompletes, HalfHandled, NoRead, Completed, Handled
  <2>2. Issued /\ Outstanding /\ Abreast
    BY <2>1 DEF InStep, Issued
  <2>3. PICK arg \in {"ok", "err", "eof"} :
          /\ queue' = Append(queue, Call("read", arg))
          /\ data' = IF arg = "ok" THEN data + 1 ELSE data
    BY <1>9 DEF ReadCompletes
  <2>4. Call("read", arg) \in Calls
    BY CallType
  <2>5. OneRead(queue', arg)
    BY <1>q, <2>2, <2>3, <2>4, AppendQueue DEF Outstanding
  <2>6. UNCHANGED <<rd, issued, handler, readError, readSize, got>> /\ reading' = reading - 1
    BY <1>9 DEF ReadCompletes
  <2>7. Completed(arg)' /\ Issued'
    BY <2>2, <2>5, <2>6 DEF Completed, Outstanding, Issued
  <2>8. IF arg = "ok" THEN Behind' ELSE Abreast'
    BY <1>q, <2>2, <2>3, <2>6 DEF Behind, Abreast
  <2>9. /\ rd' = "poll"
        /\ \A i \in 1..Len(got') : got'[i] = i
    BY <2>2, <2>6 DEF InStep, Issued
  <2> QED
    BY <2>7, <2>8, <2>9 DEF InStep
<1> QED
  BY <1>1, <1>2, <1>3, <1>4, <1>5, <1>6, <1>7, <1>8, <1>9 DEF HandlerStep, NetworkStep

\* A Read that gives up on a handler spoils the order; any other keeps it.
LEMMA InStepRead ==
    ASSUME TypeOK, TimerOrder, Buffered, InStep, Read, ~spoilt'
    PROVE  InStep'
<1> USE DEF sendVars, connVars, opVars
<1>q. /\ data \in Nat /\ Len(got) \in Nat /\ got \in Seq(1..MaxData) /\ NoReads(<<>>)
  BY LenProperties DEF TypeOK, NoReads
<1>1. CASE ReadBegin
  <2>1. NoRead /\ Abreast /\ \A i \in 1..Len(got) : got[i] = i
    BY <1>1 DEF ReadBegin, InStep, Issued
  <2>2. /\ UNCHANGED <<reading, queue, handler, got, data>>
        /\ readError' = "null" /\ readSize' = FALSE /\ rd' = "connect" /\ issued' = FALSE
    BY <1>1 DEF ReadBegin
  <2>3. NoRead' /\ Abreast' /\ ~Issued' /\ ~readSize'
    BY <2>1, <2>2 DEF NoRead, Abreast, Issued
  <2> QED
    BY <2>1, <2>2, <2>3 DEF InStep
<1>2. CASE ReadIssue
  <2>1. NoRead /\ Abreast /\ ~readSize /\ \A i \in 1..Len(got) : got[i] = i
    BY <1>2 DEF ReadIssue, InStep, Issued
  <2>2. /\ UNCHANGED <<queue, handler, readError, readSize, got, data>>
        /\ rd' = "poll" /\ issued' = TRUE /\ reading' = reading + 1
    BY <1>2 DEF ReadIssue, TimerOrder
  <2>3. Outstanding' /\ Abreast'
    BY <2>1, <2>2 DEF NoRead, Outstanding, Abreast
  <2> QED
    BY <2>1, <2>2, <2>3 DEF InStep, Issued
<1>3. CASE ReadGivesUp
  <2>1. NoRead /\ Abreast /\ \A i \in 1..Len(got) : got[i] = i
    BY <1>3 DEF ReadGivesUp, InStep, Issued
  <2>2. UNCHANGED <<reading, queue, handler, readError, got, data>> /\ rd' = "check"
    BY <1>3 DEF ReadGivesUp
  <2>3. NoRead' /\ Abreast' /\ ~Issued'
    BY <2>1, <2>2 DEF NoRead, Abreast, Issued
  <2> QED
    BY <2>1, <2>2, <2>3 DEF InStep
<1>4. CASE ReadCheck
  <2>1. NoRead /\ Abreast /\ ~issued /\ \A i \in 1..Len(got) : got[i] = i
    BY <1>4 DEF ReadCheck, InStep, Issued, TimerOrder
  <2>2. /\ UNCHANGED <<issued, reading, queue, handler, readError, got, data>>
        /\ rd' \in {"poll", "idle"}
    BY <1>4 DEF ReadCheck
  <2>3. NoRead' /\ Abreast' /\ ~Issued'
    BY <2>1, <2>2 DEF NoRead, Abreast, Issued
  <2> QED
    BY <2>1, <2>2, <2>3 DEF InStep
<1>5. CASE PollNothing
  <2>1. NoRead /\ Abreast /\ \A i \in 1..Len(got) : got[i] = i
    BY <1>5 DEF PollNothing, InStep, Issued, TimerOrder
  <2>2. UNCHANGED <<reading, queue, handler, readError, got, data>> /\ rd' = "idle"
    BY <1>5 DEF PollNothing
  <2>3. NoRead' /\ Abreast' /\ ~Issued'
    BY <2>1, <2>2 DEF NoRead, Abreast, Issued
  <2> QED
    BY <2>1, <2>2, <2>3 DEF InStep
<1>6. CASE PollData
  <2>1. readError = "ok" /\ readSize /\ rd = "poll"
    BY <1>6 DEF PollData, Reported
  <2>2. /\ ~Outstanding /\ ~HalfHandled /\ ~NoRead
        /\ \A arg : ~Completed(arg) /\ (Handled(arg) => arg = "ok")
    BY <2>1 DEF Outstanding, HalfHandled, NoRead, Completed, Handled
  <2>3. Handled("ok") /\ Behind /\ \A i \in 1..Len(got) : got[i] = i
    BY <2>1, <2>2 DEF InStep
  <2>4. /\ UNCHANGED <<reading, queue, handler, data>>
        /\ rd' = "idle" /\ readError' = "null" /\ got' = Append(got, buffer)
    BY <1>6 DEF PollData
  <2>5. NoRead' /\ ~Issued'
    BY <2>3, <2>4 DEF Handled, NoRead, Issued
  <2>6. buffer = data /\ data = Len(got) + 1 /\ buffer \in 1..MaxData
    BY <1>q, <2>1, <2>3 DEF Buffered, Behind, TypeOK
  <2>7. /\ Len(got') = Len(got) + 1
        /\ \A i \in 1..Len(got) : got'[i] = got[i]
        /\ got'[Len(got) + 1] = buffer
    BY <1>q, <2>4, <2>6, AppendProperties
  <2>8. \A i \in 1..Len(got') : got'[i] = i
    BY <1>q, <2>3, <2>6, <2>7
  <2>9. Abreast'
    BY <2>4, <2>6, <2>7 DEF Abreast
  <2> QED
    BY <2>4, <2>5, <2>8, <2>9 DEF InStep
<1>7. CASE PollTorn
  BY <1>7 DEF PollTorn
<1>8. CASE PollError
  <2>1. readError = "err" /\ rd = "poll"
    BY <1>8 DEF PollError, Reported
  <2>2. /\ ~Outstanding /\ ~HalfHandled /\ ~NoRead
        /\ \A arg : ~Completed(arg) /\ (Handled(arg) => arg = "err")
    BY <2>1 DEF Outstanding, HalfHandled, NoRead, Completed, Handled
  <2>3. Handled("err") /\ Abreast /\ \A i \in 1..Len(got) : got[i] = i
    BY <2>1, <2>2 DEF InStep
  <2>4. UNCHANGED <<reading, queue, handler, got, data>> /\ rd' = "idle" /\ readError' = "null"
    BY <1>8 DEF PollError
  <2>5. NoRead' /\ ~Issued' /\ Abreast'
    BY <2>3, <2>4 DEF Handled, NoRead, Issued, Abreast
  <2> QED
    BY <2>3, <2>4, <2>5 DEF InStep
<1>9. CASE PollEof
  <2>1. readError = "eof" /\ rd = "poll"
    BY <1>9 DEF PollEof, Reported
  <2>2. /\ ~Outstanding /\ ~HalfHandled /\ ~NoRead
        /\ \A arg : ~Completed(arg) /\ (Handled(arg) => arg = "eof")
    BY <2>1 DEF Outstanding, HalfHandled, NoRead, Completed, Handled
  <2>3. Abreast /\ \A i \in 1..Len(got) : got[i] = i
    BY <2>1, <2>2 DEF InStep
  <2>4. /\ UNCHANGED <<readError, got, data>> /\ rd' = "terminated"
        /\ queue' = <<>> /\ handler' = "none" /\ reading' = 0
    BY <1>9 DEF PollEof
  <2>5. Handled("eof")' /\ ~Issued' /\ Abreast'
    BY <1>q, <2>1, <2>3, <2>4 DEF Handled, Issued, Abreast
  <2> QED
    BY <2>3, <2>4, <2>5 DEF InStep
<1>10. CASE Reinit
  <2>1. Handled("eof") /\ Abreast /\ \A i \in 1..Len(got) : got[i] = i
    BY <1>10 DEF Reinit, InStep
  <2>2. UNCHANGED <<reading, queue, handler, got, data>> /\ rd' = "idle" /\ readError' = "null"
    BY <1>10 DEF Reinit
  <2>3. NoRead' /\ ~Issued' /\ Abreast'
    BY <2>1, <2>2 DEF Handled, NoRead, Issued, Abreast
  <2> QED
    BY <2>1, <2>2, <2>3 DEF InStep
<1>11. CASE PollTimeout
  BY <1>11 DEF PollTimeout
<1> QED
  BY <1>1, <1>2, <1>3, <1>4, <1>5, <1>6, <1>7, <1>8, <1>9, <1>10, <1>11 DEF Read

LEMMA SpoiltStays ==
    ASSUME Read \/ Send \/ HandlerStep \/ NetworkStep \/ Expires, ~spoilt'
    PROVE  ~spoilt
<1> USE DEF readVars
<1>1. CASE Read
  BY <1>1, Zenon
  DEF Read, ReadBegin, ReadIssue, ReadGivesUp, ReadCheck, PollNothing, PollData, PollTorn,
      PollError, PollEof, Reinit, PollTimeout
<1>2. CASE Send
  BY <1>2, Zenon DEF Send, SendBegin, SendCrashes, SendWrite, SendReturns, SendTimeout
<1>3. CASE HandlerStep
  BY <1>3, Zenon DEF HandlerStep, ReadHandler, ReadHandlerSize, WriteHandler, HandleTimeout
<1>4. CASE NetworkStep \/ Expires
  BY <1>4, Zenon
  DEF NetworkStep, ConnectionLost, ReadCompletes, WriteCompletes, Connects, Expires
<1> QED
  BY <1>1, <1>2, <1>3, <1>4

-----------------------------------------------------------------------------
(* The theorems *)

LEMMA InitInv == Init => IInv
<1> SUFFICES ASSUME Init PROVE IInv
  OBVIOUS
<1> USE BoundAssumption DEF Init
<1>1. Flags
  BY Zenon DEF Flags
<1>2. <<>> \in Seq(Calls) /\ <<>> \in Seq(1..MaxData) /\ Len(<<>>) = 0
  BY EmptySeq
<1>3. Plain
  BY <1>2 DEF Plain, Errors, Timers
<1>4. TimersInv
  BY DEF TimersInv, NoTimerLeft, TimerOrder, OverlapSeen, CrashNeedsOverlap, crashed
<1>5. Buffered
  BY <1>2 DEF Buffered, NoData
<1>6. NoRead /\ Abreast /\ ~Issued
  BY <1>2 DEF NoRead, NoReads, Abreast, Issued
<1>7. InStep
  BY <1>2, <1>6 DEF InStep
<1> QED
  BY <1>1, <1>3, <1>4, <1>5, <1>7, TypeSplit DEF IInv, TimersInv

LEMMA StepInv == IInv /\ [Next]_vars => IInv'
<1> SUFFICES ASSUME IInv, [Next]_vars PROVE IInv'
  OBVIOUS
<1>1. CASE UNCHANGED vars
  BY <1>1
  DEF vars, readVars, sendVars, connVars, opVars, IInv, TypeOK, NoTimerLeft, TimerOrder,
      OverlapSeen, CrashNeedsOverlap, crashed, Buffered, InStep, Issued, Outstanding, Completed,
      HalfHandled, Handled, NoRead, Behind, Abreast
<1>2. CASE ~crashed /\ (Read \/ Send \/ HandlerStep \/ NetworkStep \/ Expires)
  <2>1. TypeOK /\ TimersInv /\ Flags /\ Buffered /\ TimerOrder /\ (~spoilt => InStep)
    BY TypeSplit DEF IInv, TimersInv
  <2>2. Flags'
    BY <1>2, <2>1, FlagsStep
  <2>3. Plain'
    BY <1>2, <2>1, PlainRead, PlainSend, PlainOutside
  <2>4. TimersInv'
    BY <1>2, <2>1, TimersStep
  <2>5. Buffered'
    BY <1>2, <2>1, BufferedStep
  <2>6. ~spoilt' => InStep'
    BY <1>2, <2>1, SpoiltStays, InStepRead, InStepSend, InStepOutside
  <2> QED
    BY <2>2, <2>3, <2>4, <2>5, <2>6, TypeSplit DEF IInv, TimersInv
<1> QED
  BY <1>1, <1>2 DEF Next

\* The strengthened invariant holds of every behaviour, for any bounds.
THEOREM Inductive == Spec => []IInv
<1>1. Init => IInv
  BY InitInv
<1>2. IInv /\ [Next]_vars => IInv'
  BY StepInv
<1> QED
  BY <1>1, <1>2, PTL DEF Spec

\* Every variable keeps its type; the queue holds only handlers there are.
THEOREM TypeCorrect == Spec => []TypeOK
<1>1. IInv => TypeOK
  BY DEF IInv
<1> QED
  BY <1>1, Inductive, PTL

\* A timer waits only while the call that set it is in progress, whatever the
\* replacement of the connection does to it.
THEOREM NoTimerIsLeft == Spec => []NoTimerLeft
<1>1. IInv => NoTimerLeft
  BY DEF IInv
<1> QED
  BY <1>1, Inductive, PTL

\* Calls that never overlap never use a null m_pComms or a timer whose
\* io_service is gone.
THEOREM CrashesOnlyOverlapped == Spec => []CrashNeedsOverlap
<1>1. IInv => CrashNeedsOverlap
  BY DEF IInv
<1> QED
  BY <1>1, Inductive, PTL

\* Until a Read gives up on a handler, the Reads return all that arrives, once
\* and in order: whatever the Sends that overlap them do to the shared
\* timeout flag, and however many reads succeed.
THEOREM ReadsInOrder == Spec => []InOrder
<1>1. IInv => InOrder
  <2> SUFFICES ASSUME IInv, ~spoilt
               PROVE  /\ Len(got) \in {data - 1, data}
                      /\ \A i \in 1..Len(got) : got[i] = i
    BY DEF InOrder
  <2>1. InStep
    BY DEF IInv
  <2>2. Behind \/ Abreast
    BY <2>1 DEF InStep
  <2> QED
    BY <2>1, <2>2 DEF InStep, Behind, Abreast
<1> QED
  BY <1>1, Inductive, PTL

=============================================================================
