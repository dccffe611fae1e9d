-------------------------- MODULE AsyncSenderProofs --------------------------
(***************************************************************************)
(* Invariance proofs about AsyncSender, for every set of counts and any    *)
(* number of Sends: types, how often a message is transmitted, and what    *)
(* StopSender still lets through.                                          *)
(***************************************************************************)
EXTENDS AsyncSender, SequenceTheorems, FiniteSetTheorems, TLAPS

-----------------------------------------------------------------------------
(* The handlers of expired timers in a queue *)

Count(q) == Cardinality(Expiries(q))

LEMMA CompletionType ==
    /\ \A fn \in {"send", "timeout"}, arg \in {"ok", "err"} : Completion(fn, arg) \in Completions
    /\ \A arg : Completion("send", arg) # Completion("timeout", "ok")
    /\ \A fn : Completion(fn, "err") # Completion("timeout", "ok")
BY DEF Completion, Completions

LEMMA CountType ==
    ASSUME NEW q \in Seq(Completions)
    PROVE  IsFiniteSet(Expiries(q)) /\ Count(q) \in Nat
<1>1. Len(q) \in Nat
  BY LenProperties
<1>2. IsFiniteSet(1..Len(q))
  BY <1>1, FS_Interval
<1>3. Expiries(q) \subseteq 1..Len(q)
  BY DEF Expiries
<1> QED
  BY <1>2, <1>3, FS_Subset, FS_CardinalityType DEF Count

\* Posting anything but the handler of an expired timer leaves their number alone.
LEMMA CountConcat ==
    ASSUME NEW q \in Seq(Completions), NEW p \in Seq(Completions), Expiries(p) = {}
    PROVE  q \o p \in Seq(Completions) /\ Count(q \o p) = Count(q)
<1>1. /\ q \o p \in Seq(Completions)
      /\ Len(q) \in Nat /\ Len(p) \in Nat /\ Len(q \o p) = Len(q) + Len(p)
      /\ \A i \in 1..(Len(q) + Len(p)) :
           (q \o p)[i] = IF i <= Len(q) THEN q[i] ELSE p[i - Len(q)]
  BY ConcatProperties, LenProperties
<1>2. \A i \in 1..Len(p) : p[i] # Completion("timeout", "ok")
  BY DEF Expiries
<1>3. ASSUME NEW i \in 1..Len(q \o p), i > Len(q)
      PROVE  (q \o p)[i] # Completion("timeout", "ok")
  <2>1. i - Len(q) \in 1..Len(p) /\ (q \o p)[i] = p[i - Len(q)]
    BY <1>1, <1>3
  <2> QED
    BY <1>2, <2>1
<1>4. Expiries(q \o p) = Expiries(q)
  BY <1>1, <1>3 DEF Expiries
<1> QED
  BY <1>1, <1>4 DEF Count

\* Posting that handler adds one to them.
LEMMA CountAppend ==
    ASSUME NEW q \in Seq(Completions)
    PROVE  /\ Append(q, Completion("timeout", "ok")) \in Seq(Completions)
           /\ Count(Append(q, Completion("timeout", "ok"))) = Count(q) + 1
<1> DEFINE c == Completion("timeout", "ok")
           r == Append(q, c)
<1>1. /\ r \in Seq(Completions) /\ Len(q) \in Nat /\ Len(r) = Len(q) + 1
      /\ \A i \in 1..Len(q) : r[i] = q[i]
      /\ r[Len(q) + 1] = c
  BY CompletionType, AppendProperties, LenProperties
<1>2. \A i \in 1..Len(r) : i \in 1..Len(q) \/ i = Len(q) + 1
  BY <1>1
<1>3. Len(q) + 1 \in 1..Len(r) /\ (1..Len(q)) \subseteq (1..Len(r)) /\ Len(q) + 1 \notin 1..Len(q)
  BY <1>1
<1> HIDE DEF r
<1>4. Expiries(r) = Expiries(q) \cup {Len(q) + 1} /\ Len(q) + 1 \notin Expiries(q)
  BY <1>1, <1>2, <1>3 DEF Expiries
<1>5. Cardinality(Expiries(r)) = Cardinality(Expiries(q)) + 1
  BY <1>4, CountType, FS_AddElement
<1> QED
  BY <1>1, <1>5 DEF r, Count

\* Taking a handler takes it off their number if it is one of them.
LEMMA CountTail ==
    ASSUME NEW q \in Seq(Completions), q # <<>>
    PROVE  /\ Head(q) \in Completions /\ Tail(q) \in Seq(Completions)
           /\ Head(q) = Completion("timeout", "ok") => Count(q) = Count(Tail(q)) + 1
           /\ Head(q) # Completion("timeout", "ok") => Count(q) = Count(Tail(q))
<1> DEFINE c == Completion("timeout", "ok")
           t == Tail(q)
           later == {i \in Expiries(q) : i # 1}
           f == [i \in Expiries(t) |-> i + 1]
<1>1. /\ Head(q) \in Completions /\ t \in Seq(Completions)
      /\ Len(q) \in Nat \ {0} /\ Len(t) = Len(q) - 1 /\ Head(q) = q[1]
      /\ \A i \in 1..Len(t) : t[i] = q[i + 1]
  BY HeadTailProperties, EmptySeq
<1> HIDE DEF t
<1>2. /\ \A i \in Expiries(t) : i \in Nat /\ i + 1 \in later
      /\ \A i \in later : i - 1 \in Expiries(t) /\ (i - 1) + 1 = i
  BY <1>1 DEF Expiries
<1>3. f \in Bijection(Expiries(t), later)
  <2>1. f \in Injection(Expiries(t), later)
    BY <1>2 DEF Injection, IsInjective
  <2>2. f \in Surjection(Expiries(t), later)
    BY <1>2 DEF Surjection
  <2> QED
    BY <2>1, <2>2 DEF Bijection
<1>4. IsFiniteSet(Expiries(q)) /\ IsFiniteSet(Expiries(t)) /\ IsFiniteSet(later)
  BY <1>1, CountType, FS_Subset
<1>5. Cardinality(later) = Cardinality(Expiries(t))
  <2>1. ExistsBijection(Expiries(t), later)
    BY <1>3, Zenon DEF ExistsBijection
  <2> QED
    BY <1>4, <2>1, FS_Bijection
<1>6. CASE Head(q) = c
  <2>1. 1 \in Expiries(q) /\ later = Expiries(q) \ {1}
    BY <1>1, <1>6 DEF Expiries
  <2>2. Cardinality(later) = Cardinality(Expiries(q)) - 1 /\ Cardinality(Expiries(q)) \in Nat
    BY <1>4, <2>1, FS_RemoveElement, FS_CardinalityType
  <2> QED
    BY <1>1, <1>5, <1>6, <2>2 DEF Count, t
<1>7. CASE Head(q) # c
  <2>1. later = Expiries(q)
    BY <1>1, <1>7 DEF Expiries
  <2> QED
    BY <1>1, <1>5, <1>7, <2>1 DEF Count, t
<1> QED
  BY <1>6, <1>7

\* What a cancelled timer and an aborted transmission post: errors only.
LEMMA PostTypes ==
    ASSUME flying \in Nat
    PROVE  /\ <<>> \in Seq(Completions) /\ Expiries(<<>>) = {}
           /\ CancelTimer \in Seq(Completions) /\ Expiries(CancelTimer) = {}
           /\ CancelSends \in Seq(Completions) /\ Expiries(CancelSends) = {}
           /\ SendPosts \in Seq(Completions) /\ Expiries(SendPosts) = {}
           /\ SendPosts \o CancelTimer \in Seq(Completions)
           /\ Expiries(SendPosts \o CancelTimer) = {}
<1>1. <<>> \in Seq(Completions) /\ Expiries(<<>>) = {}
  BY EmptySeq DEF Expiries
<1>2. ASSUME NEW c \in Completions, c # Completion("timeout", "ok")
      PROVE  <<c>> \in Seq(Completions) /\ Expiries(<<c>>) = {}
  BY <1>2 DEF Expiries
<1>3. CancelTimer \in Seq(Completions) /\ Expiries(CancelTimer) = {}
  BY <1>1, <1>2, CompletionType DEF CancelTimer
<1>4. SendPosts \in Seq(Completions) /\ Expiries(SendPosts) = {}
  BY <1>1, <1>2, CompletionType DEF SendPosts
<1>5. CancelSends \in Seq(Completions) /\ Expiries(CancelSends) = {}
  <2>1. CancelSends \in Seq(Completions) /\ Len(CancelSends) = flying
    BY CompletionType DEF CancelSends
  <2>2. \A i \in 1..flying : CancelSends[i] = Completion("send", "err")
    BY DEF CancelSends
  <2> QED
    BY <2>1, <2>2, CompletionType DEF Expiries
<1>6. SendPosts \o CancelTimer \in Seq(Completions) /\ Expiries(SendPosts \o CancelTimer) = {}
  <2>1. /\ SendPosts \o CancelTimer \in Seq(Completions)
        /\ IsFiniteSet(Expiries(SendPosts \o CancelTimer))
        /\ Count(SendPosts \o CancelTimer) = Count(SendPosts)
    BY <1>3, <1>4, CountConcat, CountType
  <2>2. Count(SendPosts) = 0
    BY <1>4, FS_EmptySet DEF Count
  <2> QED
    BY <2>1, <2>2, FS_EmptySet DEF Count
<1> QED
  BY <1>1, <1>3, <1>4, <1>5, <1>6

\* Handling takes one handler and posts others that are no expiries.
LEMMA HandleCount ==
    ASSUME ready \in Seq(Completions), NEW fn, NEW arg, NEW posts \in Seq(Completions),
           Expiries(posts) = {}, Handle(fn, arg, posts)
    PROVE  /\ ready' \in Seq(Completions) /\ Expired \in Nat /\ Expired' \in Nat
           /\ Completion(fn, arg) = Completion("timeout", "ok") => Expired = Expired' + 1
           /\ Completion(fn, arg) # Completion("timeout", "ok") => Expired' = Expired
<1>1. ready # <<>> /\ Head(ready) = Completion(fn, arg) /\ ready' = Tail(ready) \o posts
  BY DEF Handle
<1>2. Tail(ready) \in Seq(Completions)
  BY <1>1, CountTail
<1>3. ready' \in Seq(Completions) /\ Count(ready') = Count(Tail(ready))
  BY <1>1, <1>2, CountConcat
<1>4. Count(ready) = Expired /\ Count(ready') = Expired'
  BY DEF Count, Expired
<1> QED
  BY <1>1, <1>3, <1>4, CountTail, CountType

LEMMA PostCount ==
    ASSUME ready \in Seq(Completions), NEW posts \in Seq(Completions),
           Expiries(posts) = {}, ready' = ready \o posts
    PROVE  ready' \in Seq(Completions) /\ Expired \in Nat /\ Expired' = Expired
BY CountConcat, CountType DEF Count, Expired

\* A step that leaves the number of expiries queued alone.
Kept == ready' \in Seq(Completions) /\ Expired' = Expired

LEMMA QueueSteps ==
    ASSUME TypeOK
    PROVE  /\ Expired \in Nat
           /\ \A k \in MaxCounts :
                Send(k) \/ HandleSendThenSend(k) \/ HandleErrorThenSend(k) => Kept
           /\ HandleSendDone \/ HandleSendFailed \/ HandleTimeoutAborted => Kept
           /\ SendCompletes \/ StopTimer \/ StopSocket \/ StopCount \/ CloseSender => Kept
           /\ HandleTimeout =>
                ready' \in Seq(Completions) /\ Expired' \in Nat /\ Expired = Expired' + 1
           /\ TimerExpires => ready' \in Seq(Completions) /\ Expired' = Expired + 1
<1>1. ready \in Seq(Completions) /\ flying \in Nat
  BY DEF TypeOK
<1>2. Expired \in Nat
  BY <1>1, CountType DEF Count, Expired
<1>3. ASSUME NEW k \in MaxCounts, Send(k) PROVE Kept
  BY <1>1, <1>3, PostTypes, PostCount DEF Send, Kept
<1>4. ASSUME HandleSendDone PROVE Kept
  <2> DEFINE posts == IF Repeat(count', max) THEN CancelTimer ELSE <<>>
  <2>1. posts \in Seq(Completions) /\ Expiries(posts) = {}
    BY <1>1, PostTypes
  <2>2. Handle("send", "ok", posts)
    BY <1>4 DEF HandleSendDone
  <2> HIDE DEF posts
  <2> QED
    BY <1>1, <2>1, <2>2, HandleCount, CompletionType DEF Kept
<1>5. ASSUME NEW k \in MaxCounts, HandleSendThenSend(k) PROVE Kept
  <2> DEFINE posts == SendPosts \o IF Repeat(0, k) THEN CancelTimer ELSE <<>>
  <2>1. posts \in Seq(Completions) /\ Expiries(posts) = {}
    BY <1>1, PostTypes, ConcatEmptySeq
  <2>2. Handle("send", "ok", posts)
    BY <1>5 DEF HandleSendThenSend
  <2> HIDE DEF posts
  <2> QED
    BY <1>1, <2>1, <2>2, HandleCount, CompletionType DEF Kept
<1>6. ASSUME HandleSendFailed \/ HandleTimeoutAborted PROVE Kept
  BY <1>1, <1>6, PostTypes, HandleCount, CompletionType
  DEF HandleSendFailed, HandleTimeoutAborted, Kept
<1>7. ASSUME NEW k \in MaxCounts, HandleErrorThenSend(k) PROVE Kept
  <2>1. PICK fn \in {"send", "timeout"} : Handle(fn, "err", SendPosts)
    BY <1>7 DEF HandleErrorThenSend
  <2> QED
    BY <1>1, <2>1, PostTypes, HandleCount, CompletionType DEF Kept
<1>8. ASSUME SendCompletes PROVE Kept
  <2>1. PICK arg \in {"ok", "err"} : ready' = Append(ready, Completion("send", arg))
    BY <1>8 DEF SendCompletes
  <2>2. /\ Completion("send", arg) \in Completions
        /\ Completion("send", arg) # Completion("timeout", "ok")
    BY CompletionType
  <2>3. /\ <<Completion("send", arg)>> \in Seq(Completions)
        /\ Expiries(<<Completion("send", arg)>>) = {}
    BY <2>2 DEF Expiries
  <2>4. ready' = ready \o <<Completion("send", arg)>>
    BY <1>1, <2>1, <2>2, AppendIsConcat
  <2> QED
    BY <1>1, <2>3, <2>4, PostCount DEF Kept
<1>9. ASSUME StopTimer \/ StopSocket \/ StopCount \/ CloseSender PROVE Kept
  BY <1>1, <1>9, PostTypes, PostCount
  DEF StopTimer, StopSocket, StopCount, CloseSender, AbortSends, Kept, Expired
<1>10. ASSUME HandleTimeout
       PROVE  ready' \in Seq(Completions) /\ Expired' \in Nat /\ Expired = Expired' + 1
  BY <1>1, <1>10, PostTypes, HandleCount DEF HandleTimeout
<1>11. ASSUME TimerExpires PROVE ready' \in Seq(Completions) /\ Expired' = Expired + 1
  BY <1>1, <1>11, CountAppend DEF TimerExpires, Count, Expired
<1> QED
  BY <1>2, <1>3, <1>4, <1>5, <1>6, <1>7, <1>8, <1>9, <1>10, <1>11

-----------------------------------------------------------------------------
(* The invariant *)

\* What a Send leaves behind, whoever calls it.
LEMMA SetMessageType ==
    ASSUME TypeOK, NEW k \in MaxCounts, SetMessage(k)
    PROVE  /\ message' \in 0..MaxSends /\ count' = 0 /\ max' = k /\ asked' = k
           /\ flying' \in Nat /\ open' \in BOOLEAN /\ sent' = 1 /\ failed' \in BOOLEAN
           /\ stopper' \in {"none", "timer", "socket"}
           /\ late' = 0 /\ pending' \in Nat
<1>1. open' \in BOOLEAN /\ failed' \in BOOLEAN
  BY Zenon DEF TypeOK, SetMessage, StartSend
<1> QED
  BY <1>1, BoundAssumption DEF TypeOK, SetMessage, StartSend

LEMMA SendInv ==
    ASSUME IInv, NEW k \in MaxCounts,
           Send(k) \/ HandleSendThenSend(k) \/ HandleErrorThenSend(k)
    PROVE  IInv'
<1>1. TypeOK /\ SetMessage(k) /\ k \in Int
  BY CountAssumption DEF IInv, Send, HandleSendThenSend, HandleErrorThenSend
<1>2. Kept /\ Expired \in Nat
  BY <1>1, QueueSteps
<1>3. timer' \in BOOLEAN
  BY <1>1, Zenon DEF Send, HandleSendThenSend, HandleErrorThenSend, TypeOK
<1>4. extra' = Expired + (IF timer' THEN 1 ELSE 0)
  BY DEF Send, HandleSendThenSend, HandleErrorThenSend, Due
<1>5. TypeOK'
  BY <1>1, <1>2, <1>3, <1>4, SetMessageType, BoundAssumption DEF TypeOK, Kept
<1>6. Due(timer)' = extra' /\ extra' \in Nat
  BY <1>2, <1>4 DEF Due, Kept
<1>7. Budget'
  BY <1>1, <1>6, SetMessageType DEF Budget, Left, Allowed
<1>8. StopHolds'
  BY <1>1, SetMessageType DEF StopHolds
<1> QED
  BY <1>5, <1>7, <1>8 DEF IInv

LEMMA IntTypes ==
    TypeOK =>
      /\ asked \in Int /\ max \in Int /\ (asked < MaxRepeats \/ asked = 0)
      /\ count \in Nat /\ sent \in Nat /\ late \in Nat /\ extra \in Nat /\ pending \in Nat
      /\ MaxRepeats \in Nat \ {0}
BY CountAssumption, BoundAssumption DEF TypeOK

LEMMA StepInv == IInv /\ [Next]_vars => IInv'
<1> SUFFICES ASSUME IInv, [Next]_vars PROVE IInv'
  OBVIOUS
<1> USE DEF messageVars, socketVars
<1>1. /\ TypeOK /\ Budget /\ StopHolds
      /\ asked \in Int /\ max \in Int /\ (asked < MaxRepeats \/ asked = 0)
      /\ count \in Nat /\ sent \in Nat /\ late \in Nat /\ extra \in Nat /\ pending \in Nat
      /\ MaxRepeats \in Nat \ {0} /\ Expired \in Nat
  BY IntTypes, QueueSteps DEF IInv
<1>2. CASE UNCHANGED vars
  BY <1>2
  DEF vars, IInv, TypeOK, Budget, StopHolds, Due, Expired, Expiries, Left, Allowed
<1>3. CASE \E k \in MaxCounts : Send(k) \/ HandleSendThenSend(k) \/ HandleErrorThenSend(k)
  BY <1>3, SendInv
<1>4. CASE HandleSendDone
  <2>1. Kept /\ timer' \in BOOLEAN /\ count' \in 0..MaxRepeats
    <3>1. timer' \in BOOLEAN
      BY <1>1, <1>4, Zenon DEF HandleSendDone, TypeOK
    <3> QED
      BY <1>1, <1>4, <3>1, QueueSteps DEF HandleSendDone, CountSend, Next1, TypeOK
  <2>2. TypeOK'
    BY <1>1, <1>4, <2>1 DEF HandleSendDone, TypeOK, Kept
  <2>3. count' = (IF count < MaxRepeats THEN count + 1 ELSE count) /\ count <= MaxRepeats
    BY <1>1, <1>4 DEF HandleSendDone, CountSend, Next1, TypeOK
  <2>4. CASE Repeat(count', max)
    <3>1. asked # Indefinite => max = asked /\ count' < asked /\ count' = count + 1
      BY <1>1, <2>3, <2>4 DEF Repeat, Budget, Indefinite
    <3>2. Due(timer)' <= Due(timer) + 1
      BY <1>1, <2>1 DEF Due, Kept
    <3>3. Budget'
      <4>1. UNCHANGED <<message, max, asked, extra, stopper, sent>>
        BY <1>4 DEF HandleSendDone
      <4>2. Due(timer)' \in Int /\ Due(timer) \in Int
        BY <1>1, <2>1 DEF Due, Kept
      <4>3. asked # Indefinite => Left' + 1 = Left /\ Left \in Int /\ Left' \in Int
        BY <1>1, <3>1, <4>1 DEF Left
      <4> QED
        BY <1>1, <3>2, <4>1, <4>2, <4>3 DEF Budget, Allowed
    <3>4. stopper # "done"
      BY <1>1, <2>3, <2>4 DEF Repeat, Budget, Indefinite
    <3> QED
      BY <1>4, <2>2, <3>3, <3>4 DEF HandleSendDone, IInv, StopHolds
  <2>5. CASE ~Repeat(count', max)
    <3>1. timer' = timer
      BY <1>1, <1>4, <2>5, Zenon DEF HandleSendDone, TypeOK
    <3>2. Due(timer)' = Due(timer) /\ Due(timer) \in Nat
      BY <1>1, <2>1, <3>1 DEF Due, Kept
    <3>3. Budget'
      BY <1>1, <1>4, <2>3, <3>2 DEF HandleSendDone, Budget, Left, Allowed
    <3>4. StopHolds'
      BY <1>1, <1>4, <3>2 DEF HandleSendDone, StopHolds
    <3> QED
      BY <2>2, <3>3, <3>4 DEF IInv
  <2> QED
    BY <2>4, <2>5
<1>5. CASE HandleSendFailed \/ HandleTimeoutAborted \/ SendCompletes \/ StopSocket \/ CloseSender
  <2>1. Kept
    BY <1>1, <1>5, QueueSteps
  <2>2. /\ UNCHANGED <<messageVars, count, timer, sent, late, pending>>
        /\ flying' \in Nat
        /\ stopper' \in {"none", "timer", "socket", "done"}
        /\ stopper' = "done" => stopper = "done"
    BY <1>1, <1>5
    DEF HandleSendFailed, HandleTimeoutAborted, SendCompletes, StopSocket, CloseSender,
        AbortSends, TypeOK
  <2>3. open' \in BOOLEAN /\ failed' \in BOOLEAN
    BY <1>1, <1>5, Zenon
    DEF HandleSendFailed, HandleTimeoutAborted, SendCompletes, StopSocket, CloseSender, TypeOK
  <2>4. TypeOK'
    BY <1>1, <2>1, <2>2, <2>3 DEF TypeOK, Kept
  <2>5. Due(timer)' = Due(timer)
    BY <2>1, <2>2 DEF Due, Kept
  <2> QED
    BY <1>1, <2>2, <2>4, <2>5 DEF IInv, Budget, StopHolds, Left, Allowed
<1>6. CASE HandleTimeout
  <2>1. ready' \in Seq(Completions) /\ Expired' \in Nat /\ Expired = Expired' + 1
    BY <1>1, <1>6, QueueSteps
  <2>2. /\ sent' \in 0..MaxRepeats /\ sent' <= sent + 1
        /\ late' \in 0..MaxRepeats /\ late' <= late + 1
        /\ flying' \in Nat
    BY <1>1, <1>6 DEF HandleTimeout, StartSend, Next1, TypeOK
  <2>3. TypeOK'
    BY <1>1, <1>6, <2>1, <2>2 DEF HandleTimeout, StartSend, TypeOK
  <2>4. Due(timer)' + 1 = Due(timer) /\ Due(timer)' \in Nat
    <3>1. timer' = timer
      BY <1>6, Zenon DEF HandleTimeout
    <3>2. CASE timer
      <4>1. Due(timer) = Expired + 1
        BY <3>2 DEF Due
      <4>2. Due(timer)' = Expired' + 1
        BY <3>1, <3>2 DEF Due
      <4> QED
        BY <1>1, <2>1, <4>1, <4>2
    <3>3. CASE ~timer
      <4>1. Due(timer) = Expired
        BY <1>1, <3>3 DEF Due
      <4>2. Due(timer)' = Expired'
        <5>1. (IF timer' THEN 1 ELSE 0) = 0
          BY <3>1, <3>3, Zenon
        <5>2. \A e \in Nat : e + 0 = e
          OBVIOUS
        <5>3. Expired' + 0 = Expired'
          BY <2>1, <5>2, Zenon
        <5> QED
          BY <5>1, <5>3, Zenon DEF Due
      <4> QED
        BY <1>1, <2>1, <4>1, <4>2
    <3> QED
      BY <3>2, <3>3
  <2>5. UNCHANGED <<max, asked, extra, count, stopper, pending>>
        /\ late' = IF stopper = "done" THEN Next1(late) ELSE late
    BY <1>6 DEF HandleTimeout
  <2>6. Left' = Left /\ Allowed' = Allowed /\ Left \in Int /\ Allowed \in Int
    BY <1>1, <2>5 DEF Left, Allowed
  <2>7. Budget'
    BY <1>1, <2>2, <2>4, <2>5, <2>6 DEF Budget
  <2>8. StopHolds'
    BY <1>1, <2>2, <2>4, <2>5 DEF StopHolds
  <2> QED
    BY <2>3, <2>7, <2>8 DEF IInv
<1>7. CASE TimerExpires
  <2>1. ready' \in Seq(Completions) /\ Expired' = Expired + 1
    BY <1>1, <1>7, QueueSteps
  <2>2. TypeOK'
    BY <1>1, <1>7, <2>1 DEF TimerExpires, TypeOK
  <2>3. Due(timer)' = Due(timer)
    BY <1>1, <1>7, <2>1 DEF TimerExpires, Due
  <2> QED
    BY <1>1, <1>7, <2>2, <2>3 DEF TimerExpires, IInv, Budget, StopHolds, Left, Allowed
<1>8. CASE StopTimer
  <2>1. Kept
    BY <1>1, <1>8, QueueSteps
  <2>2. TypeOK'
    BY <1>1, <1>8, <2>1 DEF StopTimer, TypeOK, Kept
  <2>3. Due(timer)' <= Due(timer) /\ Due(timer)' \in Nat /\ Due(timer) \in Nat
    BY <1>1, <1>8, <2>1 DEF StopTimer, Due, Kept
  <2> QED
    BY <1>1, <1>8, <2>2, <2>3 DEF StopTimer, IInv, Budget, StopHolds, Left, Allowed
<1>9. CASE StopCount
  <2>1. Kept
    BY <1>1, <1>9, QueueSteps
  <2>2. Due(timer)' = Due(timer) /\ Due(timer) \in Nat
    BY <1>1, <1>9, <2>1 DEF StopCount, Due, Kept
  <2>3. TypeOK'
    BY <1>1, <1>9, <2>1, <2>2 DEF StopCount, StopRepeating, TypeOK, Kept
  <2> QED
    BY <1>1, <1>9, <2>2, <2>3
    DEF StopCount, StopRepeating, IInv, Budget, StopHolds, Left, Allowed
<1> QED
  BY <1>2, <1>3, <1>4, <1>5, <1>6, <1>7, <1>8, <1>9
  DEF Next, IOThread, HandleSend, StopSender, Done

LEMMA InitInv == Init => IInv
<1> SUFFICES ASSUME Init PROVE IInv
  OBVIOUS
<1>1. ready = <<>> /\ <<>> \in Seq(Completions)
  BY EmptySeq DEF Init
<1>2. TypeOK
  <2>1. timer \in BOOLEAN /\ open \in BOOLEAN /\ failed \in BOOLEAN
    BY Zenon DEF Init
  <2> QED
    BY <1>1, <2>1, BoundAssumption DEF Init, TypeOK
<1>3. Due(timer) = 0
  BY <1>1, FS_EmptySet DEF Init, Due, Expired, Expiries
<1> QED
  BY <1>2, <1>3 DEF Init, IInv, Budget, StopHolds, Left, Allowed, Indefinite

-----------------------------------------------------------------------------
(* The theorems *)

\* The strengthened invariant holds of every behaviour, for any bounds.
THEOREM Inductive == Spec => []IInv
<1>1. Init => IInv
  BY InitInv
<1>2. IInv /\ [Next]_vars => IInv'
  BY StepInv
<1> QED
  BY <1>1, <1>2, PTL DEF Spec

\* Every variable keeps its type; the queue holds only handlers there are.
THEOREM TypeCorrect == Spec => []TypeOK
<1>1. IInv => TypeOK
  BY DEF IInv
<1> QED
  BY <1>1, Inductive, PTL

\* A message is transmitted as often as was asked, and once more for each
\* repetition that was due when it was sent, however many Sends share the
\* counter and the timer.
THEOREM NeverSentTooOften == Spec => []SentAtMost
<1>1. IInv => SentAtMost
  <2> SUFFICES ASSUME IInv, asked # Indefinite
               PROVE  sent <= 1 + (IF asked > 1 THEN asked - 1 ELSE 0) + extra
    BY DEF SentAtMost
  <2>1. /\ asked \in Int /\ count \in Nat /\ sent \in Nat /\ extra \in Nat /\ Expired \in Nat
        /\ sent + Due(timer) + Left <= Allowed
    BY IntTypes, QueueSteps DEF IInv, Budget
  <2>2. Due(timer) \in Nat /\ Left \in Nat
    BY <2>1 DEF Due, Left
  <2> QED
    BY <2>1, <2>2 DEF Allowed
<1> QED
  BY <1>1, Inductive, PTL

\* After StopSender has returned no handler starts another repetition: only
\* those that were due by then are transmitted.
THEOREM StopIsFinal == Spec => []StopHolds
<1>1. IInv => StopHolds
  BY DEF IInv
<1> QED
  BY <1>1, Inductive, PTL
=============================================================================
