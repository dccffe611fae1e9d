--------------------- MODULE ConnectionlessCommsProofs ---------------------
(***************************************************************************)
(* Invariance proofs about ConnectionlessComms, for all fourteen           *)
(* constructors, any number of calls of InitializeComms, TerminateComms    *)
(* and Send, and any number of datagrams.                                  *)
(***************************************************************************)
EXTENDS ConnectionlessComms, SequenceTheorems, TLAPS

-----------------------------------------------------------------------------
(* The constructors *)

\* The sender's io_service is given to nothing but an end of an object that can send
\* (the synchronous classes cross the two); all constructors but one pass the
\* addresses as they are declared.
LEMMA Wiring ==
    ASSUME kind \in Kinds
    PROVE  /\ CanRecv => Comms.recv.svc \in Services
           /\ CanRecv /\ Comms.recv.svc = "send" => CanSend
           /\ OwnAddresses
<1>1. /\ kind.cast \in {"udp", "multicast"} /\ kind.mode \in {"async", "sync"}
      /\ kind.use \in {"recv", "send", "both", "same"}
      /\ kind.use = "same" => kind.mode = "async"
      /\ kind = [cast |-> kind.cast, mode |-> kind.mode, use |-> kind.use]
  BY DEF Kinds
<1> DEFINE Wired(c, addrs, to) ==
             /\ c.recv # None => /\ c.recv.svc \in {"recv", "send"}
                                 /\ c.recv.svc = "send" => c.send # None
                                 /\ addrs => c.recv.addr = "R"
             /\ addrs /\ c.send # None => c.send.addr = to
           Target(use) == IF use = "same" THEN "R" ELSE "S"
           Declared == kind.cast = "udp" \/ kind.mode = "async" \/ kind.use # "both"
<1>2. ASSUME NEW use \in {"recv", "send", "both", "same"}
      PROVE  /\ Wired(AsyncUDPComms(use), TRUE, Target(use))
             /\ Wired(AsyncMulticastComms(use), TRUE, Target(use))
             /\ use # "same" => Wired(SyncUDPComms(use), TRUE, Target(use))
             /\ use # "same" => Wired(SyncMulticastComms(use), use # "both", Target(use))
  <2>1. \A svc, addr : /\ Receives(svc, addr).recv = End(svc, addr)
                       /\ Receives(svc, addr).send = None
                       /\ Sends(svc, addr).recv = None
                       /\ Sends(svc, addr).send = End(svc, addr)
    BY DEF Receives, Sends
  <2>2. \A svc, addr : End(svc, addr).svc = svc /\ End(svc, addr).addr = addr
    BY DEF End
  <2>3. End("recv", "S") # None /\ End("recv", "R") # None
    BY NoneAssumption DEF End, Services
  <2>4. \A b \in BOOLEAN : Wired(Receives("recv", "R"), b, "S") /\ Wired(Sends("send", "S"), b, "S")
    BY <2>1, <2>2
  <2>5. \A to : /\ Wired(AsyncUDPCommsImpl("recv", "send", "R", to), TRUE, to)
               /\ Wired(AsyncMulticastCommsImpl("recv", "send", "R", to), TRUE, to)
    BY <2>2 DEF AsyncUDPCommsImpl, AsyncMulticastCommsImpl
  <2>6. /\ Wired(SyncUDPCommsImpl("recv", "send", "R", "S"), TRUE, "S")
        /\ Wired(SyncMulticastCommsImpl("recv", "send", "R", "S"), FALSE, "S")
    BY <2>2, <2>3 DEF SyncUDPCommsImpl, SyncMulticastCommsImpl
  <2>7. use # "same" => Target(use) = "S"
    OBVIOUS
  <2> HIDE DEF Wired
  <2> QED
    BY <2>4, <2>5, <2>6, <2>7
    DEF AsyncUDPComms, AsyncMulticastComms, SyncUDPComms, SyncMulticastComms
<1>3. Wired(Comms, Declared, Target(kind.use))
  <2> HIDE DEF Wired
  <2>1. /\ Wired(AsyncUDPComms(kind.use), TRUE, Target(kind.use))
        /\ Wired(AsyncMulticastComms(kind.use), TRUE, Target(kind.use))
        /\ kind.use # "same" => Wired(SyncUDPComms(kind.use), TRUE, Target(kind.use))
        /\ kind.use # "same" =>
             Wired(SyncMulticastComms(kind.use), kind.use # "both", Target(kind.use))
    BY <1>1, <1>2
  <2> QED
    BY <1>1, <2>1 DEF Comms
<1>4. kind # [cast |-> "multicast", mode |-> "sync", use |-> "both"] => Declared
  BY <1>1
<1> QED
  BY <1>3, <1>4 DEF CanRecv, CanSend, OwnAddresses, Services

\* The wiring is that of the constructor, for good.
LEMMA FixedKind ==
    ASSUME UNCHANGED kind
    PROVE  /\ Comms' = Comms /\ CanRecv' = CanRecv /\ CanSend' = CanSend /\ Async' = Async
           /\ \A s \in Services : HasWork(s)' = HasWork(s)
<1>1. Comms' = Comms
  BY DEF Comms, AsyncUDPComms, SyncUDPComms, AsyncMulticastComms, SyncMulticastComms
<1> QED
  BY <1>1 DEF CanRecv, CanSend, Async, HasWork

\* The kinds of receiver: one that is there stays, and one that was set up is there.
LEMMA ReceiverSetup ==
    ASSUME kind \in Kinds, rsock \in {"null", "shut", "open", "bound", "joined"},
           NEW o \in ReceiverSetups
    PROVE  /\ o.sock \in {"null", "shut", "open", "bound", "joined"} /\ o.ok \in BOOLEAN
           /\ rsock # "null" \/ o.ok => o.sock # "null"
<1>1. kind.cast \in {"udp", "multicast"}
  BY DEF Kinds
<1> DEFINE Good(p) ==
             /\ p.sock \in {"null", "shut", "open", "bound", "joined"} /\ p.ok \in BOOLEAN
             /\ rsock # "null" \/ p.ok => p.sock # "null"
<1>0. ASSUME NEW s \in {"null", "shut", "open", "bound", "joined"}, NEW ok \in BOOLEAN,
             rsock # "null" \/ ok => s # "null"
      PROVE  Good(Outcome(s, ok))
  <2>1. Outcome(s, ok).sock = s /\ Outcome(s, ok).ok = ok
    BY DEF Outcome
  <2> QED
    BY <1>0, <2>1
<1> HIDE DEF Good
<1>2. \A p \in AsyncUDPReceiver(rsock) \cup SyncUDPReceiver(rsock) : Good(p)
  BY <1>0 DEF AsyncUDPReceiver, SyncUDPReceiver
<1>3. ASSUME NEW parses \in BOOLEAN
      PROVE  \A p \in AsyncMulticastReceiver(rsock, parses) \cup
                      SyncMulticastReceiver(rsock, parses) : Good(p)
  BY <1>0 DEF AsyncMulticastReceiver, SyncMulticastReceiver, OpenAndJoin, JoinGroup, NotOpen
<1>4. (Comms.recv.addr \in valid) \in BOOLEAN
  OBVIOUS
<1>5. Good(o)
  BY <1>1, <1>2, <1>3, <1>4 DEF ReceiverSetups
<1> QED
  BY <1>5 DEF Good

\* The senders' socket: the old one, or a new and open one.
LEMMA SenderSetup ==
    ASSUME ssock \in {"null", "shut", "open"}, NEW o \in SenderSetups
    PROVE  /\ o.sock \in {"null", "shut", "open"} /\ o.ok \in BOOLEAN
           /\ ssock # "null" \/ o.ok => o.sock # "null"
<1> DEFINE Good(p) ==
             /\ p.sock \in {"null", "shut", "open"} /\ p.ok \in BOOLEAN
             /\ ssock # "null" \/ p.ok => p.sock # "null"
<1>1. ASSUME NEW s \in {"null", "shut", "open"}, NEW ok \in BOOLEAN,
             ssock # "null" \/ ok => s # "null"
      PROVE  Good(Outcome(s, ok))
  <2>1. Outcome(s, ok).sock = s /\ Outcome(s, ok).ok = ok
    BY DEF Outcome
  <2> QED
    BY <1>1, <2>1
<1> HIDE DEF Good
<1>2. Good(o)
  BY <1>1 DEF SenderSetups
<1> QED
  BY <1>2 DEF Good

-----------------------------------------------------------------------------
(* Sequences of handlers and of callbacks *)

\* Append hands its element to the sequence, once.
LEMMA AppendOne ==
    ASSUME NEW S, NEW q \in Seq(S), NEW x \in S, NEW d
    PROVE  /\ NoneOf(q, d) /\ x # d => NoneOf(Append(q, x), d)
           /\ NoneOf(q, d) /\ x = d => OneOf(Append(q, x), d)
           /\ OneOf(q, d) /\ x # d => OneOf(Append(q, x), d)
<1>1. /\ Append(q, x) \in Seq(S) /\ Len(q) \in Nat /\ Len(Append(q, x)) = Len(q) + 1
      /\ \A i \in 1..Len(q) : Append(q, x)[i] = q[i]
      /\ Append(q, x)[Len(q) + 1] = x
  BY AppendProperties, LenProperties
<1>2. \A i \in 1..Len(Append(q, x)) : i \in 1..Len(q) \/ i = Len(q) + 1
  BY <1>1
<1>3. \A i \in 1..Len(q) : i \in 1..Len(Append(q, x))
  BY <1>1
<1>4. Len(q) + 1 \in 1..Len(Append(q, x)) /\ Len(q) + 1 \notin 1..Len(q)
  BY <1>1
<1>5. NoneOf(q, d) /\ x # d => NoneOf(Append(q, x), d)
  BY <1>1, <1>2 DEF NoneOf
<1>6. NoneOf(q, d) /\ x = d => OneOf(Append(q, x), d)
  BY <1>1, <1>2, <1>4 DEF NoneOf, OneOf
<1>7. OneOf(q, d) /\ x # d => OneOf(Append(q, x), d)
  BY <1>1, <1>2, <1>3 DEF OneOf
<1> QED
  BY <1>5, <1>6, <1>7

\* RemoveAt closes the gap it makes.
LEMMA RemoveAtProperties ==
    ASSUME NEW S, NEW q \in Seq(S), NEW i \in 1..Len(q)
    PROVE  /\ RemoveAt(q, i) \in Seq(S) /\ Len(RemoveAt(q, i)) = Len(q) - 1
           /\ \A j \in 1..(Len(q) - 1) : RemoveAt(q, i)[j] = IF j < i THEN q[j] ELSE q[j + 1]
<1> DEFINE a == SubSeq(q, 1, i - 1)
           b == SubSeq(q, i + 1, Len(q))
<1>1. Len(q) \in Nat /\ i \in Int /\ \A j \in 1..Len(q) : q[j] \in S
  BY LenProperties, ElementOfSeq
<1>2. /\ a \in Seq(S) /\ Len(a) = i - 1
      /\ \A j \in 1..(i - 1) : a[j] = q[j]
  <2>1. \A j \in 1..(i - 1) : q[j] \in S /\ 1 + j - 1 = j
    BY <1>1
  <2>2. /\ a \in Seq(S) /\ Len(a) = IF 1 <= i - 1 THEN (i - 1) - 1 + 1 ELSE 0
        /\ \A j \in 1..((i - 1) - 1 + 1) : a[j] = q[1 + j - 1]
    BY <1>1, <2>1, SubSeqProperties
  <2> QED
    BY <1>1, <2>1, <2>2
<1>3. /\ b \in Seq(S) /\ Len(b) = Len(q) - i
      /\ \A j \in 1..(Len(q) - i) : b[j] = q[i + j]
  <2>1. \A j \in (i + 1)..Len(q) : q[j] \in S
    BY <1>1
  <2>2. /\ b \in Seq(S) /\ Len(b) = IF i + 1 <= Len(q) THEN Len(q) - (i + 1) + 1 ELSE 0
        /\ \A j \in 1..(Len(q) - (i + 1) + 1) : b[j] = q[(i + 1) + j - 1]
    BY <1>1, <2>1, SubSeqProperties
  <2>3. \A j \in 1..(Len(q) - i) : j \in 1..(Len(q) - (i + 1) + 1) /\ (i + 1) + j - 1 = i + j
    BY <1>1
  <2> QED
    BY <1>1, <2>2, <2>3
<1> HIDE DEF a, b
<1>4. /\ a \o b \in Seq(S) /\ Len(a \o b) = Len(a) + Len(b)
      /\ \A j \in 1..(Len(a) + Len(b)) : (a \o b)[j] = IF j <= Len(a) THEN a[j] ELSE b[j - Len(a)]
  BY <1>2, <1>3, ConcatProperties
<1>5. ASSUME NEW j \in 1..(Len(q) - 1)
      PROVE  (a \o b)[j] = IF j < i THEN q[j] ELSE q[j + 1]
  <2>1. (a \o b)[j] = IF j <= i - 1 THEN a[j] ELSE b[j - (i - 1)]
    BY <1>1, <1>2, <1>3, <1>4
  <2>2. CASE j < i
    BY <1>1, <1>2, <2>1, <2>2
  <2>3. CASE ~(j < i)
    <3>1. j - (i - 1) \in 1..(Len(q) - i) /\ i + (j - (i - 1)) = j + 1
      BY <1>1, <2>3
    <3> QED
      BY <1>1, <1>3, <2>1, <2>3, <3>1
  <2> QED
    BY <2>2, <2>3
<1>6. RemoveAt(q, i) = a \o b
  BY DEF RemoveAt, a, b
<1> QED
  BY <1>1, <1>2, <1>3, <1>4, <1>5, <1>6

\* RemoveAt takes away the element at its place, and no other.
LEMMA RemoveOne ==
    ASSUME NEW S, NEW q \in Seq(S), NEW i \in 1..Len(q), NEW d
    PROVE  /\ NoneOf(q, d) => NoneOf(RemoveAt(q, i), d) /\ q[i] # d
           /\ OneOf(q, d) /\ q[i] = d => NoneOf(RemoveAt(q, i), d)
           /\ OneOf(q, d) /\ q[i] # d => OneOf(RemoveAt(q, i), d)
           /\ ~NoneOf(q, d) => q[i] = d \/ ~NoneOf(RemoveAt(q, i), d)
<1> DEFINE r == RemoveAt(q, i)
           From(j) == IF j < i THEN j ELSE j + 1
           To(k) == IF k < i THEN k ELSE k - 1
<1>1. Len(q) \in Nat /\ i \in Int /\ Len(r) = Len(q) - 1
  BY LenProperties, RemoveAtProperties
<1>2. \A j \in 1..Len(r) : From(j) \in 1..Len(q) /\ From(j) # i /\ To(From(j)) = j
  BY <1>1
<1>3. \A j \in 1..Len(r) : r[j] = q[From(j)]
  BY <1>1, RemoveAtProperties
<1>4. \A k \in 1..Len(q) : k # i => To(k) \in 1..Len(r) /\ From(To(k)) = k
  BY <1>1
<1> HIDE DEF r, From, To
<1>5. \A k \in 1..Len(q) : k # i => r[To(k)] = q[k]
  BY <1>3, <1>4
<1>6. NoneOf(q, d) => NoneOf(r, d) /\ q[i] # d
  BY <1>2, <1>3 DEF NoneOf
<1>7. OneOf(q, d) /\ q[i] = d => NoneOf(r, d)
  BY <1>2, <1>3 DEF NoneOf, OneOf
<1>8. OneOf(q, d) /\ q[i] # d => OneOf(r, d)
  <2> SUFFICES ASSUME OneOf(q, d), q[i] # d PROVE OneOf(r, d)
    OBVIOUS
  <2>1. PICK k \in 1..Len(q) : q[k] = d /\ \A j \in 1..Len(q) : q[j] = d => j = k
    BY DEF OneOf
  <2>2. To(k) \in 1..Len(r) /\ r[To(k)] = d
    BY <1>4, <1>5, <2>1
  <2>3. \A j \in 1..Len(r) : r[j] = d => j = To(k)
    BY <1>2, <1>3, <2>1
  <2> QED
    BY <2>2, <2>3 DEF OneOf
<1>9. ~NoneOf(q, d) => q[i] = d \/ ~NoneOf(r, d)
  BY <1>4, <1>5 DEF NoneOf
<1> QED
  BY <1>6, <1>7, <1>8, <1>9 DEF r

\* The queue of the receiver's handlers, of which there is seldom more than one.
LEMMA ShortQueue ==
    ASSUME NEW S, NEW q \in Seq(S)
    PROVE  /\ Len(q) \in Nat /\ (Len(q) = 0 <=> q = <<>>)
           /\ \A x \in S : /\ Append(q, x) \in Seq(S) /\ Append(q, x) # <<>>
                           /\ Len(Append(q, x)) = Len(q) + 1
                           /\ Head(Append(q, x)) = IF q = <<>> THEN x ELSE Head(q)
           /\ q # <<>> => /\ Head(q) \in S /\ Tail(q) \in Seq(S)
                          /\ Len(Tail(q)) = Len(q) - 1
BY EmptySeq, LenProperties, HeadTailProperties, AppendProperties, HeadTailAppend

\* The handlers of receives that are aborted join the queue.
LEMMA AbortedQueue ==
    ASSUME NEW q \in Seq({"ok", "err"}), NEW n \in Nat
    PROVE  LET r == q \o [i \in 1..n |-> "err"]
           IN  /\ r \in Seq({"ok", "err"}) /\ Len(r) = Len(q) + n
               /\ n = 0 => r = q
               /\ q # <<>> => r # <<>> /\ Head(r) = Head(q)
               /\ q = <<>> /\ n > 0 => r # <<>> /\ Head(r) = "err"
<1> DEFINE e == [i \in 1..n |-> "err"]
           r == q \o e
<1>1. e \in Seq({"ok", "err"}) /\ Len(e) = n /\ \A i \in 1..n : e[i] = "err"
  OBVIOUS
<1> HIDE DEF e
<1>2. Len(q) \in Nat /\ (Len(q) = 0 <=> q = <<>>)
  BY EmptySeq, LenProperties
<1>3. /\ r \in Seq({"ok", "err"}) /\ Len(r) = Len(q) + n
      /\ \A i \in 1..(Len(q) + n) : r[i] = IF i <= Len(q) THEN q[i] ELSE e[i - Len(q)]
  BY <1>1, ConcatProperties
<1> HIDE DEF r
<1>4. r # <<>> => Head(r) = r[1]
  BY <1>3
<1>5. q # <<>> => Head(q) = q[1]
  OBVIOUS
<1>6. Len(r) > 0 => r # <<>> /\ 1 \in 1..(Len(q) + n)
  BY <1>2, <1>3, EmptySeq
<1>7. n = 0 => r = q
  <2> SUFFICES ASSUME n = 0 PROVE r = q
    OBVIOUS
  <2>1. e = <<>>
    BY <1>1, EmptySeq
  <2> QED
    BY <2>1, ConcatEmptySeq DEF r
<1>8. q # <<>> => r # <<>> /\ Head(r) = Head(q)
  BY <1>2, <1>3, <1>4, <1>5, <1>6
<1>9. q = <<>> /\ n > 0 => r # <<>> /\ Head(r) = "err"
  BY <1>1, <1>2, <1>3, <1>4, <1>6
<1> QED
  BY <1>3, <1>7, <1>8, <1>9 DEF r, e

-----------------------------------------------------------------------------
(* What a step leaves alone *)

UserActs ==
    \/ InitializeComms \/ TerminateComms \/ InitializeSender \/ StartThreads
    \/ JoinThreads \/ TerminateCommsImpl \/ Destruct

OtherActs ==
    \/ HandleReceiveFrom \/ HandleReceiveError \/ (\E s \in Services : ThreadEnds(s))
    \/ CallbackRuns \/ SendBegin \/ SendOpen \/ SendTo \/ Arrives \/ ReceiveFails

\* A step is the owner's, somebody else's, or none.
LEMMA NextCases ==
    ASSUME [Next]_vars
    PROVE  (~crashed /\ (UserActs \/ OtherActs)) \/ UNCHANGED vars
BY Zenon DEF Next, UserStep, Threads, Send, UserActs, OtherActs

\* Which actions can change a variable at all.
LEMMA Frame ==
    ASSUME [Next]_vars
    PROVE  /\ UNCHANGED <<kind, valid>>
           /\ UNCHANGED <<user, state, once, destroying, inits, terms>> \/ UserActs
           /\ UNCHANGED <<stopped, own, stray>>
              \/ StartThreads \/ TerminateComms \/ JoinThreads \/ \E s \in Services : ThreadEnds(s)
           /\ rsock' = rsock \/ InitializeComms \/ TerminateCommsImpl \/ Destruct
           /\ UNCHANGED <<receiving, ready, spoilt>>
              \/ InitializeComms \/ TerminateCommsImpl \/ Destruct
              \/ HandleReceiveFrom \/ HandleReceiveError \/ Arrives \/ ReceiveFails
           /\ UNCHANGED <<buffer, data>> \/ Arrives
           /\ UNCHANGED <<called, heard>>
              \/ HandleReceiveFrom \/ HandleReceiveError \/ CallbackRuns
           /\ ssock' = ssock \/ InitializeSender \/ TerminateCommsImpl \/ Destruct \/ SendOpen
           /\ snd' = snd \/ SendBegin \/ SendOpen \/ SendTo
           /\ sends' = sends \/ SendBegin
           /\ reopened' = reopened \/ StartThreads \/ TerminateCommsImpl \/ SendOpen
           /\ crashed' = crashed \/ TerminateCommsImpl \/ SendOpen
<1> USE DEF fixedVars, userVars, svcVars, recvVars, cbVars, sendVars
<1>1. CASE UserActs
  BY <1>1
  DEF UserActs, InitializeComms, InitializeReceiver, TerminateComms, InitializeSender,
      StartThreads, JoinThreads, Join, TerminateCommsImpl, CloseReceiver, Destruct
<1>2. CASE OtherActs
  BY <1>2
  DEF OtherActs, HandleReceiveFrom, HandleReceiveError, ReceiveFrom, ThreadEnds, CallbackRuns,
      SendBegin, SendOpen, SendTo, Arrives, ReceiveFails
<1>3. CASE UNCHANGED vars
  BY <1>3 DEF vars
<1> QED
  BY <1>1, <1>2, <1>3, NextCases

\* InitializeComms by what InitializeReceiver does.
LEMMA InitializeCases ==
    ASSUME IInv, InitializeComms
    PROVE  /\ user = "idle" /\ snd.at = "idle"
           /\ inits' = inits + 1 /\ inits < MaxInits
           /\ UNCHANGED <<once, destroying, terms>>
           /\ \/ /\ ~CanRecv /\ user' = "initSend"
                 /\ UNCHANGED <<state, rsock, receiving, ready, spoilt>>
              \/ /\ CanRecv
                 /\ rsock' \in {"null", "shut", "open", "bound", "joined"}
                 /\ rsock # "null" => rsock' # "null"
                 /\ \/ /\ user' = "idle" /\ state' = IF state = "up" THEN "up" ELSE "failed"
                       /\ UNCHANGED <<receiving, ready, spoilt>>
                    \/ /\ user' = IF CanSend THEN "initSend" ELSE "threads"
                       /\ state' = state /\ rsock' # "null"
                       /\ IF Async THEN ReceiveFrom(rsock', receiving, ready)
                          ELSE UNCHANGED <<receiving, ready, spoilt>>
<1>1. /\ user = "idle" /\ snd.at = "idle"
      /\ inits' = inits + 1 /\ inits < MaxInits
      /\ UNCHANGED <<once, destroying, terms>>
  BY DEF InitializeComms
<1>2. CASE ~CanRecv
  BY <1>1, <1>2 DEF InitializeComms
<1>3. CASE CanRecv
  <2>1. PICK o \in ReceiverSetups :
          /\ rsock' = o.sock
          /\ IF o.ok THEN user' = (IF CanSend THEN "initSend" ELSE "threads") /\ UNCHANGED state
             ELSE Fails
          /\ IF o.ok /\ Async THEN ReceiveFrom(o.sock, receiving, ready)
             ELSE UNCHANGED <<receiving, ready, spoilt>>
    BY <1>3 DEF InitializeComms, InitializeReceiver
  <2>2. /\ o.sock \in {"null", "shut", "open", "bound", "joined"} /\ o.ok \in BOOLEAN
        /\ rsock # "null" \/ o.ok => o.sock # "null"
    BY ReceiverSetup DEF IInv, TypeOK
  <2>3. CASE o.ok
    BY <1>1, <1>3, <2>1, <2>2, <2>3, Zenon
  <2>4. CASE ~o.ok
    BY <1>1, <1>3, <2>1, <2>2, <2>4 DEF Fails
  <2> QED
    BY <2>3, <2>4
<1> QED
  BY <1>2, <1>3

\* InitializeSender by what it reports.
LEMMA InitializeSenderCases ==
    ASSUME IInv, InitializeSender
    PROVE  /\ user = "initSend" /\ ssock' \in {"null", "shut", "open"}
           /\ UNCHANGED <<once, destroying, inits, terms>>
           /\ ssock # "null" => ssock' # "null"
           /\ \/ user' = "idle" /\ state' = IF state = "up" THEN "up" ELSE "failed"
              \/ user' = "threads" /\ state' = state /\ ssock' # "null"
<1>1. /\ user = "initSend" /\ UNCHANGED <<once, destroying, inits, terms>>
  BY DEF InitializeSender
<1>2. PICK o \in SenderSetups :
        /\ ssock' = o.sock
        /\ IF o.ok THEN user' = "threads" /\ UNCHANGED state ELSE Fails
  BY DEF InitializeSender
<1>3. /\ o.sock \in {"null", "shut", "open"} /\ o.ok \in BOOLEAN
      /\ ssock # "null" \/ o.ok => o.sock # "null"
  BY SenderSetup DEF IInv, TypeOK
<1>4. CASE o.ok
  BY <1>1, <1>2, <1>3, <1>4
<1>5. CASE ~o.ok
  BY <1>1, <1>2, <1>3, <1>5 DEF Fails
<1> QED
  BY <1>4, <1>5

-----------------------------------------------------------------------------
(* The invariants, one part at a time *)

\* A destructor that has begun goes through to the end of the object.
LEMMA UserOrderStep == ASSUME IInv, [Next]_vars PROVE UserOrder'
<1>0. /\ UserOrder /\ terms \in 0..(MaxTerms + 1) /\ MaxTerms \in Nat
      /\ user \in {"idle", "initSend", "threads", "joinRecv", "joinSend", "close", "destruct",
                   "gone"}
      /\ state \in {"new", "failed", "up", "down", "gone"}
  BY BoundAssumption DEF IInv, TypeOK
<1> USE DEF UserOrder, Terminating
<1>1. CASE UNCHANGED <<user, state, once, destroying, inits, terms>>
  BY <1>0, <1>1
<1>2. CASE InitializeComms
  BY <1>0, <1>2, InitializeCases
<1>3. CASE InitializeSender
  BY <1>0, <1>3, InitializeSenderCases
<1>4. CASE TerminateComms
  <2>1. /\ user = "idle" /\ user' = "joinRecv" /\ state # "gone" /\ UNCHANGED <<state, once>>
        /\ terms' = terms + 1
    BY <1>4 DEF TerminateComms, userVars
  <2>2. terms < MaxTerms \/ destroying'
    BY <1>4, Zenon DEF TerminateComms
  <2> QED
    BY <1>0, <2>1, <2>2
<1>5. CASE StartThreads
  <2>1. /\ user = "threads" /\ user' = "idle" /\ state' = "up"
        /\ UNCHANGED <<destroying, terms>>
    BY <1>5 DEF StartThreads
  <2>2. once'
    BY <1>5, Zenon DEF StartThreads
  <2> QED
    BY <1>0, <2>1, <2>2
<1>6. CASE JoinThreads
  BY <1>0, <1>6 DEF JoinThreads, Join
<1>7. CASE TerminateCommsImpl
  BY <1>0, <1>7 DEF TerminateCommsImpl
<1>8. CASE Destruct
  BY <1>0, <1>8 DEF Destruct
<1> QED
  BY <1>1, <1>2, <1>3, <1>4, <1>5, <1>6, <1>7, <1>8, Frame DEF UserActs

\* SendBegin checks that nobody initialises or destroys, and while it is in
\* progress neither InitializeComms nor the destructor begins.
LEMMA SendOrderStep == ASSUME IInv, [Next]_vars PROVE SendOrder'
<1>0. /\ SendOrder /\ UserOrder /\ MaxCount \in Nat \ {0}
      /\ snd \in [at : {"idle", "open", "send"}, count : 0..MaxCount, err : BOOLEAN]
      /\ CanSend' = CanSend
  BY FixedKind, Frame, BoundAssumption DEF IInv, TypeOK
<1> USE DEF SendOrder, Initializing
<1>1. CASE SendBegin
  <2>1. /\ snd' = [at |-> "open", count |-> 0, err |-> FALSE] /\ UNCHANGED <<user, destroying>>
        /\ user \notin Initializing /\ CanSend
    BY <1>1 DEF SendBegin, userVars
  <2>2. ~destroying
    <3>1. ~(destroying /\ user # "idle")
      BY <1>1 DEF SendBegin
    <3> QED
      BY <1>0, <3>1, Zenon DEF UserOrder, Terminating
  <2> QED
    BY <1>0, <2>1, <2>2
<1>2. CASE SendOpen
  <2>1. /\ snd.at = "open" /\ snd'.count = snd.count /\ UNCHANGED <<user, destroying>>
    BY <1>0, <1>2 DEF SendOpen, userVars
  <2> QED
    BY <1>0, <2>1
<1>3. CASE SendTo
  <2>1. PICK err \in BOOLEAN :
          snd' = [at |-> IF err /\ snd.count + 1 < MaxCount THEN "open" ELSE "idle",
                  count |-> snd.count + 1, err |-> err]
    BY <1>3 DEF SendTo
  <2>2. snd.at = "send" /\ UNCHANGED <<user, destroying>>
    BY <1>3 DEF SendTo, userVars
  <2>3. snd'.at # "idle" => snd.count + 1 < MaxCount
    BY <2>1
  <2>4. snd'.count = snd.count + 1
    BY <2>1
  <2> QED
    BY <1>0, <2>2, <2>3, <2>4
<1>4. CASE snd' = snd /\ UNCHANGED <<user, destroying>>
  BY <1>0, <1>4
<1>5. CASE UserActs
  <2>1. snd' = snd
    BY <1>5 DEF UserActs, InitializeComms, TerminateComms, InitializeSender, StartThreads,
       JoinThreads, Join, TerminateCommsImpl, Destruct, sendVars
  <2>2. snd.at = "idle" \/ (~destroying' /\ user' \notin Initializing)
    <3>1. CASE InitializeComms
      BY <3>1 DEF InitializeComms
    <3>2. CASE InitializeSender \/ StartThreads
      BY <1>0, <3>2 DEF InitializeSender, StartThreads
    <3>3. CASE TerminateComms
      <4>1. snd.at = "idle" \/ ~destroying'
        BY <3>3, Zenon DEF TerminateComms
      <4> QED
        BY <3>3, <4>1 DEF TerminateComms
    <3>4. CASE JoinThreads \/ TerminateCommsImpl
      <4>1. destroying' = destroying /\ user' \notin Initializing
        BY <3>4 DEF JoinThreads, Join, TerminateCommsImpl
      <4> QED
        BY <1>0, <4>1
    <3>5. CASE Destruct
      BY <1>0, <3>5 DEF Destruct, UserOrder
    <3> QED
      BY <1>5, <3>1, <3>2, <3>3, <3>4, <3>5 DEF UserActs
  <2> QED
    BY <1>0, <2>1, <2>2
<1> QED
  BY <1>1, <1>2, <1>3, <1>4, <1>5, Frame

\* Taking what terms counts as given: the io_services' threads are started once,
\* and none that has work ends before it is told to.
LEMMA ServiceOrderStep == ASSUME IInv, [Next]_vars PROVE ServiceOrder'
<1>0. /\ ServiceOrder /\ UserOrder /\ terms \in Nat /\ kind \in Kinds
      /\ stopped \in [Services -> BOOLEAN]
      /\ own \in [Services -> {"none", "run", "ended"}]
      /\ \A s \in Services : HasWork(s)' = HasWork(s)
  BY FixedKind, Frame DEF IInv, TypeOK
<1>1. ASSUME UNCHANGED <<stopped, own, terms, once>> PROVE ServiceOrder'
  BY <1>0, <1>1 DEF ServiceOrder
<1>2. CASE StartThreads
  <2>1. \A s \in Services : own'[s] = "run" \/ (~CanSend /\ s = "send")
    BY <1>2 DEF StartThreads, Services
  <2>2. HasWork("send") => CanSend
    BY <1>0, Wiring DEF HasWork
  <2>3. UNCHANGED <<stopped, terms>>
    BY <1>2 DEF StartThreads
  <2> QED
    BY <1>0, <2>1, <2>2, <2>3 DEF ServiceOrder
<1>3. CASE TerminateComms
  <2>1. terms' > 0
    BY <1>0, <1>3 DEF TerminateComms
  <2>2. \A s \in Services : stopped'[s]
    BY <1>3 DEF TerminateComms, StopServices
  <2> QED
    BY <2>1, <2>2 DEF ServiceOrder
<1>4. CASE JoinThreads
  <2>1. terms > 0 /\ UNCHANGED <<stopped, terms>>
    BY <1>0, <1>4 DEF JoinThreads, Join, UserOrder, Terminating
  <2> QED
    BY <1>0, <2>1 DEF ServiceOrder
<1>5. ASSUME NEW s \in Services, ThreadEnds(s) PROVE ServiceOrder'
  <2>1. /\ \A t \in Services : t # s => stopped'[t] = stopped[t] /\ own'[t] = own[t]
        /\ UNCHANGED <<terms, once>>
    BY <1>0, <1>5 DEF ThreadEnds, userVars
  <2>2. stopped'[s]
    BY <1>0, <1>5 DEF ThreadEnds
  <2>3. stopped[s] \/ ~HasWork(s)
    BY <1>5 DEF ThreadEnds
  <2> QED
    BY <1>0, <2>1, <2>2, <2>3 DEF ServiceOrder
<1>6. CASE InitializeComms \/ InitializeSender \/ TerminateCommsImpl \/ Destruct \/ SendBegin
           \/ SendOpen \/ SendTo
  <2>1. UNCHANGED <<stopped, own, terms, once>>
    BY <1>6 DEF InitializeComms, InitializeSender, TerminateCommsImpl, Destruct, SendBegin,
       SendOpen, SendTo, svcVars, userVars
  <2> QED
    BY <1>1, <2>1
<1>7. CASE UNCHANGED <<user, state, once, destroying, inits, terms>>
           /\ UNCHANGED <<stopped, own, stray>>
  BY <1>1, <1>7
<1> QED
  BY <1>2, <1>3, <1>4, <1>5, <1>6, <1>7, Frame DEF UserActs

\* No thread is started between its join and the end of TerminateComms.
LEMMA JoinedStep == ASSUME IInv, [Next]_vars PROVE Joined'
<1>0. /\ Joined /\ own \in [Services -> {"none", "run", "ended"}]
  BY DEF IInv, TypeOK
<1> USE DEF Joined
<1>1. CASE JoinThreads
  BY <1>0, <1>1 DEF JoinThreads, Join, Services
<1>2. ASSUME NEW s \in Services, ThreadEnds(s) PROVE Joined'
  <2>1. user' = user /\ \A t \in Services : own[t] = "none" => own'[t] = "none"
    BY <1>0, <1>2 DEF ThreadEnds, userVars
  <2> QED
    BY <1>0, <2>1 DEF Services
<1>3. CASE InitializeComms
  BY <1>3, InitializeCases
<1>4. CASE InitializeSender
  BY <1>4, InitializeSenderCases
<1>5. CASE TerminateComms \/ StartThreads \/ TerminateCommsImpl \/ Destruct
  BY <1>5 DEF TerminateComms, StartThreads, TerminateCommsImpl, Destruct
<1>6. CASE user' = user /\ own' = own
  BY <1>0, <1>6
<1> QED
  BY <1>1, <1>2, <1>3, <1>4, <1>5, <1>6, Frame DEF UserActs

\* Only TerminateCommsImpl makes the state "down", and only a Send opens a socket then.
LEMMA ReleasedStep == ASSUME IInv, [Next]_vars PROVE Released'
<1>0. /\ Released /\ Joined /\ own \in [Services -> {"none", "run", "ended"}]
      /\ Async' = Async
  BY FixedKind, Frame DEF IInv, TypeOK
<1>1. crashed => crashed'
  BY NextCases, Zenon DEF vars
<1>2. CASE InitializeComms
  <2>1. user' # "idle" \/ state' # "down"
    BY <1>2, InitializeCases
  <2> QED
    BY <2>1 DEF Released
<1>3. CASE InitializeSender
  <2>1. user' # "idle" \/ state' # "down"
    BY <1>3, InitializeSenderCases
  <2> QED
    BY <2>1 DEF Released
<1>4. CASE TerminateComms \/ StartThreads \/ JoinThreads \/ Destruct
  <2>1. user' # "idle" \/ state' # "down"
    BY <1>4 DEF TerminateComms, StartThreads, JoinThreads, Join, Destruct
  <2> QED
    BY <2>1 DEF Released
<1>5. CASE TerminateCommsImpl
  <2>1. user = "close" /\ own' = own
    BY <1>5 DEF TerminateCommsImpl, svcVars
  <2>2. rsock' \in NotOpen /\ (Async \/ ssock' \in NotOpen)
    BY <1>5 DEF TerminateCommsImpl, CloseReceiver, Closed, NotOpen
  <2> QED
    BY <1>0, <2>1, <2>2 DEF Released, Joined, Services
<1>6. ASSUME ~UserActs, UNCHANGED <<user, state, rsock>>,
             state = "down" /\ user = "idle" => Async' \/ reopened' \/ ssock' \in NotOpen,
             \A s \in Services : own[s] = "none" => own'[s] = "none"
      PROVE  Released'
  <2>1. CASE state = "down" /\ user = "idle" /\ ~crashed
    BY <1>0, <1>6, <2>1 DEF Released
  <2>2. CASE crashed
    BY <1>1, <2>2 DEF Released
  <2>3. CASE state # "down" \/ user # "idle"
    BY <1>6, <2>3 DEF Released
  <2> QED
    BY <2>1, <2>2, <2>3
<1>7. CASE ~UserActs
  <2>1. UNCHANGED <<user, state, rsock>>
    BY <1>7, Frame DEF UserActs
  <2>2. \A s \in Services : own[s] = "none" => own'[s] = "none"
    <3>1. ASSUME NEW t \in Services, ThreadEnds(t)
          PROVE  \A s \in Services : own[s] = "none" => own'[s] = "none"
      BY <1>0, <3>1 DEF ThreadEnds
    <3> QED
      BY <1>7, <3>1, Frame DEF UserActs
  <2>3. ASSUME state = "down", user = "idle"
        PROVE  crashed \/ Async' \/ reopened' \/ ssock' \in NotOpen
    <3>1. crashed \/ Async \/ reopened \/ ssock \in NotOpen
      BY <1>0, <2>3 DEF Released
    <3>2. CASE ~SendOpen
      <4>1. UNCHANGED <<reopened, ssock>>
        BY <1>7, <3>2, Frame DEF UserActs
      <4> QED
        BY <1>0, <3>1, <4>1
    <3>3. CASE SendOpen
      <4>1. UNCHANGED <<reopened, ssock>> \/ reopened'
        BY <2>3, <3>3 DEF SendOpen
      <4> QED
        BY <1>0, <3>1, <4>1
    <3> QED
      BY <3>2, <3>3
  <2>4. CASE crashed
    BY <1>1, <2>4 DEF Released
  <2>5. CASE ~crashed
    BY <1>6, <1>7, <2>1, <2>2, <2>3, <2>5
  <2> QED
    BY <2>4, <2>5
<1> QED
  BY <1>2, <1>3, <1>4, <1>5, <1>7 DEF UserActs

\* A socket that was made is closed and replaced, but null again only at the end.
LEMMA SocketsThereStep == ASSUME IInv, [Next]_vars PROVE SocketsThere'
<1>0. /\ SocketsThere /\ UserOrder /\ CanRecv' = CanRecv /\ CanSend' = CanSend
  BY FixedKind, Frame DEF IInv
<1> USE DEF SocketsThere, Initializing
<1>1. CASE InitializeComms
  <2>1. ssock' = ssock /\ user = "idle" /\ state # "gone"
    BY <1>0, <1>1 DEF InitializeComms, sendVars, UserOrder
  <2>2. once' = once /\ (CanSend => user' # "threads")
    BY <1>1, InitializeCases
  <2>3. CanRecv /\ (once \/ user' \in Initializing) => rsock' # "null"
    BY <1>0, <1>1, <2>1, InitializeCases
  <2> QED
    BY <1>0, <2>1, <2>2, <2>3
<1>2. CASE InitializeSender
  <2>1. rsock' = rsock /\ state # "gone" /\ user = "initSend"
    BY <1>0, <1>2 DEF InitializeSender, recvVars, UserOrder
  <2> QED
    BY <1>0, <1>2, <2>1, InitializeSenderCases
<1>3. CASE StartThreads
  <2>1. state # "gone" /\ user = "threads" /\ UNCHANGED <<rsock, ssock>>
    BY <1>0, <1>3 DEF StartThreads, recvVars, UserOrder
  <2> QED
    BY <1>0, <2>1
<1>4. CASE TerminateComms \/ JoinThreads
  <2>1. UNCHANGED <<rsock, ssock, state, once>> /\ user' \notin Initializing
    BY <1>4 DEF TerminateComms, JoinThreads, Join, recvVars, sendVars
  <2> QED
    BY <1>0, <2>1
<1>5. CASE TerminateCommsImpl
  <2>1. /\ once' = once /\ user' \notin Initializing /\ user = "close" /\ state # "gone"
        /\ rsock # "null" => rsock' # "null"
        /\ ssock # "null" => ssock' # "null"
    BY <1>0, <1>5 DEF TerminateCommsImpl, CloseReceiver, Closed, UserOrder
  <2> QED
    BY <1>0, <2>1
<1>6. CASE Destruct
  BY <1>6 DEF Destruct
<1>7. CASE ~UserActs
  <2>1. UNCHANGED <<user, state, once, rsock>>
    BY <1>7, Frame DEF UserActs
  <2>2. ssock' = ssock \/ ssock' = "open"
    <3>1. SendOpen => ssock' = ssock \/ ssock' = "open"
      BY DEF SendOpen
    <3> QED
      BY <1>7, <3>1, Frame DEF UserActs
  <2> QED
    BY <1>0, <2>1, <2>2
<1> QED
  BY <1>1, <1>2, <1>3, <1>4, <1>5, <1>6, <1>7 DEF UserActs

\* The two steps that use a socket unchecked find one once the object has been up.
LEMMA SafeStep == ASSUME IInv, [Next]_vars PROVE SafeOnceUp'
<1>0. SafeOnceUp /\ UserOrder /\ SendOrder /\ SocketsThere
  BY DEF IInv
<1>1. CASE TerminateCommsImpl
  <2>1. /\ once' = once
        /\ crashed' = (~Async /\ ((CanSend /\ ssock = "null") \/ (CanRecv /\ rsock = "null")))
        /\ state # "gone"
    BY <1>0, <1>1 DEF TerminateCommsImpl, UserOrder
  <2> QED
    BY <1>0, <2>1 DEF SafeOnceUp, SocketsThere
<1>2. CASE SendOpen
  <2>1. once' = once /\ snd.at = "open" /\ crashed' = (ssock = "null")
    BY <1>2 DEF SendOpen, userVars
  <2>2. CanSend /\ ~destroying
    BY <1>0, <2>1 DEF SendOrder
  <2>3. state # "gone"
    BY <1>0, <2>2 DEF UserOrder
  <2> QED
    BY <1>0, <2>1, <2>2, <2>3 DEF SafeOnceUp, SocketsThere
<1>3. CASE ~TerminateCommsImpl /\ ~SendOpen /\ ~StartThreads
  <2>1. crashed' = crashed
    BY <1>3, Frame
  <2>2. once' = once
    BY <1>3, Frame DEF UserActs, InitializeComms, TerminateComms, InitializeSender,
       JoinThreads, Join, Destruct
  <2> QED
    BY <1>0, <2>1, <2>2 DEF SafeOnceUp
<1>4. CASE StartThreads
  <2>1. crashed' = crashed
    BY <1>4 DEF StartThreads
  <2>2. ~crashed \/ once' = once
    BY NextCases, Zenon DEF vars, userVars
  <2> QED
    BY <1>0, <2>1, <2>2 DEF SafeOnceUp
<1> QED
  BY <1>1, <1>2, <1>3, <1>4

\* A queue of handlers stays one, and a number of receives too.
LEMMA ReceiveTypeStep ==
    ASSUME IInv, [Next]_vars
    PROVE  receiving' \in Nat /\ ready' \in Seq({"ok", "err"})
<1>0. receiving \in Nat /\ ready \in Seq({"ok", "err"})
  BY DEF IInv, TypeOK
<1>1. ASSUME NEW sock, NEW queue \in Seq({"ok", "err"}), ReceiveFrom(sock, receiving, queue)
      PROVE  receiving' \in Nat /\ ready' \in Seq({"ok", "err"})
  BY <1>0, <1>1, ShortQueue DEF ReceiveFrom
<1>2. CASE InitializeComms
  <2>1. UNCHANGED <<receiving, ready, spoilt>> \/ ReceiveFrom(rsock', receiving, ready)
    BY <1>2, InitializeCases
  <2> QED
    BY <1>0, <1>1, <2>1
<1>3. CASE TerminateCommsImpl
  BY <1>0, <1>3, AbortedQueue DEF TerminateCommsImpl, CloseReceiver
<1>4. CASE Destruct
  BY <1>4 DEF Destruct
<1>5. CASE HandleReceiveFrom
  <2>1. ready # <<>> /\ ReceiveFrom(rsock, receiving, Tail(ready))
    BY <1>5 DEF HandleReceiveFrom, Take
  <2> QED
    BY <1>0, <1>1, <2>1, ShortQueue
<1>6. CASE HandleReceiveError
  BY <1>0, <1>6, ShortQueue DEF HandleReceiveError, Take
<1>7. CASE Arrives \/ ReceiveFails
  BY <1>0, <1>7, ShortQueue DEF Arrives, ReceiveFails
<1> QED
  BY <1>0, <1>2, <1>3, <1>4, <1>5, <1>6, <1>7, Frame

\* The callbacks' arguments are datagrams or 0, be they handed over or heard.
LEMMA CallbackTypeStep ==
    ASSUME IInv, [Next]_vars
    PROVE  called' \in Seq(0..MaxData) /\ heard' \in Seq(0..MaxData)
<1>0. /\ called \in Seq(0..MaxData) /\ heard \in Seq(0..MaxData) /\ buffer \in 0..MaxData
      /\ 0 \in 0..MaxData
  BY BoundAssumption DEF IInv, TypeOK
<1>1. CASE HandleReceiveFrom \/ HandleReceiveError
  <2>1. heard' = heard /\ (called' = Append(called, buffer) \/ called' = Append(called, 0))
    BY <1>1 DEF HandleReceiveFrom, HandleReceiveError
  <2>2. ASSUME NEW S, called \in Seq(S), NEW x \in S PROVE Append(called, x) \in Seq(S)
    BY <2>2, AppendProperties
  <2> QED
    BY <1>0, <2>1, <2>2, Zenon
<1>2. CASE CallbackRuns
  <2>1. PICK i \in DOMAIN called :
          heard' = Append(heard, called[i]) /\ called' = RemoveAt(called, i)
    BY <1>2 DEF CallbackRuns
  <2>2. i \in 1..Len(called) /\ called[i] \in 0..MaxData
    BY <1>0, <2>1, LenProperties, ElementOfSeq
  <2> QED
    BY <1>0, <2>1, <2>2, AppendProperties, RemoveAtProperties
<1> QED
  BY <1>0, <1>1, <1>2, Frame

\* Send stays within its attempts.
LEMMA SendTypeStep ==
    ASSUME IInv, [Next]_vars
    PROVE  /\ ssock' \in {"null", "shut", "open"}
           /\ snd' \in [at : {"idle", "open", "send"}, count : 0..MaxCount, err : BOOLEAN]
           /\ sends' \in 0..MaxSends
<1>0. /\ ssock \in {"null", "shut", "open"} /\ MaxCount \in Nat
      /\ snd \in [at : {"idle", "open", "send"}, count : 0..MaxCount, err : BOOLEAN]
      /\ sends \in 0..MaxSends /\ MaxSends \in Nat
  BY BoundAssumption DEF IInv, TypeOK
<1>1. ssock' \in {"null", "shut", "open"}
  <2>1. InitializeSender => ssock' \in {"null", "shut", "open"}
    BY InitializeSenderCases
  <2>2. TerminateCommsImpl \/ Destruct \/ SendOpen => ssock' \in {"null", "shut", "open"}
    BY <1>0 DEF TerminateCommsImpl, Closed, Destruct, SendOpen
  <2> QED
    BY <1>0, <2>1, <2>2, Frame
<1>2. snd' \in [at : {"idle", "open", "send"}, count : 0..MaxCount, err : BOOLEAN]
  <2>1. CASE SendBegin
    BY <1>0, <2>1 DEF SendBegin
  <2>2. CASE SendOpen
    <3>1. \/ snd' = [snd EXCEPT !.at = "send", !.err = FALSE]
          \/ snd' = [snd EXCEPT !.at = "send", !.err = TRUE]
          \/ snd' = [snd EXCEPT !.at = "send"]
      BY <2>2 DEF SendOpen
    <3> QED
      BY <1>0, <3>1
  <2>3. CASE SendTo
    <3>1. PICK err \in BOOLEAN :
            snd' = [at |-> IF err /\ snd.count + 1 < MaxCount THEN "open" ELSE "idle",
                    count |-> snd.count + 1, err |-> err]
      BY <2>3 DEF SendTo
    <3>2. snd.count < MaxCount
      BY <2>3 DEF SendTo, IInv, SendOrder
    <3>3. snd.count + 1 \in 0..MaxCount
      BY <1>0, <3>2
    <3> QED
      BY <3>1, <3>3
  <2> QED
    BY <1>0, <2>1, <2>2, <2>3, Frame
<1>3. sends' \in 0..MaxSends
  BY <1>0, Frame DEF SendBegin
<1> QED
  BY <1>1, <1>2, <1>3

\* The owner's steps; terms exceeds MaxTerms by the destructor's call at most.
LEMMA UserTypeStep ==
    ASSUME IInv, [Next]_vars
    PROVE  /\ user' \in {"idle", "initSend", "threads", "joinRecv", "joinSend", "close",
                         "destruct", "gone"}
           /\ state' \in {"new", "failed", "up", "down", "gone"}
           /\ once' \in BOOLEAN /\ destroying' \in BOOLEAN
           /\ inits' \in 0..MaxInits /\ terms' \in 0..(MaxTerms + 1)
<1>0. /\ user \in {"idle", "initSend", "threads", "joinRecv", "joinSend", "close", "destruct",
                   "gone"}
      /\ state \in {"new", "failed", "up", "down", "gone"}
      /\ inits \in 0..MaxInits /\ terms \in 0..(MaxTerms + 1)
      /\ MaxInits \in Nat /\ MaxTerms \in Nat /\ UserOrder
  BY BoundAssumption DEF IInv, TypeOK
<1>1. once \in BOOLEAN /\ destroying \in BOOLEAN
  BY Zenon DEF IInv, TypeOK
<1>2. once' \in BOOLEAN /\ destroying' \in BOOLEAN
  <2>1. ASSUME UserActs PROVE once' = once \/ once' = TRUE
    BY <2>1, Zenon DEF UserActs, InitializeComms, TerminateComms, InitializeSender, StartThreads,
       JoinThreads, Join, TerminateCommsImpl, Destruct
  <2>2. ASSUME UserActs
        PROVE  destroying' = destroying \/ destroying' = TRUE \/ destroying' = FALSE
    BY <2>2, Zenon DEF UserActs, InitializeComms, TerminateComms, InitializeSender, StartThreads,
       JoinThreads, Join, TerminateCommsImpl, Destruct
  <2>3. UNCHANGED <<user, state, once, destroying, inits, terms>> \/ UserActs
    BY Frame
  <2>4. (once' = once /\ destroying' = destroying) \/ UserActs
    BY <2>3
  <2> QED
    BY <1>1, <2>1, <2>2, <2>4, Zenon
<1>3. CASE InitializeComms
  BY <1>0, <1>2, <1>3, InitializeCases
<1>4. CASE InitializeSender
  BY <1>0, <1>2, <1>4, InitializeSenderCases
<1>5. CASE TerminateComms
  <2>1. /\ user = "idle" /\ user' = "joinRecv" /\ UNCHANGED <<state, inits>>
        /\ terms' = terms + 1
    BY <1>5 DEF TerminateComms
  <2>2. ~(terms > MaxTerms)
    BY <1>0, <2>1 DEF UserOrder, Terminating
  <2>3. terms' \in 0..(MaxTerms + 1)
    BY <1>0, <2>1, <2>2
  <2> QED
    BY <1>0, <1>2, <2>1, <2>3
<1>6. CASE StartThreads \/ JoinThreads \/ TerminateCommsImpl \/ Destruct
  <2>1. /\ UNCHANGED <<inits, terms>>
        /\ state' = state \/ state' \in {"up", "down", "gone"}
        /\ user' \in {"idle", "joinSend", "close", "destruct", "gone"}
    BY <1>6 DEF StartThreads, JoinThreads, Join, TerminateCommsImpl, Destruct
  <2> QED
    BY <1>0, <1>2, <2>1
<1>7. CASE UNCHANGED <<user, state, once, destroying, inits, terms>>
  BY <1>0, <1>2, <1>7
<1> QED
  BY <1>3, <1>4, <1>5, <1>6, <1>7, Frame DEF UserActs

\* The io_services and their threads.
LEMMA ThreadTypeStep ==
    ASSUME IInv, [Next]_vars
    PROVE  /\ stopped' \in [Services -> BOOLEAN]
           /\ own' \in [Services -> {"none", "run", "ended"}] /\ stray' \in [Services -> Nat]
<1>0. /\ stopped \in [Services -> BOOLEAN]
      /\ own \in [Services -> {"none", "run", "ended"}] /\ stray \in [Services -> Nat]
  BY DEF IInv, TypeOK
<1>1. CASE StartThreads
  <2>1. stopped' = stopped
    BY <1>1 DEF StartThreads
  <2>2. PICK started :
          /\ own' = [s \in Services |-> IF s \in started THEN "run" ELSE own[s]]
          /\ stray' = [s \in Services |->
                         IF s \in started /\ own[s] = "run" THEN stray[s] + 1 ELSE stray[s]]
    BY <1>1, Zenon DEF StartThreads
  <2>3. own' \in [Services -> {"none", "run", "ended"}]
    BY <1>0, <2>2
  <2>4. stray' \in [Services -> Nat]
    BY <1>0, <2>2
  <2> QED
    BY <1>0, <2>1, <2>3, <2>4
<1>2. CASE TerminateComms
  BY <1>0, <1>2 DEF TerminateComms, StopServices
<1>3. CASE JoinThreads
  BY <1>0, <1>3 DEF JoinThreads, Join
<1>4. ASSUME NEW s \in Services, ThreadEnds(s)
      PROVE  /\ stopped' \in [Services -> BOOLEAN]
             /\ own' \in [Services -> {"none", "run", "ended"}] /\ stray' \in [Services -> Nat]
  <2>1. stopped' = [stopped EXCEPT ![s] = TRUE]
    BY <1>4 DEF ThreadEnds
  <2>2. \/ own' = [own EXCEPT ![s] = "ended"] /\ stray' = stray
        \/ stray[s] > 0 /\ stray' = [stray EXCEPT ![s] = @ - 1] /\ own' = own
    BY <1>4 DEF ThreadEnds
  <2> QED
    BY <1>0, <2>1, <2>2
<1> QED
  BY <1>0, <1>1, <1>2, <1>3, <1>4, Frame

\* All variables; the Boolean ones by themselves.
LEMMA TypeStep == ASSUME IInv, [Next]_vars PROVE TypeOK'
<1>0. TypeOK /\ MaxData \in Nat
  BY BoundAssumption DEF IInv
<1>1. kind' \in Kinds /\ valid' \subseteq {"R", "S"}
  BY <1>0, Frame DEF TypeOK
<1>2. rsock' \in {"null", "shut", "open", "bound", "joined"}
  <2>1. InitializeComms => rsock' = rsock \/ rsock' \in {"null", "shut", "open", "bound", "joined"}
    BY InitializeCases
  <2>2. TerminateCommsImpl \/ Destruct => rsock' \in {"null", "shut"}
    BY DEF TerminateCommsImpl, CloseReceiver, Closed, Destruct
  <2> QED
    BY <1>0, <2>1, <2>2, Frame DEF TypeOK
<1>3. buffer' \in 0..MaxData /\ data' \in 0..MaxData
  BY <1>0, Frame DEF TypeOK, Arrives
<1>4. {once', destroying', spoilt', reopened', crashed'} \subseteq BOOLEAN
  <2>1. spoilt \in BOOLEAN /\ reopened \in BOOLEAN /\ crashed \in BOOLEAN
    BY <1>0, Zenon DEF TypeOK
  <2>2. spoilt' \in BOOLEAN
    <3>1. \A n, q : (spoilt \/ n + Len(q) > 0) \in BOOLEAN
      OBVIOUS
    <3>2. ASSUME NEW sock, NEW n, NEW q, ReceiveFrom(sock, n, q) PROVE spoilt' \in BOOLEAN
      BY <3>1, <3>2, Zenon DEF ReceiveFrom
    <3>3. InitializeComms => spoilt' = spoilt \/ ReceiveFrom(rsock', receiving, ready)
      BY InitializeCases
    <3>4. HandleReceiveFrom => ReceiveFrom(rsock, receiving, Tail(ready))
      BY DEF HandleReceiveFrom
    <3>5. TerminateCommsImpl \/ Destruct \/ HandleReceiveError \/ Arrives \/ ReceiveFails
          => spoilt' = spoilt
      BY DEF TerminateCommsImpl, Destruct, HandleReceiveError, Arrives, ReceiveFails
    <3> QED
      BY <2>1, <3>2, <3>3, <3>4, <3>5, Frame
  <2>3. reopened' \in BOOLEAN
    <3>1. StartThreads \/ TerminateCommsImpl => reopened' = FALSE
      BY DEF StartThreads, TerminateCommsImpl
    <3>2. SendOpen => reopened' \in BOOLEAN
      BY <2>1, Zenon DEF SendOpen
    <3> QED
      BY <2>1, <3>1, <3>2, Frame
  <2>4. crashed' \in BOOLEAN
    <3>1. TerminateCommsImpl \/ SendOpen => crashed' \in BOOLEAN
      BY Zenon DEF TerminateCommsImpl, SendOpen
    <3> QED
      BY <2>1, <3>1, Frame
  <2> QED
    BY <2>2, <2>3, <2>4, UserTypeStep
<1> QED
  BY <1>1, <1>2, <1>3, <1>4, ReceiveTypeStep, CallbackTypeStep, SendTypeStep, UserTypeStep,
     ThreadTypeStep
  DEF TypeOK

\* An element is in a sequence's set unless none of its places has it.
LEMMA SomeOf ==
    ASSUME NEW S, NEW q \in Seq(S), NEW d
    PROVE  /\ d \in ToSet(q) <=> ~NoneOf(q, d)
           /\ \A x \in S : ~NoneOf(q, d) \/ x = d => ~NoneOf(Append(q, x), d)
<1>1. Len(q) \in Nat /\ DOMAIN q = 1..Len(q)
  BY LenProperties
<1>2. d \in ToSet(q) <=> ~NoneOf(q, d)
  BY <1>1 DEF ToSet, NoneOf
<1>3. ASSUME NEW x \in S PROVE ~NoneOf(q, d) \/ x = d => ~NoneOf(Append(q, x), d)
  <2>1. /\ Len(Append(q, x)) = Len(q) + 1
        /\ \A i \in 1..Len(q) : i \in 1..(Len(q) + 1) /\ Append(q, x)[i] = q[i]
        /\ Append(q, x)[Len(q) + 1] = x /\ Len(q) + 1 \in 1..(Len(q) + 1)
    BY <1>1, AppendProperties
  <2> QED
    BY <1>1, <2>1 DEF NoneOf
<1> QED
  BY <1>2, <1>3

\* The loop goes on, or a callback carries the error that ended it.
LEMMA ListeningStep == ASSUME IInv, [Next]_vars PROVE Listening'
<1> DEFINE L == receiving > 0 \/ ready # <<>> \/ ~NoneOf(called, 0) \/ ~NoneOf(heard, 0)
<1>0. /\ Listening /\ UserOrder /\ Async' = Async /\ CanRecv' = CanRecv
      /\ called \in Seq(0..MaxData) /\ heard \in Seq(0..MaxData) /\ buffer \in 0..MaxData
      /\ 0 \in 0..MaxData /\ receiving \in Nat /\ ready \in Seq({"ok", "err"})
  BY FixedKind, Frame, BoundAssumption DEF IInv, TypeOK
<1>1. /\ Listens <=> (Async /\ CanRecv => L)
      /\ Listens' <=> (Async /\ CanRecv => L')
  <2>1. called' \in Seq(0..MaxData) /\ heard' \in Seq(0..MaxData)
    BY CallbackTypeStep
  <2>2. 0 \in ToSet(called) \cup ToSet(heard) <=> ~NoneOf(called, 0) \/ ~NoneOf(heard, 0)
    BY <1>0, SomeOf
  <2>3. 0 \in ToSet(called') \cup ToSet(heard') <=> ~NoneOf(called', 0) \/ ~NoneOf(heard', 0)
    BY <2>1, SomeOf
  <2>4. L' <=> receiving' > 0 \/ ready' # <<>> \/ ~NoneOf(called', 0) \/ ~NoneOf(heard', 0)
    BY DEF NoneOf
  <2> HIDE DEF L
  <2> QED
    BY <1>0, <2>2, <2>3, <2>4 DEF Listens, L
<1>2. ASSUME NEW sock, NEW queue \in Seq({"ok", "err"}), ReceiveFrom(sock, receiving, queue)
      PROVE  receiving' > 0 \/ ready' # <<>>
  BY <1>0, <1>2, ShortQueue DEF ReceiveFrom
<1>3. CASE InitializeComms
  <2>1. UNCHANGED <<called, heard, once>> /\ state # "gone"
    BY <1>0, <1>3 DEF InitializeComms, cbVars, UserOrder
  <2>2. (Async /\ CanRecv => L) /\ UNCHANGED <<receiving, ready>> => (Async /\ CanRecv => L')
    BY <2>1 DEF NoneOf
  <2>3. CASE ~CanRecv \/ ~Async
    BY <1>1, <2>3 DEF Listening
  <2>4. CASE CanRecv /\ Async
    <3>1. \/ /\ user' \notin Initializing /\ UNCHANGED <<receiving, ready>>
          \/ ReceiveFrom(rsock', receiving, ready)
      BY <1>3, <2>4, InitializeCases DEF Initializing
    <3>2. CASE user' \notin Initializing /\ UNCHANGED <<receiving, ready>>
      BY <1>0, <1>1, <2>1, <2>2, <3>2 DEF Listening
    <3>3. CASE ReceiveFrom(rsock', receiving, ready)
      BY <1>0, <1>1, <1>2, <3>3 DEF Listening
    <3> QED
      BY <3>1, <3>2, <3>3
  <2> QED
    BY <2>3, <2>4
<1>4. CASE InitializeSender \/ StartThreads
  <2>1. UNCHANGED <<called, heard, receiving, ready>> /\ user \in Initializing
    BY <1>4 DEF InitializeSender, StartThreads, cbVars, recvVars, Initializing
  <2>2. L' <=> L
    BY <2>1 DEF NoneOf
  <2>3. state # "gone"
    BY <1>0, <2>1 DEF UserOrder, Initializing
  <2> HIDE DEF L
  <2> QED
    BY <1>0, <1>1, <2>1, <2>2, <2>3 DEF Listening
<1>5. CASE TerminateComms \/ JoinThreads
  <2>1. /\ UNCHANGED <<called, heard, receiving, ready, state, once>>
        /\ user' \notin Initializing
    BY <1>5 DEF TerminateComms, JoinThreads, Join, cbVars, recvVars, Initializing
  <2>2. L' <=> L
    BY <2>1 DEF NoneOf
  <2> HIDE DEF L
  <2> QED
    BY <1>0, <1>1, <2>1, <2>2 DEF Listening
<1>6. CASE TerminateCommsImpl
  <2>1. /\ UNCHANGED <<called, heard, once>> /\ user' \notin Initializing /\ state # "gone"
        /\ ready' = ready \o [i \in 1..receiving |-> "err"]
    BY <1>0, <1>6
    DEF TerminateCommsImpl, CloseReceiver, cbVars, Initializing, UserOrder
  <2>2. ready # <<>> \/ receiving > 0 => ready' # <<>>
    BY <1>0, <2>1, AbortedQueue
  <2>3. L => L'
    BY <2>1, <2>2 DEF NoneOf
  <2> HIDE DEF L
  <2> QED
    BY <1>0, <1>1, <2>1, <2>3 DEF Listening
<1>7. CASE Destruct
  BY <1>7 DEF Destruct, Listening
<1>8. CASE ~UserActs
  <2>0. UNCHANGED <<user, state, once>>
    BY <1>8, Frame
  <2>1. CASE HandleReceiveFrom
    <3>1. ready # <<>> /\ ReceiveFrom(rsock, receiving, Tail(ready))
      BY <2>1 DEF HandleReceiveFrom, Take
    <3> QED
      BY <1>0, <1>1, <1>2, <3>1, ShortQueue DEF Listening
  <2>2. CASE HandleReceiveError
    <3>1. called' = Append(called, 0)
      BY <2>2 DEF HandleReceiveError
    <3>2. ~NoneOf(called', 0)
      BY <1>0, <3>1, SomeOf
    <3>3. L'
      BY <3>2 DEF NoneOf
    <3> QED
      BY <1>1, <3>3 DEF Listening
  <2>3. CASE CallbackRuns
    <3>1. PICK i \in DOMAIN called :
            heard' = Append(heard, called[i]) /\ called' = RemoveAt(called, i)
      BY <2>3 DEF CallbackRuns
    <3>2. i \in 1..Len(called) /\ called[i] \in 0..MaxData
      BY <1>0, <3>1, LenProperties, ElementOfSeq
    <3>3. ~NoneOf(called, 0) => called[i] = 0 \/ ~NoneOf(called', 0)
      BY <1>0, <3>1, <3>2, RemoveOne
    <3>4. ~NoneOf(heard, 0) \/ called[i] = 0 => ~NoneOf(heard', 0)
      BY <1>0, <3>1, <3>2, SomeOf
    <3>5. UNCHANGED <<receiving, ready>>
      BY <2>3 DEF CallbackRuns, recvVars
    <3>6. L => L'
      BY <3>3, <3>4, <3>5 DEF NoneOf
    <3> HIDE DEF L
    <3> QED
      BY <1>0, <1>1, <2>0, <3>6 DEF Listening
  <2>4. CASE Arrives \/ ReceiveFails
    <3>1. ready' # <<>>
      BY <1>0, <2>4, ShortQueue DEF Arrives, ReceiveFails
    <3> QED
      BY <1>1, <3>1 DEF Listening
  <2>5. CASE UNCHANGED <<receiving, ready>> /\ UNCHANGED <<called, heard>>
    <3>1. L' <=> L
      BY <2>5 DEF NoneOf
    <3> HIDE DEF L
    <3> QED
      BY <1>0, <1>1, <2>0, <3>1 DEF Listening
  <2> QED
    BY <1>8, <2>1, <2>2, <2>3, <2>4, <2>5, Frame DEF UserActs
<1> QED
  BY <1>3, <1>4, <1>5, <1>6, <1>7, <1>8 DEF UserActs

\* What one step of the callbacks does to datagram d: a handler hands over its
\* argument, and a callback that runs moves it from called to heard.
LEMMA HandOver ==
    ASSUME NEW S, called \in Seq(S), heard \in Seq(S), NEW d
    PROVE  /\ \A x \in S : called' = Append(called, x) /\ heard' = heard =>
                /\ x # d => (Handed(d) => Handed(d)') /\ (Kept(d) => Kept(d)')
                /\ x = d => (Kept(d) => Handed(d)')
           /\ \A i \in 1..Len(called) :
                called' = RemoveAt(called, i) /\ heard' = Append(heard, called[i]) =>
                  (Handed(d) => Handed(d)') /\ (Kept(d) => Kept(d)')
           /\ UNCHANGED <<called, heard>> => (Handed(d)' <=> Handed(d)) /\ (Kept(d)' <=> Kept(d))
<1>1. /\ Handed(d) <=> (OneOf(called, d) /\ NoneOf(heard, d))
                       \/ (NoneOf(called, d) /\ OneOf(heard, d))
      /\ Handed(d)' <=> (OneOf(called', d) /\ NoneOf(heard', d))
                        \/ (NoneOf(called', d) /\ OneOf(heard', d))
      /\ Kept(d) <=> NoneOf(called, d) /\ NoneOf(heard, d)
      /\ Kept(d)' <=> NoneOf(called', d) /\ NoneOf(heard', d)
  BY DEF Handed, Kept, OneOf, NoneOf
<1>2. ASSUME NEW x \in S, called' = Append(called, x), heard' = heard
      PROVE  /\ x # d => (Handed(d) => Handed(d)') /\ (Kept(d) => Kept(d)')
             /\ x = d => (Kept(d) => Handed(d)')
  <2>1. /\ NoneOf(called, d) /\ x # d => NoneOf(called', d)
        /\ NoneOf(called, d) /\ x = d => OneOf(called', d)
        /\ OneOf(called, d) /\ x # d => OneOf(called', d)
    BY <1>2, AppendOne
  <2> QED
    BY <1>1, <1>2, <2>1
<1>3. ASSUME NEW i \in 1..Len(called),
             called' = RemoveAt(called, i), heard' = Append(heard, called[i])
      PROVE  (Handed(d) => Handed(d)') /\ (Kept(d) => Kept(d)')
  <2>1. /\ NoneOf(called, d) => NoneOf(called', d) /\ called[i] # d
        /\ OneOf(called, d) /\ called[i] = d => NoneOf(called', d)
        /\ OneOf(called, d) /\ called[i] # d => OneOf(called', d)
    BY <1>3, RemoveOne
  <2>2. called[i] \in S
    BY ElementOfSeq
  <2>3. /\ NoneOf(heard, d) /\ called[i] # d => NoneOf(heard', d)
        /\ NoneOf(heard, d) /\ called[i] = d => OneOf(heard', d)
        /\ OneOf(heard, d) /\ called[i] # d => OneOf(heard', d)
    BY <1>3, <2>2, AppendOne
  <2> QED
    BY <1>1, <2>1, <2>3
<1>4. UNCHANGED <<called, heard>> => (Handed(d)' <=> Handed(d)) /\ (Kept(d)' <=> Kept(d))
  BY <1>1
<1> QED
  BY <1>2, <1>3, <1>4

\* The part of Delivered about one datagram that was received.
Item(d) ==
    \/ Handed(d) /\ (d = data => ~Due)
    \/ Kept(d) /\ d = data /\ (Due \/ state = "gone")

\* The object's end takes its receives with it.
LEMMA GoneStep ==
    ASSUME IInv, [Next]_vars
    PROVE  (state = "gone" => receiving = 0 /\ ready = <<>>)'
<1>0. UserOrder /\ (state = "gone" => receiving = 0 /\ ready = <<>>)
  BY DEF IInv, Delivered
<1>1. CASE Destruct
  BY <1>1 DEF Destruct
<1>2. CASE InitializeComms
  <2>1. state # "gone" /\ (state' = state \/ state' \in {"up", "failed"})
    BY <1>0, <1>2, InitializeCases DEF UserOrder
  <2> QED
    BY <2>1
<1>3. CASE InitializeSender
  <2>1. state # "gone" /\ (state' = state \/ state' \in {"up", "failed"})
    BY <1>0, <1>3, InitializeSenderCases DEF UserOrder
  <2> QED
    BY <2>1
<1>4. CASE StartThreads \/ TerminateCommsImpl
  BY <1>4 DEF StartThreads, TerminateCommsImpl
<1>5. CASE TerminateComms \/ JoinThreads
  BY <1>0, <1>5 DEF TerminateComms, JoinThreads, Join, recvVars
<1>6. CASE ~UserActs
  <2>1. state' = state
    BY <1>6, Frame
  <2>2. HandleReceiveFrom \/ HandleReceiveError => ready # <<>>
    BY DEF HandleReceiveFrom, HandleReceiveError, Take
  <2>3. Arrives \/ ReceiveFails => receiving > 0
    BY DEF Arrives, ReceiveFails
  <2>4. UNCHANGED <<receiving, ready>> \/ HandleReceiveFrom \/ HandleReceiveError \/ Arrives
        \/ ReceiveFails
    BY <1>6, Frame DEF UserActs
  <2> QED
    BY <1>0, <2>1, <2>2, <2>3, <2>4
<1> QED
  BY <1>1, <1>2, <1>3, <1>4, <1>5, <1>6 DEF UserActs

\* Receives that have shared the buffer are remembered.
LEMMA SpoiltStep == ASSUME IInv, [Next]_vars, spoilt PROVE spoilt'
<1>1. ASSUME NEW sock, NEW n, NEW q, ReceiveFrom(sock, n, q) PROVE spoilt'
  BY <1>1, Zenon DEF ReceiveFrom
<1>2. InitializeComms => spoilt' = spoilt \/ ReceiveFrom(rsock', receiving, ready)
  BY InitializeCases
<1>3. HandleReceiveFrom => ReceiveFrom(rsock, receiving, Tail(ready))
  BY DEF HandleReceiveFrom
<1>4. TerminateCommsImpl \/ Destruct \/ HandleReceiveError \/ Arrives \/ ReceiveFails
      => spoilt' = spoilt
  BY DEF TerminateCommsImpl, Destruct, HandleReceiveError, Arrives, ReceiveFails
<1>5. spoilt' = spoilt \/ InitializeComms \/ HandleReceiveFrom
  BY <1>4, Frame
<1> QED
  BY <1>1, <1>2, <1>3, <1>5, Zenon

\* The handler copies the buffer before the next receive can overwrite it.
LEMMA DeliveredStep == ASSUME IInv, [Next]_vars PROVE Delivered'
<1> DEFINE OneAtATime == receiving + Len(ready) <= 1
           Future == \A d \in 1..MaxData : d > data => Kept(d)
           Past == \A d \in 1..data : Item(d)
<1>1. SUFFICES ASSUME ~spoilt' PROVE OneAtATime' /\ buffer' = data' /\ Future' /\ Past'
  BY GoneStep DEF Delivered, Item
<1>2. ~spoilt
  BY <1>1, SpoiltStep
<1>3. OneAtATime /\ buffer = data /\ Future /\ Past
  BY <1>2 DEF IInv, Delivered, Item
<1>4. /\ UserOrder /\ (state = "gone" => receiving = 0 /\ ready = <<>>)
      /\ called \in Seq(0..MaxData) /\ heard \in Seq(0..MaxData)
      /\ receiving \in Nat /\ ready \in Seq({"ok", "err"})
      /\ data \in 0..MaxData /\ MaxData \in Nat
  BY BoundAssumption DEF IInv, TypeOK, Delivered
<1>5. Len(ready) \in Nat /\ (Len(ready) = 0 <=> ready = <<>>)
  BY <1>4, ShortQueue
<1>6. ASSUME UNCHANGED <<called, heard, buffer, data>>
      PROVE  /\ buffer' = data' /\ Future'
             /\ \A d \in 1..data : (Handed(d)' <=> Handed(d)) /\ (Kept(d)' <=> Kept(d))
  BY <1>3, <1>4, <1>6, HandOver
<1>7. ASSUME UNCHANGED <<called, heard, buffer, data>>, Due' <=> Due,
             state = "gone" => state' = "gone"
      PROVE  buffer' = data' /\ Future' /\ Past'
  BY <1>3, <1>6, <1>7 DEF Item
<1>8. ASSUME NEW sock, NEW q \in Seq({"ok", "err"}), ReceiveFrom(sock, receiving, q)
      PROVE  q = <<>> /\ receiving = 0 /\ OneAtATime' /\ ~Due'
  <2>1. ~(receiving + Len(q) > 0)
    BY <1>1, <1>8, Zenon DEF ReceiveFrom
  <2>2. Len(q) \in Nat /\ (Len(q) = 0 <=> q = <<>>)
    BY ShortQueue
  <2>3. q = <<>> /\ receiving = 0
    BY <1>4, <2>1, <2>2
  <2>4. \/ receiving' = 0 /\ ready' = Append(<<>>, "err")
        \/ receiving' = 1 /\ ready' = <<>>
    BY <1>8, <2>3 DEF ReceiveFrom
  <2>5. Len(<<>>) = 0 /\ Len(Append(<<>>, "err")) = 1 /\ Head(Append(<<>>, "err")) = "err"
    OBVIOUS
  <2>6. CASE receiving' = 0 /\ ready' = Append(<<>>, "err")
    <3>1. Len(ready') = 1 /\ Head(ready') = "err"
      BY <2>5, <2>6
    <3> QED
      BY <2>3, <2>6, <3>1 DEF Due
  <2>7. CASE receiving' = 1 /\ ready' = <<>>
    <3>1. Len(ready') = 0
      BY <2>5, <2>7
    <3> QED
      BY <2>3, <2>7, <3>1 DEF Due
  <2> QED
    BY <2>4, <2>6, <2>7
<1> HIDE DEF OneAtATime, Future, Past
<1>9. CASE InitializeComms
  <2>1. /\ UNCHANGED <<called, heard, buffer, data>> /\ state # "gone"
    BY <1>4, <1>9 DEF InitializeComms, cbVars, UserOrder
  <2>2. UNCHANGED <<receiving, ready>> \/ ReceiveFrom(rsock', receiving, ready)
    BY <1>9, InitializeCases
  <2>3. CASE UNCHANGED <<receiving, ready>>
    BY <1>3, <1>7, <2>1, <2>3 DEF Due, OneAtATime
  <2>4. CASE ReceiveFrom(rsock', receiving, ready)
    <3>1. ready = <<>> /\ OneAtATime' /\ ~Due'
      BY <1>4, <1>8, <2>4
    <3> QED
      BY <1>7, <2>1, <3>1 DEF Due
  <2> QED
    BY <2>2, <2>3, <2>4
<1>10. CASE InitializeSender \/ StartThreads \/ TerminateComms \/ JoinThreads
  <2>1. /\ UNCHANGED <<called, heard, buffer, data, receiving, ready>>
    BY <1>10 DEF InitializeSender, StartThreads, TerminateComms, JoinThreads, Join, cbVars, recvVars
  <2>2. state = "gone" => state' = "gone"
    BY <1>4, <1>10 DEF InitializeSender, StartThreads, TerminateComms, JoinThreads, Join, UserOrder
  <2> QED
    BY <1>3, <1>7, <2>1, <2>2 DEF Due, OneAtATime
<1>11. CASE TerminateCommsImpl
  <2>1. /\ UNCHANGED <<called, heard, buffer, data>> /\ state # "gone"
        /\ receiving' = 0 /\ ready' = ready \o [i \in 1..receiving |-> "err"]
    BY <1>4, <1>11 DEF TerminateCommsImpl, CloseReceiver, cbVars, UserOrder
  <2>2. /\ Len(ready') = Len(ready) + receiving
        /\ receiving = 0 => ready' = ready
        /\ ready # <<>> => ready' # <<>> /\ Head(ready') = Head(ready)
        /\ ready = <<>> /\ receiving > 0 => Head(ready') = "err"
    BY <1>4, <2>1, AbortedQueue
  <2>3. Due' <=> Due
    BY <1>4, <2>2 DEF Due
  <2>4. OneAtATime'
    BY <1>3, <1>4, <1>5, <2>1, <2>2 DEF OneAtATime
  <2> QED
    BY <1>7, <2>1, <2>3, <2>4
<1>12. CASE Destruct
  <2>1. /\ UNCHANGED <<called, heard, buffer, data>> /\ state' = "gone"
        /\ receiving' = 0 /\ ready' = <<>>
    BY <1>12 DEF Destruct, cbVars
  <2>2. OneAtATime' /\ ~Due'
    BY <2>1, EmptySeq DEF Due, OneAtATime
  <2>3. Past'
    BY <1>3, <1>6, <2>1, <2>2 DEF Past, Item
  <2> QED
    BY <1>6, <2>1, <2>2, <2>3
<1>13. CASE HandleReceiveFrom
  <2>1. /\ called' = Append(called, data) /\ heard' = heard /\ UNCHANGED <<buffer, data, state>>
        /\ ready # <<>> /\ Head(ready) = "ok" /\ ReceiveFrom(rsock, receiving, Tail(ready))
    BY <1>3, <1>13 DEF HandleReceiveFrom, Take, userVars
  <2>2. OneAtATime' /\ ~Due'
    BY <1>4, <1>8, <2>1, ShortQueue
  <2>3. Due /\ state # "gone"
    BY <1>4, <2>1 DEF Due
  <2>4. \A d : /\ data # d => (Handed(d) => Handed(d)') /\ (Kept(d) => Kept(d)')
               /\ data = d => (Kept(d) => Handed(d)')
    BY <1>4, <2>1, HandOver
  <2>5. Future'
    BY <1>3, <1>4, <2>1, <2>4 DEF Future
  <2>6. Past'
    <3>1. \A d \in 1..data : Handed(d)'
      BY <1>3, <2>3, <2>4 DEF Past, Item
    <3> QED
      BY <2>1, <2>2, <3>1 DEF Past, Item
  <2> QED
    BY <1>3, <2>1, <2>2, <2>5, <2>6
<1>14. CASE HandleReceiveError
  <2>1. /\ called' = Append(called, 0) /\ heard' = heard /\ UNCHANGED <<buffer, data, state>>
        /\ ready # <<>> /\ Head(ready) = "err" /\ receiving' = receiving /\ ready' = Tail(ready)
    BY <1>14 DEF HandleReceiveError, Take, userVars
  <2>2. Len(ready') = Len(ready) - 1
    BY <1>4, <2>1, ShortQueue
  <2>3. OneAtATime'
    BY <1>3, <1>4, <1>5, <2>1, <2>2 DEF OneAtATime
  <2>4. ~Due /\ ~Due'
    <3>1. Len(ready') = 0
      BY <1>3, <1>4, <1>5, <2>1, <2>2 DEF OneAtATime
    <3>2. Tail(ready) \in Seq({"ok", "err"}) /\ Len(Tail(ready)) = 0
      BY <1>4, <2>1, <3>1, ShortQueue
    <3>3. Tail(ready) = <<>>
      BY <3>2, ShortQueue
    <3> QED
      BY <2>1, <3>3 DEF Due
  <2>5. \A d : d # 0 => (Handed(d) => Handed(d)') /\ (Kept(d) => Kept(d)')
    <3>1. 0 \in 0..MaxData
      BY <1>4
    <3> QED
      BY <1>4, <2>1, <3>1, HandOver
  <2>6. Future' /\ Past'
    BY <1>3, <1>4, <2>1, <2>4, <2>5 DEF Future, Past, Item
  <2> QED
    BY <1>3, <2>1, <2>3, <2>6
<1>15. CASE CallbackRuns
  <2>1. PICK i \in DOMAIN called :
          heard' = Append(heard, called[i]) /\ called' = RemoveAt(called, i)
    BY <1>15 DEF CallbackRuns
  <2>2. i \in 1..Len(called)
    BY <1>4, <2>1, LenProperties
  <2>3. UNCHANGED <<receiving, ready, buffer, data, state>>
    BY <1>15 DEF CallbackRuns, recvVars, userVars
  <2>4. \A d : (Handed(d) => Handed(d)') /\ (Kept(d) => Kept(d)')
    BY <1>4, <2>1, <2>2, HandOver
  <2>5. Due' <=> Due
    BY <2>3 DEF Due
  <2> QED
    BY <1>3, <2>3, <2>4, <2>5 DEF Future, Past, OneAtATime, Item
<1>16. CASE Arrives
  <2>1. /\ receiving > 0 /\ data < MaxData /\ data' = data + 1 /\ buffer' = data + 1
        /\ receiving' = receiving - 1 /\ ready' = Append(ready, "ok")
        /\ UNCHANGED <<called, heard, state>>
    BY <1>16 DEF Arrives, cbVars, userVars
  <2>2. receiving = 1 /\ ready = <<>> /\ state # "gone"
    BY <1>3, <1>4, <1>5, <2>1 DEF OneAtATime
  <2>3. receiving' = 0 /\ Len(ready') = 1 /\ Due'
    <3>1. /\ Len(Append(<<>>, "ok")) = 1 /\ Head(Append(<<>>, "ok")) = "ok"
          /\ Append(<<>>, "ok") # <<>>
      OBVIOUS
    <3> QED
      BY <2>1, <2>2, <3>1 DEF Due
  <2>4. OneAtATime'
    BY <2>3 DEF OneAtATime
  <2>5. \A d : (Handed(d)' <=> Handed(d)) /\ (Kept(d)' <=> Kept(d))
    BY <1>4, <2>1, HandOver
  <2>6. Future'
    BY <1>3, <1>4, <2>1, <2>5 DEF Future
  <2>7. Past'
    <3>1. \A d \in 1..data : Handed(d) /\ d # data + 1
      BY <1>3, <1>4, <2>2 DEF Past, Item, Due
    <3>2. Kept(data + 1)
      BY <1>3, <1>4, <2>1 DEF Future
    <3>3. \A d \in 1..data' : d \in 1..data \/ d = data + 1
      BY <1>4, <2>1
    <3> QED
      BY <2>1, <2>3, <2>5, <3>1, <3>2, <3>3 DEF Past, Item
  <2> QED
    BY <2>1, <2>4, <2>6, <2>7
<1>17. CASE ReceiveFails
  <2>1. /\ receiving > 0 /\ receiving' = receiving - 1 /\ ready' = Append(ready, "err")
        /\ UNCHANGED <<called, heard, buffer, data, state>>
    BY <1>17 DEF ReceiveFails, cbVars, userVars
  <2>2. receiving = 1 /\ ready = <<>>
    BY <1>3, <1>4, <1>5, <2>1 DEF OneAtATime
  <2>3. receiving' = 0 /\ Len(ready') = 1 /\ ~Due'
    <3>1. Len(Append(<<>>, "err")) = 1 /\ Head(Append(<<>>, "err")) = "err"
      OBVIOUS
    <3> QED
      BY <2>1, <2>2, <3>1 DEF Due
  <2>4. ~Due
    BY <2>2 DEF Due
  <2> QED
    BY <1>7, <2>1, <2>3, <2>4 DEF OneAtATime
<1>18. CASE /\ ~UserActs /\ UNCHANGED <<receiving, ready>> /\ UNCHANGED <<called, heard>>
            /\ UNCHANGED <<buffer, data>>
  <2>1. state' = state
    BY <1>18, Frame
  <2> QED
    BY <1>3, <1>7, <1>18, <2>1 DEF Due, OneAtATime
<1> QED
  BY <1>9, <1>10, <1>11, <1>12, <1>13, <1>14, <1>15, <1>16, <1>17, <1>18, Frame DEF UserActs

-----------------------------------------------------------------------------
(* The inductive invariant *)

LEMMA InitInv == Init => IInv
<1> SUFFICES ASSUME Init PROVE IInv
  OBVIOUS
<1>1. TypeOK
  <2>1. /\ 0 \in 0..MaxData /\ 0 \in 0..MaxCount /\ 0 \in 0..MaxInits /\ 0 \in 0..(MaxTerms + 1)
        /\ 0 \in 0..MaxSends
    BY BoundAssumption
  <2>2. /\ <<>> \in Seq({"ok", "err"}) /\ <<>> \in Seq(0..MaxData)
    BY EmptySeq
  <2> QED
    BY <2>1, <2>2 DEF Init, TypeOK
<1>2. Released /\ SafeOnceUp /\ UserOrder /\ SendOrder /\ Listening /\ SocketsThere /\ Joined
  BY BoundAssumption
  DEF Init, Released, SafeOnceUp, UserOrder, SendOrder, Listening, SocketsThere, Joined,
      Terminating, Initializing
<1>3. ServiceOrder
  BY DEF Init, ServiceOrder
<1>4. Delivered
  <2>1. called = <<>> /\ heard = <<>> /\ ready = <<>> /\ receiving = 0 /\ data = 0 /\ buffer = 0
        /\ state = "new"
    BY DEF Init
  <2>2. Len(<<>>) = 0
    OBVIOUS
  <2>3. \A d : Kept(d)
    BY <2>1, <2>2 DEF Kept, NoneOf
  <2> QED
    BY <2>1, <2>2, <2>3 DEF Delivered
<1> QED
  BY <1>1, <1>2, <1>3, <1>4 DEF IInv

LEMMA StepInv == IInv /\ [Next]_vars => IInv'
BY TypeStep, ReleasedStep, SafeStep, UserOrderStep, SendOrderStep, ServiceOrderStep,
   ListeningStep, SocketsThereStep, JoinedStep, DeliveredStep
DEF IInv

-----------------------------------------------------------------------------
(* What it implies *)

\* The wiring, the threads and the loop together are what serves the object.
LEMMA ServedFromInv == IInv => Served
<1> SUFFICES ASSUME IInv, state = "up", user = "idle", terms = 0
             PROVE  OwnAddresses /\ OwnThreads /\ Listens
  BY DEF Served
<1>1. once
  BY DEF IInv, UserOrder
<1>2. OwnAddresses
  BY Wiring DEF IInv, TypeOK
<1>3. Listens
  BY <1>1 DEF IInv, Listening
<1>4. OwnThreads
  BY <1>1 DEF IInv, ServiceOrder, OwnThreads
<1> QED
  BY <1>2, <1>3, <1>4

\* A datagram handed over has one place among the callbacks, and one that was not has none.
LEMMA Places ==
    ASSUME NEW S, called \in Seq(S), heard \in Seq(S), NEW d
    PROVE  LET all == called \o heard
               handed == {i \in DOMAIN all : all[i] = d}
           IN  /\ Handed(d) => \E i \in handed : handed = {i}
               /\ Kept(d) => handed = {}
<1> DEFINE all == called \o heard
           handed == {i \in DOMAIN all : all[i] = d}
           m == Len(called)
           n == Len(heard)
<1>1. m \in Nat /\ n \in Nat
  BY LenProperties
<1>2. /\ all \in Seq(S) /\ Len(all) = m + n
      /\ \A i \in 1..(m + n) : all[i] = IF i <= m THEN called[i] ELSE heard[i - m]
  BY ConcatProperties
<1>3. DOMAIN all = 1..(m + n)
  BY <1>2, LenProperties
<1> HIDE DEF all, m, n
<1>4. /\ \A i \in 1..m : i \in DOMAIN all /\ all[i] = called[i]
      /\ \A i \in 1..n : m + i \in DOMAIN all /\ all[m + i] = heard[i]
      /\ \A k \in DOMAIN all : k \in 1..m \/ (k - m \in 1..n /\ k = m + (k - m))
  <2>1. ASSUME NEW i \in 1..m PROVE i \in DOMAIN all /\ all[i] = called[i]
    BY <1>1, <1>2, <1>3
  <2>2. ASSUME NEW i \in 1..n PROVE m + i \in DOMAIN all /\ all[m + i] = heard[i]
    <3>1. m + i \in 1..(m + n) /\ ~(m + i <= m) /\ (m + i) - m = i
      BY <1>1
    <3> QED
      BY <1>2, <1>3, <3>1
  <2>3. ASSUME NEW k \in DOMAIN all PROVE k \in 1..m \/ (k - m \in 1..n /\ k = m + (k - m))
    BY <1>1, <1>3
  <2> QED
    BY <2>1, <2>2, <2>3
<1>5. ASSUME NoneOf(called, d) PROVE \A k \in handed : k - m \in 1..n /\ heard[k - m] = d
                                                       /\ k = m + (k - m)
  BY <1>4, <1>5 DEF NoneOf, m
<1>6. ASSUME NoneOf(heard, d) PROVE \A k \in handed : k \in 1..m /\ called[k] = d
  BY <1>4, <1>6 DEF NoneOf, n
<1>7. Kept(d) => handed = {}
  BY <1>6 DEF Kept, NoneOf, m
<1>8. CASE OneOf(called, d) /\ NoneOf(heard, d)
  <2>1. PICK i \in 1..m : called[i] = d /\ \A j \in 1..m : called[j] = d => j = i
    BY <1>8 DEF OneOf, m
  <2>2. i \in handed /\ \A k \in handed : k = i
    BY <1>4, <1>6, <1>8, <2>1
  <2> QED
    BY <1>7, <2>2 DEF all
<1>9. CASE NoneOf(called, d) /\ OneOf(heard, d)
  <2>1. PICK i \in 1..n : heard[i] = d /\ \A j \in 1..n : heard[j] = d => j = i
    BY <1>9 DEF OneOf, n
  <2>2. m + i \in handed /\ \A k \in handed : k = m + i
    BY <1>4, <1>5, <1>9, <2>1
  <2> QED
    BY <1>7, <2>2 DEF all
<1> QED
  BY <1>7, <1>8, <1>9 DEF Handed, all

\* Delivered says it of two sequences, Faithful of their concatenation.
LEMMA FaithfulFromInv == IInv => Faithful
<1> SUFFICES ASSUME IInv, ~spoilt, NEW d \in 1..data
             PROVE  LET all == called \o heard
                        handed == {i \in DOMAIN all : all[i] = d}
                    IN  \/ \E i \in handed : handed = {i}
                        \/ handed = {} /\ d = data /\ (ready # <<>> \/ state = "gone")
  BY DEF Faithful
<1>1. \/ Handed(d)
      \/ Kept(d) /\ d = data /\ (ready # <<>> \/ state = "gone")
  BY DEF IInv, Delivered, Due
<1>2. called \in Seq(0..MaxData) /\ heard \in Seq(0..MaxData)
  BY DEF IInv, TypeOK
<1> QED
  BY <1>1, <1>2, Places

-----------------------------------------------------------------------------
(* Theorems *)

\* What holds of the wiring, the io_services, the sockets and the receive loop
\* together is kept by every step.
THEOREM Inductive == Spec => []IInv
<1>1. Init => IInv
  BY InitInv
<1>2. IInv /\ [Next]_vars => IInv'
  BY StepInv
<1> QED
  BY <1>1, <1>2, PTL DEF Spec

\* Every variable keeps its type, whatever the bounds.
THEOREM TypeCorrect == Spec => []TypeOK
<1>1. IInv => TypeOK
  BY DEF IInv
<1> QED
  BY <1>1, Inductive, PTL

\* Whichever constructor was used, an object whose InitializeComms returned TRUE has,
\* until the first TerminateComms, a running thread for every io_service that has
\* work, the addresses it was given (but for the one class and constructor that
\* OwnAddresses names), and listens until a receive fails.
THEOREM AlwaysServed == Spec => []Served
<1>1. IInv => Served
  BY ServedFromInv
<1> QED
  BY <1>1, Inductive, PTL

\* While one receive at a time uses m_strRecvBuffer, every datagram is the argument
\* of exactly one callback, or waits in the buffer for its handler.
THEOREM DeliveredOnce == Spec => []Faithful
<1>1. IInv => Faithful
  BY FaithfulFromInv
<1> QED
  BY <1>1, Inductive, PTL

\* Neither TerminateComms, the destructor nor Send uses a null socket of an object
\* that was initialised once.
THEOREM SafeOnceInitialized == Spec => []SafeOnceUp
<1>1. IInv => SafeOnceUp
  BY DEF IInv
<1> QED
  BY <1>1, Inductive, PTL

\* When TerminateComms has returned its threads have been joined and the sockets are
\* closed, but for the asynchronous sender's and one that a Send opened again.
THEOREM ReleasedWhenDown == Spec => []Released
<1>1. IInv => Released
  BY DEF IInv
<1> QED
  BY <1>1, Inductive, PTL
=============================================================================
