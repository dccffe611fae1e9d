------------------------ MODULE ConnectionlessComms ------------------------
(***************************************************************************)
(* The life of a C(A)Sync{UDP,Multicast}Comms object: how its constructors *)
(* wire a receiver and a sender to the two io_services, InitializeComms,   *)
(* TerminateComms and the destructor (ConnectionlessComms.h over           *)
(* ConnectionlessCommsImpl.h), the set-up of the four kinds of receiver    *)
(* and of the sender, the asynchronous receive loop with its callback      *)
(* threads (AsyncConnectionlessReceiver.cpp) and the blocking Send         *)
(* (SyncConnectionlessSender.cpp).                                         *)
(*                                                                         *)
(* Receive of a synchronous object is module SyncReceiver, Send of an      *)
(* asynchronous one AsyncSender.  A datagram is its number; an address is  *)
(* "R" or "S", the one the user gave for receiving or for sending, "R" if  *)
(* it is one for both.  One thread initialises, terminates and destroys,   *)
(* another calls Send, and neither initialises nor destroys while a Send   *)
(* is in progress.                                                         *)
(***************************************************************************)
EXTENDS Naturals, Sequences, SequencesExt

CONSTANTS
    None,                \* no receiver, or no sender
    MaxInits, MaxTerms,  \* bounds: calls of InitializeComms and of TerminateComms
    MaxSends, MaxCount,  \* bounds: calls of Send; its p_iMaxSendCount
    MaxData              \* bound: datagrams received

ASSUME BoundAssumption ==
    /\ {MaxInits, MaxTerms, MaxSends, MaxData} \subseteq Nat
    /\ MaxCount \in Nat \ {0}

Services == {"recv", "send"}   \* m_bstIOServiceRecv, m_bstIOServiceSend

ASSUME NoneAssumption == None \notin [svc : Services, addr : {"R", "S"}]

\* The classes and their constructors: to receive, to send, to do both, and, of the
\* asynchronous classes, to do both with the "same" address.
Kinds ==
    [cast : {"udp", "multicast"}, mode : {"async", "sync"}, use : {"recv", "send", "both"}]
      \cup [cast : {"udp", "multicast"}, mode : {"async"}, use : {"same"}]

VARIABLES
    kind,      \* the class and the constructor
    valid,     \* the user's addresses that parse
    user,      \* the owning thread's next step
    state,     \* "up" once InitializeComms returned TRUE, "down" after TerminateComms
    once,      \* history: InitializeComms has returned TRUE
    destroying, \* TerminateComms was called by the destructor
    stopped,   \* the io_services: stopped, and never reset
    own,       \* their threads, m_bstThreadRecv and m_bstThreadSend
    stray,     \* threads that a second InitializeComms detached while they ran
    rsock,     \* the receiver's socket: "shut" is created or closed, not open
    ssock,     \* the sender's socket
    receiving, \* number of async_receive_from outstanding
    ready,     \* their handlers, queued in the io_service
    buffer,    \* m_strRecvBuffer: the datagram received last
    called,    \* callback threads that have not run the callback yet: their argument
    heard,     \* what the user's callback was called with, 0 for an error
    spoilt,    \* history: two receives have shared the buffer
    snd,       \* Send: its next step, its attempts, its p_bstError
    reopened,  \* history: a Send has opened the socket of an object that is not up
    inits, terms, sends, data,  \* calls made, datagrams received
    crashed    \* a null socket was used

fixedVars == <<kind, valid>>
userVars  == <<user, state, once, destroying, inits, terms>>
svcVars   == <<stopped, own, stray>>
recvVars  == <<rsock, receiving, ready, buffer, spoilt, data>>
cbVars    == <<called, heard>>
sendVars  == <<ssock, snd, reopened, sends>>
vars == <<fixedVars, userVars, svcVars, recvVars, cbVars, sendVars, crashed>>

-----------------------------------------------------------------------------
(* The constructors: which io_service and which address each end gets.     *)

End(svc, addr) == [svc |-> svc, addr |-> addr]

\* The constructors of the Impl classes for one direction.
Receives(svc, addr) == [recv |-> End(svc, addr), send |-> None]
Sends(svc, addr)    == [recv |-> None, send |-> End(svc, addr)]

AsyncUDPCommsImpl(svcRecv, svcSend, portRecv, addrSend) ==
    [send |-> End(svcSend, addrSend), recv |-> End(svcRecv, portRecv)]

AsyncMulticastCommsImpl(svcRecv, svcSend, addrRecv, addrSend) ==
    [send |-> End(svcSend, addrSend), recv |-> End(svcRecv, addrRecv)]

\* The synchronous classes declare the sender's io_service first, ...
SyncUDPCommsImpl(svcSend, svcRecv, portRecv, addrSend) ==
    [send |-> End(svcSend, addrSend), recv |-> End(svcRecv, portRecv)]

\* ... and for multicast the sender's address, too.
SyncMulticastCommsImpl(svcSend, svcRecv, addrSend, addrRecv) ==
    [send |-> End(svcSend, addrSend), recv |-> End(svcRecv, addrRecv)]

\* Mutant: the receiver of an object that only receives gets the sender's io_service.
AsyncUDPComms_SendService(use) ==
    CASE use = "recv" -> Receives("send", "R")
      [] use = "send" -> Sends("send", "S")
      [] use = "both" -> AsyncUDPCommsImpl("recv", "send", "R", "S")
      [] use = "same" -> AsyncUDPCommsImpl("recv", "send", "R", "R")

AsyncUDPComms(use) ==
    CASE use = "recv" -> Receives("recv", "R")
      [] use = "send" -> Sends("send", "S")
      [] use = "both" -> AsyncUDPCommsImpl("recv", "send", "R", "S")
      [] use = "same" -> AsyncUDPCommsImpl("recv", "send", "R", "R")

AsyncMulticastComms(use) ==
    CASE use = "recv" -> Receives("recv", "R")
      [] use = "send" -> Sends("send", "S")
      [] use = "both" -> AsyncMulticastCommsImpl("recv", "send", "R", "S")
      [] use = "same" -> AsyncMulticastCommsImpl("recv", "send", "R", "R")

SyncUDPComms(use) ==
    CASE use = "recv" -> Receives("recv", "R")
      [] use = "send" -> Sends("send", "S")
      [] use = "both" -> SyncUDPCommsImpl("recv", "send", "R", "S")

SyncMulticastComms(use) ==
    CASE use = "recv" -> Receives("recv", "R")
      [] use = "send" -> Sends("send", "S")
      [] use = "both" -> SyncMulticastCommsImpl("recv", "send", "R", "S")

Comms ==
    CASE kind.cast = "udp" /\ kind.mode = "async" -> AsyncUDPComms(kind.use)
      [] kind.cast = "udp" /\ kind.mode = "sync" -> SyncUDPComms(kind.use)
      [] kind.cast = "multicast" /\ kind.mode = "async" -> AsyncMulticastComms(kind.use)
      [] kind.cast = "multicast" /\ kind.mode = "sync" -> SyncMulticastComms(kind.use)

CanRecv == Comms.recv # None
CanSend == Comms.send # None
Async == kind.mode = "async"

\* An io_service that an end keeps busy: every end but the synchronous sender has a work object.
HasWork(s) ==
    \/ CanRecv /\ Comms.recv.svc = s
    \/ CanSend /\ Comms.send.svc = s /\ Async

-----------------------------------------------------------------------------
(* Setting up the sockets: what the socket may be afterwards, and whether  *)
(* InitializeReceiver or InitializeSender returned TRUE.                   *)

Outcome(sock, ok) == [sock |-> sock, ok |-> ok]

\* Created, opened and bound by one constructor that may throw; a socket that
\* exists, be it closed, is left as it is.
AsyncUDPReceiver(s) ==
    IF s = "null" THEN {Outcome("null", FALSE), Outcome("bound", TRUE)} ELSE {Outcome(s, TRUE)}

\* The new socket is bound before it replaces the old one, which may hold the port.
SyncUDPReceiver(s) ==
    {Outcome(s, FALSE)} \cup IF s = "bound" THEN {} ELSE {Outcome("bound", TRUE)}

\* reuse_address, enable_loopback, bind, join_group: a socket is bound once.
JoinGroup(s) ==
    {Outcome(s, FALSE)}
      \cup IF s = "open" THEN {Outcome("bound", FALSE), Outcome("joined", TRUE)} ELSE {}

\* open() of a socket that is not open may fail.
OpenAndJoin == {Outcome("shut", FALSE)} \cup JoinGroup("open")
NotOpen == {"null", "shut"}

AsyncMulticastReceiver(s, parses) ==
    IF ~parses THEN {Outcome(s, FALSE)}
    ELSE IF s \in NotOpen THEN OpenAndJoin ELSE JoinGroup(s)

\* open() is called whatever the socket's state, and fails on one that is open.
SyncMulticastReceiver(s, parses) ==
    IF parses /\ s \in NotOpen THEN OpenAndJoin ELSE {Outcome(s, FALSE)}

ReceiverSetups ==
    LET parses == Comms.recv.addr \in valid
    IN  CASE kind.cast = "udp" /\ Async -> AsyncUDPReceiver(rsock)
          [] kind.cast = "udp" /\ ~Async -> SyncUDPReceiver(rsock)
          [] kind.cast = "multicast" /\ Async -> AsyncMulticastReceiver(rsock, parses)
          [] kind.cast = "multicast" /\ ~Async -> SyncMulticastReceiver(rsock, parses)

\* Mutant: an address that does not parse is not reported.
SenderSetups_Ignored ==
    IF Comms.send.addr \in valid THEN {Outcome(ssock, FALSE), Outcome("open", TRUE)}
    ELSE {Outcome(ssock, TRUE)}

\* The address is parsed and a new, open socket replaces the old one.
SenderSetups ==
    {Outcome(ssock, FALSE)}
      \cup IF Comms.send.addr \in valid THEN {Outcome("open", TRUE)} ELSE {}

-----------------------------------------------------------------------------

Init ==
    /\ kind \in Kinds /\ valid \in SUBSET {"R", "S"}
    /\ user = "idle" /\ state = "new" /\ once = FALSE /\ destroying = FALSE
    /\ stopped = [s \in Services |-> FALSE]
    /\ own = [s \in Services |-> "none"] /\ stray = [s \in Services |-> 0]
    /\ rsock = "null" /\ ssock = "null"
    /\ receiving = 0 /\ ready = <<>> /\ buffer = 0
    /\ called = <<>> /\ heard = <<>> /\ spoilt = FALSE
    /\ snd = [at |-> "idle", count |-> 0, err |-> FALSE] /\ reopened = FALSE
    /\ inits = 0 /\ terms = 0 /\ sends = 0 /\ data = 0
    /\ crashed = FALSE

\* async_receive_from on `sock`, with the handlers in `queue` and n receives outstanding.
ReceiveFrom(sock, n, queue) ==
    /\ receiving' = IF sock = "shut" THEN n ELSE n + 1
    /\ ready' = IF sock = "shut" THEN Append(queue, "err") ELSE queue
    /\ spoilt' = (spoilt \/ n + Len(queue) > 0)

-----------------------------------------------------------------------------
(* InitializeComms *)

\* It returns FALSE; what is up already stays so.
Fails == user' = "idle" /\ state' = IF state = "up" THEN "up" ELSE "failed"

InitializeReceiver ==
    /\ CanRecv
    /\ \E o \in ReceiverSetups :
         /\ rsock' = o.sock
         /\ IF o.ok THEN /\ user' = IF CanSend THEN "initSend" ELSE "threads"
                         /\ UNCHANGED state
                    ELSE Fails
         /\ IF o.ok /\ Async THEN ReceiveFrom(o.sock, receiving, ready)
                             ELSE UNCHANGED <<receiving, ready, spoilt>>

InitializeComms ==
    /\ user = "idle" /\ inits < MaxInits /\ snd.at = "idle"
    /\ inits' = inits + 1
    /\ IF CanRecv THEN InitializeReceiver
       ELSE user' = "initSend" /\ UNCHANGED <<state, rsock, receiving, ready, spoilt>>
    /\ UNCHANGED <<fixedVars, once, destroying, terms, svcVars, buffer, data, cbVars,
                   sendVars, crashed>>

InitializeSender ==
    /\ user = "initSend"
    /\ \E o \in SenderSetups :
         /\ ssock' = o.sock
         /\ IF o.ok THEN user' = "threads" /\ UNCHANGED state ELSE Fails
    /\ UNCHANGED <<fixedVars, once, destroying, inits, terms, svcVars, recvVars, cbVars,
                   snd, reopened, sends, crashed>>

\* Both threads for an object that can send, the receiver's for one that cannot;
\* a thread that is replaced while it runs is detached.
StartThreads ==
    /\ user = "threads"
    /\ LET started == {"recv"} \cup IF CanSend THEN {"send"} ELSE {}
       IN  /\ own' = [s \in Services |-> IF s \in started THEN "run" ELSE own[s]]
           /\ stray' = [s \in Services |->
                          IF s \in started /\ own[s] = "run" THEN stray[s] + 1 ELSE stray[s]]
    /\ user' = "idle" /\ state' = "up" /\ once' = TRUE /\ reopened' = FALSE
    /\ UNCHANGED <<fixedVars, destroying, inits, terms, stopped, recvVars, cbVars,
                   ssock, snd, sends, crashed>>

-----------------------------------------------------------------------------
(* TerminateComms and the destructor *)

\* Mutant: only the receiver's io_service is stopped.
StopServices_Recv == stopped' = [stopped EXCEPT !["recv"] = TRUE]

StopServices == stopped' = [s \in Services |-> TRUE]

TerminateComms ==
    /\ user = "idle" /\ state # "gone"
    /\ \/ terms < MaxTerms /\ destroying' = FALSE
       \/ snd.at = "idle" /\ destroying' = TRUE
    /\ user' = "joinRecv"
    /\ terms' = terms + 1
    /\ StopServices
    /\ UNCHANGED <<fixedVars, state, once, inits, own, stray, recvVars, cbVars, sendVars, crashed>>

Join(s, at, then) ==
    /\ user = at /\ own[s] # "run"
    /\ user' = then
    /\ own' = [own EXCEPT ![s] = "none"]
    /\ UNCHANGED <<fixedVars, state, once, destroying, inits, terms, stopped, stray,
                   recvVars, cbVars, sendVars, crashed>>

JoinThreads == Join("recv", "joinRecv", "joinSend") \/ Join("send", "joinSend", "close")

Closed(sock) == IF sock = "null" THEN "null" ELSE "shut"

\* TerminateReceiver: closing the socket aborts what is outstanding.
CloseReceiver ==
    /\ rsock' = Closed(rsock)
    /\ receiving' = 0
    /\ ready' = ready \o [i \in 1..receiving |-> "err"]

\* Mutant: the receiver is terminated only if there is no sender.
TerminateCommsImpl_Either ==
    /\ user = "close"
    /\ ssock' = IF Async THEN ssock ELSE Closed(ssock)
    /\ IF CanSend THEN UNCHANGED <<rsock, receiving, ready>> ELSE CloseReceiver
    /\ UNCHANGED crashed
    /\ user' = IF destroying THEN "destruct" ELSE "idle"
    /\ state' = "down" /\ reopened' = FALSE
    /\ UNCHANGED <<fixedVars, once, destroying, inits, terms, svcVars, buffer, spoilt, data,
                   cbVars, snd, sends>>

\* TerminateSender, then TerminateReceiver.  The asynchronous sender does nothing;
\* the synchronous classes use their socket without a look whether there is one.
TerminateCommsImpl ==
    /\ user = "close"
    /\ crashed' = (~Async /\ ((CanSend /\ ssock = "null") \/ (CanRecv /\ rsock = "null")))
    /\ ssock' = IF Async THEN ssock ELSE Closed(ssock)
    /\ CloseReceiver
    /\ user' = IF destroying THEN "destruct" ELSE "idle"
    /\ state' = "down" /\ reopened' = FALSE
    /\ UNCHANGED <<fixedVars, once, destroying, inits, terms, svcVars, buffer, spoilt, data,
                   cbVars, snd, sends>>

\* The rest of the destructor: sockets, ends and io_services go.
Destruct ==
    /\ user = "destruct"
    /\ user' = "gone" /\ state' = "gone"
    /\ rsock' = "null" /\ ssock' = "null" /\ receiving' = 0 /\ ready' = <<>>
    /\ UNCHANGED <<fixedVars, once, destroying, inits, terms, svcVars, buffer, spoilt, data,
                   cbVars, snd, reopened, sends, crashed>>

UserStep == InitializeSender \/ StartThreads \/ JoinThreads \/ TerminateCommsImpl \/ Destruct

-----------------------------------------------------------------------------
(* The io_services' threads *)

Runs(s) == ~stopped[s] /\ (own[s] = "run" \/ stray[s] > 0)

Take(h) == Runs(Comms.recv.svc) /\ ready # <<>> /\ Head(ready) = h

\* The datagram is copied for a thread of its own, and the next receive started.
HandleReceiveFrom ==
    /\ CanRecv /\ Take("ok")
    /\ called' = Append(called, buffer)
    /\ ReceiveFrom(rsock, receiving, Tail(ready))
    /\ UNCHANGED <<fixedVars, userVars, svcVars, rsock, buffer, data, heard, sendVars, crashed>>

\* An error is passed on the same way, and nothing is received any more.
HandleReceiveError ==
    /\ CanRecv /\ Take("err")
    /\ called' = Append(called, 0)
    /\ ready' = Tail(ready)
    /\ UNCHANGED <<fixedVars, userVars, svcVars, rsock, receiving, buffer, spoilt, data,
                   heard, sendVars, crashed>>

\* run() returns once the io_service is stopped, or has nothing left to wait for.
ThreadEnds(s) ==
    /\ stopped[s] \/ ~HasWork(s)
    /\ \/ own[s] = "run" /\ own' = [own EXCEPT ![s] = "ended"] /\ UNCHANGED stray
       \/ stray[s] > 0 /\ stray' = [stray EXCEPT ![s] = @ - 1] /\ UNCHANGED own
    /\ stopped' = [stopped EXCEPT ![s] = TRUE]
    /\ UNCHANGED <<fixedVars, userVars, recvVars, cbVars, sendVars, crashed>>

Threads == HandleReceiveFrom \/ HandleReceiveError \/ \E s \in Services : ThreadEnds(s)

\* Mutant: the callback is bound to the buffer instead of a copy.
CallbackRuns_ByReference ==
    /\ \E i \in DOMAIN called :
         /\ heard' = Append(heard, IF called[i] = 0 THEN 0 ELSE buffer)
         /\ called' = RemoveAt(called, i)
    /\ UNCHANGED <<fixedVars, userVars, svcVars, recvVars, sendVars, crashed>>

\* A callback thread gets its turn, in any order, even after the object is gone.
CallbackRuns ==
    /\ \E i \in DOMAIN called :
         /\ heard' = Append(heard, called[i])
         /\ called' = RemoveAt(called, i)
    /\ UNCHANGED <<fixedVars, userVars, svcVars, recvVars, sendVars, crashed>>

-----------------------------------------------------------------------------
(* Send of a synchronous object, on a thread of its own *)

SendBegin ==
    /\ CanSend /\ ~Async
    /\ snd.at = "idle" /\ sends < MaxSends
    /\ user \notin {"initSend", "threads", "gone"} /\ ~(destroying /\ user # "idle")
    /\ snd' = [at |-> "open", count |-> 0, err |-> FALSE]
    /\ sends' = sends + 1
    /\ UNCHANGED <<fixedVars, userVars, svcVars, recvVars, cbVars, ssock, reopened, crashed>>

\* A socket that is closed, be it by TerminateComms, is opened again.
SendOpen ==
    /\ snd.at = "open"
    /\ crashed' = (ssock = "null")
    /\ \/ /\ ssock = "shut" /\ ssock' = "open"
          /\ reopened' = (state # "up" \/ user # "idle")
          /\ snd' = [snd EXCEPT !.at = "send", !.err = FALSE]
       \/ /\ ssock = "shut" /\ UNCHANGED <<ssock, reopened>>
          /\ snd' = [snd EXCEPT !.at = "send", !.err = TRUE]
       \/ /\ ssock # "shut" /\ UNCHANGED <<ssock, reopened>>
          /\ snd' = [snd EXCEPT !.at = "send"]
    /\ UNCHANGED <<fixedVars, userVars, svcVars, recvVars, cbVars, sends>>

\* Mutant: one attempt too many.
SendTo_OneMore ==
    /\ snd.at = "send"
    /\ \E err \in BOOLEAN :
         /\ ssock # "open" /\ snd.err => err
         /\ snd' = [at |-> IF err /\ snd.count < MaxCount THEN "open" ELSE "idle",
                    count |-> snd.count + 1, err |-> err]
    /\ UNCHANGED <<fixedVars, userVars, svcVars, recvVars, cbVars, ssock, reopened, sends, crashed>>

\* Sent, or failed, or not tried at all because the socket is closed now, which
\* passes for a success; then the next attempt unless it succeeded or was the last.
SendTo ==
    /\ snd.at = "send"
    /\ \E err \in BOOLEAN :
         /\ ssock # "open" /\ snd.err => err
         /\ snd' = [at |-> IF err /\ snd.count + 1 < MaxCount THEN "open" ELSE "idle",
                    count |-> snd.count + 1, err |-> err]
    /\ UNCHANGED <<fixedVars, userVars, svcVars, recvVars, cbVars, ssock, reopened, sends, crashed>>

Send == SendBegin \/ SendOpen \/ SendTo

-----------------------------------------------------------------------------
(* The network *)

Arrives ==
    /\ receiving > 0 /\ data < MaxData
    /\ data' = data + 1 /\ buffer' = data + 1
    /\ receiving' = receiving - 1
    /\ ready' = Append(ready, "ok")
    /\ UNCHANGED <<fixedVars, userVars, svcVars, rsock, spoilt, cbVars, sendVars, crashed>>

ReceiveFails ==
    /\ receiving > 0
    /\ receiving' = receiving - 1
    /\ ready' = Append(ready, "err")
    /\ UNCHANGED <<fixedVars, userVars, svcVars, rsock, buffer, spoilt, data, cbVars, sendVars,
                   crashed>>

-----------------------------------------------------------------------------

\* The object is gone, or a null socket was used.
Done == crashed \/ user = "gone"

Next ==
    \/ /\ ~crashed
       /\ \/ InitializeComms \/ TerminateComms \/ UserStep
          \/ Threads \/ CallbackRuns \/ Send \/ Arrives \/ ReceiveFails
    \/ Done /\ UNCHANGED vars

\* A call that has begun goes on and the threads run.  Nobody has to call
\* anything, and nothing has to arrive.
Fairness ==
    /\ WF_vars(~crashed /\ UserStep)
    /\ WF_vars(~crashed /\ Threads)

Spec == Init /\ [][Next]_vars /\ Fairness

-----------------------------------------------------------------------------
(* Properties *)

\* Every variable keeps its type.
TypeOK ==
    /\ kind \in Kinds /\ valid \subseteq {"R", "S"}
    /\ user \in {"idle", "initSend", "threads", "joinRecv", "joinSend", "close", "destruct", "gone"}
    /\ state \in {"new", "failed", "up", "down", "gone"}
    /\ {once, destroying, spoilt, reopened, crashed} \subseteq BOOLEAN
    /\ stopped \in [Services -> BOOLEAN]
    /\ own \in [Services -> {"none", "run", "ended"}] /\ stray \in [Services -> Nat]
    /\ rsock \in {"null", "shut", "open", "bound", "joined"}
    /\ ssock \in {"null", "shut", "open"}
    /\ receiving \in Nat /\ ready \in Seq({"ok", "err"}) /\ buffer \in 0..MaxData
    /\ called \in Seq(0..MaxData) /\ heard \in Seq(0..MaxData)
    /\ snd \in [at : {"idle", "open", "send"}, count : 0..MaxCount, err : BOOLEAN]
    /\ inits \in 0..MaxInits /\ terms \in 0..(MaxTerms + 1)
    /\ sends \in 0..MaxSends /\ data \in 0..MaxData

\* The classes but one use the address given for receiving to receive and the one
\* given for sending to send: SyncMulticastComms.cpp:79-82 passes the two in the
\* opposite order to the one SyncMulticastCommsImpl.cpp:94-97 declares.
OwnAddresses ==
    kind # [cast |-> "multicast", mode |-> "sync", use |-> "both"] =>
      /\ CanRecv => Comms.recv.addr = "R"
      /\ CanSend => Comms.send.addr = IF kind.use = "same" THEN "R" ELSE "S"

\* Every end that waits for handlers has a thread that runs them.
OwnThreads == \A s \in Services : HasWork(s) => own[s] = "run" /\ ~stopped[s]

\* A receive is outstanding or its handler queued, until an error ended the loop.
Listens ==
    Async /\ CanRecv =>
      receiving > 0 \/ ready # <<>> \/ 0 \in ToSet(called) \cup ToSet(heard)

\* Until TerminateComms is called, an object whose InitializeComms returned TRUE is
\* served, whichever constructor made it and however often it was initialised: its
\* ends have the user's addresses and a thread each, and it listens.
Served ==
    state = "up" /\ user = "idle" /\ terms = 0 => OwnAddresses /\ OwnThreads /\ Listens

\* As long as one receive at a time uses the buffer, every datagram received is
\* the argument of exactly one callback, or in the buffer with its handler queued.
Faithful ==
    ~spoilt => \A d \in 1..data :
      LET all == called \o heard
          handed == {i \in DOMAIN all : all[i] = d}
      IN  \/ \E i \in handed : handed = {i}
          \/ handed = {} /\ d = data /\ (ready # <<>> \/ state = "gone")

\* Nothing uses a null socket once InitializeComms has returned TRUE: the
\* synchronous classes rely on it, and crash in their destructor when it never did.
SafeOnceUp == once => ~crashed

\* After TerminateComms its threads have ended and the sockets are closed, but for
\* the asynchronous sender's, and one that a Send has opened again.
Released ==
    state = "down" /\ user = "idle" /\ ~crashed =>
      /\ \A s \in Services : own[s] = "none"
      /\ rsock \in NotOpen
      /\ Async \/ reopened \/ ssock \in NotOpen

\* TerminateComms returns, however the object was initialised.
TerminateReturns == (user = "joinRecv") ~> (user \in {"idle", "gone"} \/ crashed)

-----------------------------------------------------------------------------
(* What the comments of the code say *)

\* ConnectionlessComms.h:61 "If no errors are reported, the IO Threads are started to
\* make sure that the ASIO IO occurs" and AsyncConnectionlessReceiver.cpp:84 "one must
\* recall InitializeReceiver() again to restart the receiver": an InitializeComms that
\* follows a successful one and returns TRUE leaves every end with a thread that runs.
ServedAgain == [][once /\ StartThreads => OwnThreads']_vars

-----------------------------------------------------------------------------
(* Strengthenings: what the properties above need to be inductive *)

Terminating == {"joinRecv", "joinSend", "close", "destruct", "gone"}
Initializing == {"initSend", "threads"}

\* Only the destructor's TerminateComms goes on to the object's end, and only
\* that one is not counted by MaxTerms.
UserOrder ==
    /\ destroying => user \in Terminating
    /\ user \in {"destruct", "gone"} => destroying
    /\ user = "gone" <=> state = "gone"
    /\ user \in Terminating => terms > 0
    /\ terms > MaxTerms => destroying
    /\ state = "up" => once

\* A Send is in progress only while nobody initialises or destroys the object.
SendOrder ==
    snd.at # "idle" =>
        /\ CanSend /\ ~destroying /\ user \notin Initializing
        /\ snd.count < MaxCount

\* An io_service with a work object runs until the first TerminateComms, and
\* every io_service is stopped for ever after it.
ServiceOrder ==
    IF terms > 0 THEN \A s \in Services : stopped[s]
    ELSE \A s \in Services : HasWork(s) => ~stopped[s] /\ (once => own[s] = "run")

\* The receiver listens from InitializeReceiver on.
Listening == once \/ user \in Initializing => state = "gone" \/ Listens

\* What InitializeReceiver and InitializeSender have made is there until the end.
SocketsThere ==
    state # "gone" =>
        /\ CanRecv /\ (once \/ user \in Initializing) => rsock # "null"
        /\ CanSend /\ (once \/ user = "threads") => ssock # "null"

\* A thread that was joined does not run again before TerminateComms returns.
Joined ==
    /\ user \in {"joinSend", "close"} => own["recv"] = "none"
    /\ user = "close" => own["send"] = "none"

NoneOf(seq, d) == \A i \in 1..Len(seq) : seq[i] # d
OneOf(seq, d) ==
    \E i \in 1..Len(seq) : seq[i] = d /\ \A j \in 1..Len(seq) : seq[j] = d => j = i

\* Datagram d has been handed to exactly one callback, or to none.
Handed(d) ==
    \/ OneOf(called, d) /\ NoneOf(heard, d)
    \/ NoneOf(called, d) /\ OneOf(heard, d)
Kept(d) == NoneOf(called, d) /\ NoneOf(heard, d)
Due == ready # <<>> /\ Head(ready) = "ok"

\* As long as receives have not shared the buffer there is one at a time,
\* outstanding or in the queue, and the buffer has the datagram received last.
Delivered ==
    /\ state = "gone" => receiving = 0 /\ ready = <<>>
    /\ ~spoilt =>
        /\ receiving + Len(ready) <= 1
        /\ buffer = data
        /\ \A d \in 1..MaxData : d > data => Kept(d)
        /\ \A d \in 1..data :
             \/ Handed(d) /\ (d = data => ~Due)
             \/ Kept(d) /\ d = data /\ (Due \/ state = "gone")

IInv ==
    /\ TypeOK /\ Released /\ SafeOnceUp
    /\ UserOrder /\ SendOrder /\ ServiceOrder /\ Listening /\ SocketsThere /\ Joined
    /\ Delivered
=============================================================================
