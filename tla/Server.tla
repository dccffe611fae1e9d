------------------------------- MODULE Server -------------------------------
(***************************************************************************)
(* BoostAsioConnections/Server.h and ServerConnection.h: a TCP server that *)
(* accepts sockets on a thread of its own, makes each a ServerConnection   *)
(* with a thread of its own, and keeps them in a map by remote endpoint.   *)
(* A connection whose thread ends posts the deletion of its map entry to   *)
(* the server's thread; the last reference to go runs the destructor,      *)
(* which joins the connection's thread.                                    *)
(*                                                                         *)
(* Abstracted: what is read and written (a read that succeeds changes      *)
(* nothing here), the idle timer (BasicConnection has both), and failures  *)
(* to bind or listen, which the source leaves to a TODO.  One user holds   *)
(* one connection at a time, on a thread that is not a connection's.       *)
(***************************************************************************)
EXTENDS Naturals, Sequences, Functions

CONSTANTS
    Conns,            \* SERVER_CONNECTION objects
    Endpoints,        \* remote endpoints
    None,             \* the null pointer
    DerivedIsHandler, \* m_bDerivedIsHandler: the connections are their own handlers
    MaxCalls,         \* bound: calls of Write, DeleteConnection and AsyncWrite
    MaxGets           \* bound: calls of GetConnection

ASSUME ConnsAssumption == None \notin Conns /\ None \notin Endpoints
ASSUME HandlerAssumption == DerivedIsHandler \in BOOLEAN
ASSUME BoundAssumption == MaxCalls \in Nat /\ MaxGets \in Nat

VARIABLES
    owner,     \* the owning thread: before Start, after it, in Stop, past the destructor
    io,        \* the server's m_thread
    tasks,     \* the server's io_service: its queue of handlers
    accepting, \* an async_accept is outstanding on m_acceptor
    list,      \* m_connections
    fresh,     \* accept_handler's newConnection, until it has been started
    victim,    \* the connection whose destructor the server's or owner's thread is in
    conn,      \* the connections
    held,      \* connections a user holds a shared_ptr to
    getting,   \* GetConnection between its find and its copy: what the entry it
               \* found holds, or last held before it was erased
    asked,     \* history: endpoints whose deletion a user asked for
    calls, gets,
    broken     \* undefined behaviour: a stale iterator or a dangling m_manager was used

userVars   == <<held, getting, asked, calls, gets>>
serverVars == <<io, tasks, accepting, list, fresh>>
vars       == <<owner, serverVars, victim, conn, userVars, broken>>

-----------------------------------------------------------------------------
(* A connection: the object (three steps of its destructor among its        *)
(* states), its thread, its socket, m_tLastSuccessTime # 0, an outstanding  *)
(* read, its io_service, what it told its handler last, and (history) that  *)
(* a user wrote to it before accept_handler had started it.                 *)

Unborn == [obj |-> "none", thread |-> "none", remote |-> None, sock |-> "closed",
           up |-> FALSE, reading |-> FALSE, ready |-> <<>>, stopped |-> FALSE,
           told |-> "nothing", early |-> FALSE]

Dying == {"closing", "stopping", "joining"}

\* io_service::post, and io_service::stop, after which nothing queued is run.
Queue(k, h) == IF k.stopped THEN k ELSE [k EXCEPT !.ready = Append(@, h)]
Stopped(k) == [k EXCEPT !.stopped = TRUE, !.ready = <<>>]

Closed(k) ==
    LET closed == [k EXCEPT !.sock = "closed", !.reading = FALSE]
    IN  IF k.reading THEN Queue(closed, "read_err") ELSE closed

\* The destructor has made the base class's functions the virtual ones, and
\* replaces a handler that was the derived object by CNoOpHandler.
Told(k, what) == IF k.obj \in Dying /\ DerivedIsHandler THEN k.told ELSE what

Set(c, k) == conn' = [conn EXCEPT ![c] = k]

\* A reference to c is dropped: the last one runs the destructor.
Unref(c, users) == IF c \in users THEN conn[c] ELSE [conn[c] EXCEPT !.obj = "closing"]
Victim(c) == IF c \in held THEN None ELSE c

\* The same of the server's io_service.
Post(task) == tasks' = IF owner \in {"new", "started"} THEN Append(tasks, task) ELSE tasks
Task(fn, ep) == [fn |-> fn, ep |-> ep]

Init ==
    /\ owner = "new" /\ io = "none" /\ tasks = <<>> /\ accepting = FALSE
    /\ list = [e \in Endpoints |-> None]
    /\ fresh = None /\ victim = None
    /\ conn = [c \in Conns |-> Unborn]
    /\ held = {} /\ getting = None /\ asked = {}
    /\ calls = 0 /\ gets = 0
    /\ broken = FALSE

-----------------------------------------------------------------------------
(* The owning thread *)

Start ==
    /\ owner = "new"
    /\ owner' = "started"
    /\ io' = "starting"
    /\ UNCHANGED <<tasks, accepting, list, fresh, victim, conn, userVars, broken>>

StopService ==
    /\ owner = "started"
    /\ owner' = "stopping"
    /\ tasks' = <<>>
    /\ UNCHANGED <<io, accepting, list, fresh, victim, conn, userVars, broken>>

StopJoin ==
    /\ owner = "stopping" /\ io = "ended"
    /\ owner' = "clearing"
    /\ UNCHANGED <<serverVars, victim, conn, userVars, broken>>

\* Mutant: the object itself is waited for, although a user may hold it.
StopClear_Waits ==
    /\ owner = "clearing" /\ victim = None
    /\ \E e \in Endpoints :
         /\ list[e] # None
         /\ list' = [list EXCEPT ![e] = None]
         /\ Set(list[e], Unref(list[e], held))
         /\ victim' = list[e]
    /\ UNCHANGED <<owner, io, tasks, accepting, fresh, userVars, broken>>

\* m_connections.clear() destroys one connection after the other.
StopClear ==
    /\ owner = "clearing" /\ victim = None
    /\ \E e \in Endpoints :
         /\ list[e] # None
         /\ list' = [list EXCEPT ![e] = None]
         /\ Set(list[e], Unref(list[e], held))
         /\ victim' = Victim(list[e])
    /\ UNCHANGED <<owner, io, tasks, accepting, fresh, userVars, broken>>

StopReturn ==
    /\ owner = "clearing" /\ victim = None /\ \A e \in Endpoints : list[e] = None
    /\ owner' = "stopped"
    /\ UNCHANGED <<serverVars, victim, conn, userVars, broken>>

Stop == StopService \/ StopJoin \/ StopClear \/ StopReturn

\* Stop's caller was the destructor, or it is called now: its Stop does nothing more.
Destroy ==
    /\ owner = "stopped"
    /\ owner' = "gone"
    /\ UNCHANGED <<serverVars, victim, conn, userVars, broken>>

-----------------------------------------------------------------------------
(* The server's thread *)

Run_io_service ==
    /\ io = "starting"
    /\ io' = "run"
    /\ accepting' = TRUE
    /\ UNCHANGED <<owner, tasks, list, fresh, victim, conn, userVars, broken>>

\* run() takes the handler of a task; none while a destructor blocks the thread.
Take(fn) ==
    /\ io = "run" /\ fresh = None /\ victim = None
    /\ tasks # <<>> /\ Head(tasks).fn = fn
    /\ tasks' = Tail(tasks)

\* Mutant: the constructor does not pass the remote endpoint on.
NewConnection_NoEndpoint(ep) == [Unborn EXCEPT !.obj = "live", !.sock = "open", !.up = TRUE]

\* ServerConnection's constructor: the socket is connected.
NewConnection(ep) == [Unborn EXCEPT !.obj = "live", !.remote = ep, !.sock = "open", !.up = TRUE]

\* The object that `new` allocates.
Unused == CHOOSE c \in Conns : conn[c].obj = "none"

\* Mutant: insert(), which keeps an entry that is there, in place of the array notation.
accept_ok_Insert ==
    /\ Take("accept")
    /\ LET ep == Head(tasks).ep  old == list[ep]  c == Unused
       IN    /\ fresh' = c
             /\ list' = IF old = None THEN [list EXCEPT ![ep] = c] ELSE list
             /\ Set(c, NewConnection(ep))
             /\ UNCHANGED victim
    /\ UNCHANGED <<owner, io, accepting, userVars, broken>>

\* accept_handler without an error: the entry of the endpoint is assigned, and
\* the connection it held before is destroyed.  A GetConnection that has found
\* the entry will copy what it holds now.
accept_ok ==
    /\ Take("accept")
    /\ LET ep == Head(tasks).ep  old == list[ep]  c == Unused
       IN    /\ fresh' = c
             /\ list' = [list EXCEPT ![ep] = c]
             /\ conn' = [d \in Conns |-> CASE d = c -> NewConnection(ep)
                                           [] d = old -> Unref(d, held)
                                           [] OTHER -> conn[d]]
             /\ victim' = IF old = None THEN None ELSE Victim(old)
             /\ getting' = IF old # None /\ getting = old THEN c ELSE getting
    /\ UNCHANGED <<owner, io, accepting, held, asked, calls, gets, broken>>

\* newConnection->Start: ProcessNewConnection queues new_connection_handler and
\* the first read, the thread is spawned; then the next async_accept.
accept_start ==
    /\ fresh # None /\ victim = None
    /\ Set(fresh, [conn[fresh] EXCEPT !.thread = "run", !.ready = Append(@, "new"),
                                      !.reading = TRUE])
    /\ fresh' = None
    /\ accepting' = TRUE
    /\ UNCHANGED <<owner, io, tasks, list, victim, userVars, broken>>

\* accept_handler with an error: a blocking delay, then the next async_accept.
accept_failed ==
    /\ Take("accept_err")
    /\ io' = "delay"
    /\ UNCHANGED <<owner, accepting, list, fresh, victim, conn, userVars, broken>>

\* Mutant: the next accept is asked for only when one has succeeded.
accept_delay_NoAccept ==
    /\ io = "delay"
    /\ io' = "run"
    /\ UNCHANGED <<owner, tasks, accepting, list, fresh, victim, conn, userVars, broken>>

accept_delay ==
    /\ io = "delay"
    /\ io' = "run"
    /\ accepting' = TRUE
    /\ UNCHANGED <<owner, tasks, list, fresh, victim, conn, userVars, broken>>

\* Mutant: whatever the endpoint, the list is cleared.
delete_connection_handler_All ==
    /\ Take("delete")
    /\ list' = [e \in Endpoints |-> None]
    /\ conn' = [c \in Conns |-> IF c \in Range(list) THEN Unref(c, held) ELSE conn[c]]
    /\ UNCHANGED <<owner, io, accepting, fresh, victim, userVars, broken>>

\* m_connections.erase: the entry that has this endpoint now.
delete_connection_handler ==
    /\ Take("delete")
    /\ LET ep == Head(tasks).ep  c == list[ep]
       IN  IF c = None THEN UNCHANGED <<list, conn, victim>>
           ELSE /\ list' = [list EXCEPT ![ep] = None]
                /\ Set(c, Unref(c, held))
                /\ victim' = Victim(c)
    /\ UNCHANGED <<owner, io, accepting, fresh, userVars, broken>>

invoke_write_handler ==
    /\ Take("write")
    /\ LET c == list[Head(tasks).ep]
       IN  IF c = None THEN UNCHANGED conn
           ELSE Set(c, Queue(conn[c], "write"))
    /\ UNCHANGED <<owner, io, accepting, list, fresh, victim, userVars, broken>>

\* run() returns after io_service::stop: the acceptor and its socket go.
RunReturns ==
    /\ io = "run" /\ fresh = None /\ victim = None
    /\ owner \notin {"new", "started"}
    /\ io' = "ended"
    /\ accepting' = FALSE
    /\ UNCHANGED <<owner, tasks, list, fresh, victim, conn, userVars, broken>>

ServerStep ==
    \/ Run_io_service \/ accept_ok \/ accept_start \/ accept_failed \/ accept_delay
    \/ delete_connection_handler \/ invoke_write_handler \/ RunReturns

-----------------------------------------------------------------------------
(* A connection's own thread *)

Untouched == UNCHANGED <<owner, io, accepting, list, fresh, victim, userVars>>

Handle(c, h) ==
    /\ conn[c].thread = "run" /\ ~conn[c].stopped
    /\ conn[c].ready # <<>> /\ Head(conn[c].ready) = h
Handled(k) == [k EXCEPT !.ready = Tail(@)]

new_connection_handler(c) ==
    /\ Handle(c, "new")
    /\ Set(c, [Handled(conn[c]) EXCEPT !.told = Told(conn[c], "new")])
    /\ UNCHANGED <<tasks, broken>> /\ Untouched

\* ProcessDisconnect, first call: close, OnDisconnect, and (the override only) AsyncStop.
Disconnected(k) ==
    LET closed == [Closed(k) EXCEPT !.up = FALSE, !.told = Told(k, "disconnected")]
    IN  IF k.obj = "live" THEN Stopped(closed) ELSE closed

Disconnects(c, h) ==
    /\ Handle(c, h)
    /\ Set(c, IF conn[c].up THEN Disconnected(Handled(conn[c])) ELSE Handled(conn[c]))
    /\ UNCHANGED <<tasks, broken>> /\ Untouched

ReadFailed(c) == Disconnects(c, "read_err")

WriteDone(c) ==
    /\ Handle(c, "write")
    /\ conn[c].sock # "closed" \/ ~conn[c].up
    /\ Set(c, Handled(conn[c]))
    /\ UNCHANGED <<tasks, broken>> /\ Untouched

WriteFailed(c) == conn[c].sock # "open" /\ conn[c].up /\ Disconnects(c, "write")

\* Mutant: the override does not tell the manager.
ProcessTerminate_NotPosted(c) ==
    /\ conn[c].thread = "run"
    /\ conn[c].stopped \/ (conn[c].ready = <<>> /\ ~conn[c].reading)
    /\ Set(c, [Closed(conn[c]) EXCEPT !.thread = "ended", !.told = Told(conn[c], "terminated")])
    /\ UNCHANGED <<tasks, broken>>
    /\ Untouched

\* Mutant: the thread ends without OnTerminate, or OnTerminate comes first.
ProcessTerminate_Early(c) ==
    /\ conn[c].thread = "run"
    /\ Set(c, [Closed(conn[c]) EXCEPT !.told = Told(conn[c], "terminated"),
                                      !.thread = IF conn[c].stopped THEN "ended" ELSE @])
    /\ UNCHANGED <<tasks, broken>>
    /\ Untouched

\* run() has returned, stopped or with nothing left to wait for: close,
\* OnTerminate, and (the override only) m_manager->OnTerminateConnection.
ProcessTerminate(c) ==
    /\ conn[c].thread = "run"
    /\ conn[c].stopped \/ (conn[c].ready = <<>> /\ ~conn[c].reading)
    /\ Set(c, [Closed(conn[c]) EXCEPT !.thread = "ended", !.told = Told(conn[c], "terminated")])
    /\ IF conn[c].obj = "live"
       THEN Post(Task("delete", conn[c].remote)) /\ broken' = (owner = "gone")
       ELSE UNCHANGED <<tasks, broken>>
    /\ Untouched

ConnStep(c) ==
    \/ new_connection_handler(c) \/ ReadFailed(c)
    \/ WriteDone(c) \/ WriteFailed(c) \/ ProcessTerminate(c)

\* ~BasicConnection, on whichever thread dropped the last reference: Stop().
StopClose(c) ==
    /\ conn[c].obj = "closing"
    /\ Set(c, [Closed(conn[c]) EXCEPT !.obj = "stopping"])
    /\ UNCHANGED <<tasks, broken>> /\ Untouched

StopConn(c) ==
    /\ conn[c].obj = "stopping"
    /\ Set(c, [Stopped(conn[c]) EXCEPT !.obj = "joining"])
    /\ UNCHANGED <<tasks, broken>> /\ Untouched

StopJoined(c) ==
    /\ conn[c].obj = "joining" /\ conn[c].thread \in {"none", "ended"}
    /\ Set(c, [conn[c] EXCEPT !.obj = "gone", !.ready = <<>>, !.up = FALSE, !.early = FALSE])
    /\ victim' = IF victim = c THEN None ELSE victim
    /\ UNCHANGED <<owner, serverVars, userVars, broken>>

Destructor(c) == StopClose(c) \/ StopConn(c) \/ StopJoined(c)

-----------------------------------------------------------------------------
(* Users, on other threads *)

InUse == owner = "started" /\ calls < MaxCalls /\ calls' = calls + 1

Write ==
    /\ InUse
    /\ \E e \in Endpoints : Post(Task("write", e))
    /\ UNCHANGED <<owner, io, accepting, list, fresh, victim, conn,
                   held, getting, asked, gets, broken>>

DeleteConnection ==
    /\ InUse
    /\ \E e \in Endpoints : Post(Task("delete", e)) /\ asked' = asked \cup {e}
    /\ UNCHANGED <<owner, io, accepting, list, fresh, victim, conn,
                   held, getting, gets, broken>>

\* GetConnection searches the map on the caller's thread...
GetConnectionFind ==
    /\ owner = "started" /\ gets < MaxGets /\ getting = None /\ held = {}
    /\ gets' = gets + 1
    /\ \E e \in Endpoints : list[e] # None /\ getting' = list[e]
    /\ UNCHANGED <<owner, serverVars, victim, conn, held, asked, calls, broken>>

\* ... and copies the pointer the entry holds, if it has not been erased.
GetConnectionCopy ==
    /\ getting # None
    /\ IF getting \in Range(list) THEN held' = held \cup {getting} /\ UNCHANGED broken
       ELSE broken' = TRUE /\ UNCHANGED held
    /\ getting' = None
    /\ UNCHANGED <<owner, serverVars, victim, conn, asked, calls, gets>>

AsyncWrite ==
    /\ InUse
    /\ \E c \in held :
         Set(c, [Queue(conn[c], "write") EXCEPT !.early = @ \/ conn[c].thread = "none"])
    /\ UNCHANGED <<owner, serverVars, victim, held, getting, asked, gets, broken>>

\* A user drops its pointer; the destructor runs on its thread if it was the last.
Release ==
    /\ \E c \in held :
         /\ held' = held \ {c}
         /\ Set(c, IF c \in Range(list) THEN conn[c] ELSE Unref(c, {}))
    /\ UNCHANGED <<owner, serverVars, victim, getting, asked, calls, gets, broken>>

UserStep ==
    \/ Write \/ DeleteConnection \/ GetConnectionFind \/ GetConnectionCopy
    \/ AsyncWrite \/ Release

-----------------------------------------------------------------------------
(* Peers *)

\* An endpoint connects once it has closed the socket it had before.
PeerConnects ==
    /\ accepting /\ \E c \in Conns : conn[c].obj = "none"
    /\ accepting' = FALSE
    /\ \E e \in Endpoints :
         /\ \A c \in Conns : conn[c].remote = e => conn[c].sock # "open"
         /\ Post(Task("accept", e))
    /\ UNCHANGED <<owner, io, list, fresh, victim, conn, userVars, broken>>

AcceptFails ==
    /\ accepting
    /\ accepting' = FALSE
    /\ Post(Task("accept_err", None))
    /\ UNCHANGED <<owner, io, list, fresh, victim, conn, userVars, broken>>

PeerCloses(c) ==
    /\ conn[c].sock = "open"
    /\ Set(c, [conn[c] EXCEPT !.sock = "dropped"])
    /\ UNCHANGED <<tasks, broken>> /\ Untouched

ReadBreaks(c) ==
    /\ conn[c].reading /\ conn[c].sock = "dropped"
    /\ Set(c, [conn[c] EXCEPT !.reading = FALSE, !.ready = Append(@, "read_err")])
    /\ UNCHANGED <<tasks, broken>> /\ Untouched

PeerStep ==
    \/ PeerConnects \/ AcceptFails
    \/ \E c \in Conns : PeerCloses(c) \/ ReadBreaks(c)

-----------------------------------------------------------------------------

\* The server is gone and every thread at rest, or the behaviour is undefined.
AtRest == \A c \in Conns : conn[c].thread # "run" /\ conn[c].obj \notin Dying
Done == broken \/ (owner = "gone" /\ AtRest)

Next ==
    \/ /\ ~broken
       /\ \/ Start \/ Stop \/ Destroy \/ ServerStep \/ UserStep \/ PeerStep
          \/ \E c \in Conns : ConnStep(c) \/ Destructor(c)
    \/ Done /\ UNCHANGED vars

ConnProgress(c) == ConnStep(c) \/ Destructor(c) \/ ReadBreaks(c)

\* The server's thread runs when it can, and so does some connection's thread or
\* destructor (weaker than fairness to each: none runs for ever by itself); a
\* broken read is reported, a Stop and a GetConnection that have begun go on.
\* Nobody has to connect, to call or to release anything.
Fairness ==
    /\ WF_vars(~broken /\ (ServerStep \/ StopJoin \/ StopClear \/ StopReturn \/ GetConnectionCopy))
    /\ WF_vars(~broken /\ \E c \in Conns : ConnProgress(c))

Spec == Init /\ [][Next]_vars /\ Fairness

-----------------------------------------------------------------------------
(* Properties *)

Connection ==
    [obj : {"none", "live", "gone"} \cup Dying, thread : {"none", "run", "ended"},
     remote : Endpoints \cup {None}, sock : {"open", "dropped", "closed"},
     up : BOOLEAN, reading : BOOLEAN, ready : Seq({"new", "read_err", "write"}),
     stopped : BOOLEAN,
     told : {"nothing", "new", "disconnected", "terminated"}, early : BOOLEAN]

Tasks == [fn : {"accept", "accept_err", "delete", "write"}, ep : Endpoints \cup {None}]

\* Every variable keeps its type.
TypeOK ==
    /\ owner \in {"new", "started", "stopping", "clearing", "stopped", "gone"}
    /\ io \in {"none", "starting", "run", "delay", "ended"}
    /\ tasks \in Seq(Tasks)
    /\ accepting \in BOOLEAN
    /\ list \in [Endpoints -> Conns \cup {None}]
    /\ {fresh, victim, getting} \subseteq Conns \cup {None}
    /\ conn \in [Conns -> Connection]
    /\ \A c \in Conns : conn[c].remote = None <=> conn[c].obj = "none"
    /\ held \subseteq Conns /\ asked \subseteq Endpoints
    /\ calls \in 0..MaxCalls /\ gets \in 0..MaxGets
    /\ broken \in BOOLEAN

\* No connection is lost: an object that is alive is in the map under its own
\* endpoint or a user holds it, and the map holds nothing else.
Accounted ==
    /\ \A c \in Conns :
         conn[c].obj = "live" => c \in held \/ list[conn[c].remote] = c
    /\ \A e \in Endpoints :
         list[e] # None => conn[list[e]].obj = "live" /\ conn[list[e]].remote = e

\* The server listens until it is stopped: an accept is outstanding, its handler is
\* queued, or the thread is in a handler that will ask for the next one.
KeepsAccepting ==
    io = "run" /\ owner = "started" =>
      accepting \/ fresh # None \/ \E i \in DOMAIN tasks : tasks[i].fn \in {"accept", "accept_err"}

\* A connection that still has its peer is destroyed only for a cause: the
\* server stops, a user asked for its endpoint to be deleted, or another
\* connection has had the same endpoint (whose late deletion may hit it).
DestroyedForCause ==
    [][\A c \in Conns :
         conn[c].obj = "live" /\ conn[c].sock = "open" /\ conn'[c].obj = "closing" =>
           \/ owner # "started"
           \/ conn[c].remote \in asked
           \/ \E d \in Conns \ {c} : conn[d].remote = conn[c].remote]_vars

\* Every connection tells its handler in a legal order: OnNewConnection once
\* and first, OnTerminate last, and nothing after its thread has ended.  Only a
\* user who wrote to it before accept_handler started it can upset the order.
CallbackOrder ==
    [][\A c \in Conns : ~conn'[c].early =>
         /\ conn[c].told = "nothing" => conn'[c].told \in {"nothing", "new", "terminated"}
         /\ conn[c].told = "new" => conn'[c].told # "nothing"
         /\ conn[c].told = "disconnected" => conn'[c].told \in {"disconnected", "terminated"}
         /\ conn[c].told = "terminated" => conn'[c].told = "terminated"
         /\ conn[c].thread = "ended" => conn'[c].told = conn[c].told]_vars

\* A connection whose peer has gone is destroyed and its thread joined, with
\* nobody's help, unless a user holds it.
LostIsReaped ==
    \A c \in Conns :
      (conn[c].obj = "live" /\ conn[c].sock = "dropped")
        ~> (conn[c].obj = "gone" \/ c \in held \/ broken)

\* Stop() returns: no connection's thread and the server's wait for each other.
StopReturns == (owner = "stopping") ~> (owner = "stopped" \/ broken)

-----------------------------------------------------------------------------
(* Strengthenings: what the properties above need to be inductive *)

Accepts == {"accept", "accept_err"}

NoAccept(queue) == \A i \in 1..Len(queue) : queue[i].fn \notin Accepts

\* A user's pointer keeps its connection alive.
HeldAlive == \A c \in held : conn[c].obj = "live"

\* There is one accept at a time: outstanding, queued, or in its handler; and
\* for a socket accepted there is an object to be made.
AcceptOnce ==
    /\ \A i, j \in 1..Len(tasks) :
         tasks[i].fn \in Accepts /\ tasks[j].fn \in Accepts => i = j
    /\ accepting \/ fresh # None \/ io # "run" => NoAccept(tasks)
    /\ accepting => fresh = None /\ io = "run"
    /\ fresh # None => io = "run"
    /\ owner = "new" => io = "none"
    /\ owner \in {"clearing", "stopped", "gone"} => io = "ended"
    /\ \A i \in 1..Len(tasks) : tasks[i].fn = "accept" => \E c \in Conns : conn[c].obj = "none"

\* No task is left once the server's io_service is stopped; all but a failed
\* accept are about an endpoint.
TasksOK ==
    /\ owner \notin {"new", "started"} => tasks = <<>>
    /\ \A i \in 1..Len(tasks) : tasks[i].fn # "accept_err" => tasks[i].ep \in Endpoints

\* What accept_handler has made and not started yet: nobody has heard of it.
FreshOK ==
    fresh # None =>
        /\ conn[fresh].obj = "live" /\ list[conn[fresh].remote] = fresh
        /\ conn[fresh].thread = "none" /\ conn[fresh].told = "nothing" /\ ~conn[fresh].reading
        /\ ~conn[fresh].early => conn[fresh].ready = <<>>

NoNew(queue) == \A i \in 1..Len(queue) : queue[i] # "new"
NewFirst(queue) == queue # <<>> /\ Head(queue) = "new" /\ NoNew(Tail(queue))

\* A connection whose thread runs runs new_connection_handler first and once,
\* unless it is stopped before or its callbacks go to the CNoOpHandler.
Ordered(k) ==
    k.thread = "run" /\ ~k.early =>
        /\ k.told = "nothing" =>
             NewFirst(k.ready) \/ k.stopped \/ (k.obj \in Dying /\ DerivedIsHandler)
        /\ k.told # "nothing" => NoNew(k.ready)

ThreadsOK ==
    \A c \in Conns :
        /\ Ordered(conn[c])
        /\ conn[c].obj = "none" =>
             conn[c].thread = "none" /\ conn[c].told = "nothing" /\ conn[c].sock = "closed"
        /\ conn[c].told = "terminated" => conn[c].thread = "ended"
        /\ conn[c].thread = "ended" => conn[c].sock = "closed"

\* While an accept of an endpoint is queued no socket of that endpoint is open.
AcceptFree ==
    \A i \in 1..Len(tasks) : tasks[i].fn = "accept" =>
        \A c \in Conns : conn[c].remote = tasks[i].ep => conn[c].sock # "open"

\* A deletion is queued because a user asked for it or a connection has ended.
DeleteCause ==
    \A i \in 1..Len(tasks) : tasks[i].fn = "delete" =>
        \/ tasks[i].ep \in asked
        \/ \E d \in Conns : conn[d].remote = tasks[i].ep /\ conn[d].thread = "ended"

\* A connection that only a user keeps was taken out of the map for a cause.
RemovedCause ==
    \A c \in Conns : conn[c].obj = "live" /\ conn[c].sock = "open" =>
        \/ list[conn[c].remote] = c
        \/ owner \notin {"new", "started"}
        \/ conn[c].remote \in asked
        \/ \E d \in Conns \ {c} : conn[d].remote = conn[c].remote

IInv ==
    /\ TypeOK /\ Accounted /\ KeepsAccepting
    /\ HeldAlive /\ AcceptOnce /\ TasksOK /\ FreshOK
    /\ ThreadsOK /\ AcceptFree /\ DeleteCause /\ RemovedCause
=============================================================================
