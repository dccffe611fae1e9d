------------------------ MODULE ConnectionLifecycle ------------------------
(***************************************************************************)
(* What CBasicConnectionHandler is promised by a connection that keeps     *)
(* trying: the order of the callbacks over its life, whatever goes on      *)
(* between its threads, its socket and its timer.  OnNewConnection comes   *)
(* first, then connects and disconnects, of which several may follow each  *)
(* other, and after Stop() at most the callback in progress and then       *)
(* OnTerminate.                                                            *)
(***************************************************************************)

VARIABLES
    phase,    \* the object: before Start, serving, in Stop before and after the
              \* io_service is stopped, returned from Stop, or crashed
    running,  \* Start was called
    told      \* what the handler was told last

vars == <<phase, running, told>>

Alive == phase \in {"serving", "stopping"}

Init == phase = "new" /\ ~running /\ told = "nothing"

Start ==
    /\ phase = "new"
    /\ phase' = "serving" /\ running' = TRUE
    /\ UNCHANGED told

OnNewConnection ==
    /\ Alive /\ told = "nothing"
    /\ told' = "new"
    /\ UNCHANGED <<phase, running>>

OnConnect ==
    /\ Alive /\ told \in {"new", "connected", "disconnected"}
    /\ told' = "connected"
    /\ UNCHANGED <<phase, running>>

\* OnDisconnect and OnConnectFailed.
OnDisconnect ==
    /\ Alive /\ told \in {"new", "connected", "disconnected"}
    /\ told' = "disconnected"
    /\ UNCHANGED <<phase, running>>

StopBegins ==
    /\ phase \in {"new", "serving"}
    /\ phase' = "stopping"
    /\ UNCHANGED <<running, told>>

ServiceStops ==
    /\ phase = "stopping"
    /\ phase' = "halted"
    /\ UNCHANGED <<running, told>>

OnTerminate ==
    /\ phase = "halted" /\ running /\ told # "terminated"
    /\ told' = "terminated"
    /\ UNCHANGED <<phase, running>>

StopReturns ==
    /\ phase = "halted"
    /\ running => told = "terminated"
    /\ phase' = "gone"
    /\ UNCHANGED <<running, told>>

\* Only a Stop can make a handler find its timer gone.
Crash ==
    /\ phase \in {"stopping", "halted"} /\ running /\ told # "terminated"
    /\ phase' = "crashed"
    /\ UNCHANGED <<running, told>>

Next ==
    \/ Start \/ OnNewConnection \/ OnConnect \/ OnDisconnect
    \/ StopBegins \/ ServiceStops \/ OnTerminate \/ StopReturns \/ Crash

\* The handler is told of the connection, is told that it is up, at first and
\* after every loss, and Stop returns.  A client keeps this part of the promise
\* only on a platform whose "already connected" error has the value that
\* connect_handler looks for.
Progress ==
    /\ (phase = "serving" /\ told = "nothing") ~> (told = "new" \/ phase # "serving")
    /\ (phase = "serving" /\ told \in {"new", "disconnected"})
         ~> (told = "connected" \/ phase # "serving")
    /\ (phase = "stopping") ~> (phase \in {"gone", "crashed"})

Spec == Init /\ [][Next]_vars /\ Progress
=============================================================================
