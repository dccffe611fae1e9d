---------------------------- MODULE ServerProofs ----------------------------
(***************************************************************************)
(* Invariance proofs about Server, for any sets of connections and         *)
(* endpoints, any number of calls, and connections that are their own      *)
(* handlers or not.                                                        *)
(*                                                                         *)
(* A step is one of a few kinds (NextCases): it leaves the connections     *)
(* alone, makes one of them evolve (Evolves says what no such step         *)
(* undoes), drops a reference, or makes a new one.  The parts of the       *)
(* invariant are proved one at a time from that and from what a step does  *)
(* to the queue of the server's thread (TaskSteps).                        *)
(***************************************************************************)
EXTENDS Server, SequenceTheorems, TLAPS

Handlers == {"new", "read_err", "write"}

LEMMA HandlerQueue ==
    ASSUME NEW q \in Seq(Handlers), NEW h \in Handlers
    PROVE  /\ Append(q, h) \in Seq(Handlers)
           /\ NoNew(q) /\ h # "new" => NoNew(Append(q, h))
           /\ NewFirst(q) /\ h # "new" => NewFirst(Append(q, h))
           /\ q # <<>> => /\ Head(q) \in Handlers /\ Tail(q) \in Seq(Handlers)
                          /\ NoNew(q) => Head(q) # "new" /\ NoNew(Tail(q))
           /\ <<>> \in Seq(Handlers) /\ NoNew(<<>>) /\ NewFirst(Append(<<>>, "new"))
<1>1. /\ Append(q, h) \in Seq(Handlers)
      /\ Len(q) \in Nat /\ Len(Append(q, h)) = Len(q) + 1
      /\ \A i \in 1..Len(q) : Append(q, h)[i] = q[i]
      /\ Append(q, h)[Len(q) + 1] = h
  BY AppendProperties, LenProperties
<1>2. \A i \in 1..Len(Append(q, h)) : i \in 1..Len(q) \/ i = Len(q) + 1
  BY <1>1
<1>3. NoNew(q) /\ h # "new" => NoNew(Append(q, h))
  BY <1>1, <1>2 DEF NoNew
<1>4. q # <<>> => /\ Head(q) \in Handlers /\ Tail(q) \in Seq(Handlers)
                  /\ Len(q) \in Nat \ {0} /\ Len(Tail(q)) = Len(q) - 1
                  /\ Head(q) = q[1]
                  /\ \A i \in 1..Len(Tail(q)) : Tail(q)[i] = q[i + 1]
  BY HeadTailProperties, EmptySeq
<1>5. q # <<>> /\ NoNew(q) => Head(q) # "new" /\ NoNew(Tail(q))
  <2> SUFFICES ASSUME q # <<>>, NoNew(q) PROVE Head(q) # "new" /\ NoNew(Tail(q))
    OBVIOUS
  <2>1. 1 \in 1..Len(q) /\ \A i \in 1..Len(Tail(q)) : i + 1 \in 1..Len(q)
    BY <1>4
  <2> QED
    BY <1>4, <2>1 DEF NoNew
<1>6. NewFirst(q) /\ h # "new" => NewFirst(Append(q, h))
  <2> SUFFICES ASSUME NewFirst(q), h # "new" PROVE NewFirst(Append(q, h))
    OBVIOUS
  <2>1. q # <<>>
    BY DEF NewFirst
  <2>2. /\ Append(q, h) # <<>> /\ Head(Append(q, h)) = Head(q)
        /\ Tail(Append(q, h)) = Append(Tail(q), h)
    BY <2>1, HeadTailAppend
  <2>3. NoNew(Append(Tail(q), h))
    <3> DEFINE r == Tail(q)
    <3>1. r \in Seq(Handlers) /\ NoNew(r)
      BY <1>4, <2>1 DEF NewFirst
    <3> HIDE DEF r
    <3>2. /\ Len(r) \in Nat /\ Len(Append(r, h)) = Len(r) + 1
          /\ \A i \in 1..Len(r) : Append(r, h)[i] = r[i]
          /\ Append(r, h)[Len(r) + 1] = h
      BY <3>1, AppendProperties, LenProperties
    <3>3. \A i \in 1..Len(Append(r, h)) : i \in 1..Len(r) \/ i = Len(r) + 1
      BY <3>2
    <3>4. NoNew(Append(r, h))
      BY <3>1, <3>2, <3>3 DEF NoNew
    <3> QED
      BY <3>4 DEF r
  <2> QED
    BY <2>2, <2>3 DEF NewFirst
<1>7. <<>> \in Seq(Handlers) /\ NoNew(<<>>)
  BY DEF NoNew
<1>8. NewFirst(Append(<<>>, "new"))
  BY <1>7 DEF NewFirst, NoNew, Handlers
<1> QED
  BY <1>1, <1>3, <1>4, <1>5, <1>6, <1>7, <1>8

-----------------------------------------------------------------------------
(* One connection *)

\* What is invariant about a connection by itself.
Sound(k) ==
    /\ k \in Connection
    /\ Ordered(k)
    /\ k.obj = "none" => k.thread = "none" /\ k.told = "nothing" /\ k.sock = "closed"
    /\ k.told = "terminated" => k.thread = "ended"
    /\ k.thread = "ended" => k.sock = "closed"
    /\ k.remote = None <=> k.obj = "none"

\* CallbackOrder of one connection that goes from k to l.
InOrder(k, l) ==
    ~l.early =>
        /\ k.told = "nothing" => l.told \in {"nothing", "new", "terminated"}
        /\ k.told = "new" => l.told # "nothing"
        /\ k.told = "disconnected" => l.told \in {"disconnected", "terminated"}
        /\ k.told = "terminated" => l.told = "terminated"
        /\ k.thread = "ended" => l.told = k.told

\* What no step of a connection that exists undoes.
Evolves(k, l) ==
    /\ Sound(l) /\ InOrder(k, l)
    /\ k.obj = "none" <=> l.obj = "none"
    /\ l.remote = k.remote
    /\ l.obj = "live" => k.obj = "live"
    /\ l.obj = "closing" => k.obj \in {"live", "closing"}
    /\ l.sock = "open" => k.sock = "open"
    /\ k.thread = "ended" => l.thread = "ended"

LEMMA EvolvesSame == ASSUME NEW k, Sound(k) PROVE Evolves(k, k)
BY DEF Evolves, Sound, InOrder, Connection

LEMMA RecordQueue ==
    ASSUME NEW k \in Connection, NEW h \in Handlers
    PROVE  /\ k.ready \in Seq(Handlers)
           /\ Append(k.ready, h) \in Seq(Handlers) /\ <<>> \in Seq(Handlers)
           /\ k.ready # <<>> => Head(k.ready) \in Handlers /\ Tail(k.ready) \in Seq(Handlers)
BY HandlerQueue DEF Connection, Handlers

LEMMA QueueEvolves ==
    ASSUME NEW k, Sound(k), k.obj # "none", NEW h \in Handlers \ {"new"}
    PROVE  Evolves(k, Queue(k, h)) /\ Queue(k, h).obj = k.obj
<1>1. k.ready \in Seq(Handlers) /\ Append(k.ready, h) \in Seq(Handlers)
  BY RecordQueue DEF Sound, Handlers
<1>2. /\ NoNew(k.ready) => NoNew(Append(k.ready, h))
      /\ NewFirst(k.ready) => NewFirst(Append(k.ready, h))
  BY <1>1, HandlerQueue
<1>3. CASE k.stopped
  BY <1>3, EvolvesSame DEF Queue
<1>4. CASE ~k.stopped
  <2> DEFINE l == [k EXCEPT !.ready = Append(k.ready, h)]
  <2>1. l \in Connection
    BY <1>1 DEF Sound, Connection, Handlers
  <2>2. Ordered(l)
    BY <1>2 DEF Sound, Ordered, Connection
  <2>3. Evolves(k, l) /\ l.obj = k.obj
    BY <2>1, <2>2 DEF Evolves, Sound, InOrder, Connection
  <2> QED
    BY <1>4, <2>3 DEF Queue
<1> QED
  BY <1>3, <1>4

\* AsyncWrite, by a user who may be ahead of accept_handler.
LEMMA EarlyEvolves ==
    ASSUME NEW k, Sound(k), k.obj # "none"
    PROVE  LET l == [Queue(k, "write") EXCEPT !.early = @ \/ k.thread = "none"]
           IN  Evolves(k, l) /\ l.obj = k.obj
<1> DEFINE q == Queue(k, "write")
           l == [q EXCEPT !.early = q.early \/ k.thread = "none"]
<1>1. Evolves(k, q) /\ q.obj = k.obj /\ q.early = k.early /\ q.thread = k.thread
  BY QueueEvolves DEF Handlers, Queue, Sound, Connection
<1> HIDE DEF q
<1>2. q \in Connection
  BY <1>1 DEF Evolves, Sound
<1>3. l \in Connection
  BY <1>2 DEF Connection
<1>4. /\ l.obj = q.obj /\ l.thread = q.thread /\ l.told = q.told /\ l.sock = q.sock
      /\ l.remote = q.remote /\ l.ready = q.ready /\ l.stopped = q.stopped
      /\ ~l.early => ~q.early
  BY <1>2 DEF Connection
<1> HIDE DEF l
<1>5. Ordered(l)
  BY <1>1, <1>4 DEF Evolves, Sound, Ordered
<1>6. Evolves(k, l) /\ l.obj = k.obj
  BY <1>1, <1>3, <1>4, <1>5 DEF Evolves, Sound, InOrder
<1> QED
  BY <1>6 DEF l, q

\* The three that close the socket: what Closed does by itself.
LEMMA ClosedEvolves ==
    ASSUME NEW k, Sound(k), k.obj # "none"
    PROVE  LET l == Closed(k)
           IN  /\ Evolves(k, l) /\ l.obj = k.obj /\ l.sock = "closed" /\ ~l.reading
               /\ l.thread = k.thread /\ l.told = k.told /\ l.early = k.early
<1> DEFINE m == [k EXCEPT !.sock = "closed", !.reading = FALSE]
<1>1. m \in Connection
  BY DEF Sound, Connection
<1>2. Ordered(m)
  BY DEF Sound, Ordered, Connection
<1>3. /\ Evolves(k, m) /\ m.obj = k.obj /\ m.sock = "closed" /\ ~m.reading
      /\ m.thread = k.thread /\ m.told = k.told /\ m.early = k.early
  BY <1>1, <1>2 DEF Evolves, Sound, InOrder, Connection
<1> HIDE DEF m
<1>4. Sound(m) /\ m.obj # "none"
  BY <1>3 DEF Evolves
<1> DEFINE q == Queue(m, "read_err")
<1>5. Evolves(m, q) /\ q.obj = m.obj
  BY <1>4, QueueEvolves DEF Handlers
<1>6. /\ q.sock = m.sock /\ q.reading = m.reading /\ q.thread = m.thread
      /\ q.told = m.told /\ q.early = m.early
  BY <1>4 DEF Queue, Sound, Connection
<1> HIDE DEF q
<1>7. Evolves(k, q)
  BY <1>3, <1>5, <1>6 DEF Evolves, InOrder
<1>8. Closed(k) = IF k.reading THEN q ELSE m
  BY DEF Closed, q, m
<1> QED
  BY <1>3, <1>5, <1>6, <1>7, <1>8

LEMMA StoppedEvolves ==
    ASSUME NEW k, Sound(k), k.obj # "none"
    PROVE  LET l == Stopped(k)
           IN  /\ Evolves(k, l) /\ l.obj = k.obj /\ l.sock = k.sock
               /\ l.thread = k.thread /\ l.told = k.told /\ l.early = k.early
<1> DEFINE l == [k EXCEPT !.stopped = TRUE, !.ready = <<>>]
<1>1. l \in Connection
  BY EmptySeq DEF Sound, Connection
<1>2. Ordered(l)
  BY HandlerQueue DEF Sound, Ordered, Connection, NoNew
<1> QED
  BY <1>1, <1>2 DEF Evolves, Sound, InOrder, Connection, Stopped

\* A handler other than new_connection_handler is taken off the queue.
LEMMA HandledEvolves ==
    ASSUME NEW k, Sound(k), k.obj # "none", k.thread = "run", ~k.stopped,
           k.ready # <<>>, Head(k.ready) # "new"
    PROVE  LET l == Handled(k)
           IN  /\ Evolves(k, l) /\ l.obj = k.obj /\ l.up = k.up
               /\ l.thread = k.thread /\ l.told = k.told /\ l.early = k.early
               /\ ~k.early => \/ k.told # "nothing" /\ NoNew(l.ready)
                              \/ k.told = "nothing" /\ k.obj \in Dying /\ DerivedIsHandler
<1> DEFINE l == [k EXCEPT !.ready = Tail(k.ready)]
<1>1. k.ready \in Seq(Handlers) /\ Tail(k.ready) \in Seq(Handlers)
  BY RecordQueue DEF Sound, Handlers
<1>2. NoNew(k.ready) => NoNew(Tail(k.ready))
  BY <1>1, HandlerQueue DEF Handlers
<1>3. l \in Connection
  BY <1>1 DEF Sound, Connection, Handlers
<1>4. /\ l.obj = k.obj /\ l.thread = k.thread /\ l.told = k.told /\ l.early = k.early
      /\ l.ready = Tail(k.ready) /\ l.stopped = k.stopped /\ l.sock = k.sock
      /\ l.remote = k.remote /\ l.up = k.up
  BY DEF Sound, Connection
<1> HIDE DEF l
<1>5. ~k.early => \/ k.told # "nothing" /\ NoNew(l.ready)
                  \/ k.told = "nothing" /\ k.obj \in Dying /\ DerivedIsHandler
  BY <1>2, <1>4 DEF Sound, Ordered, NewFirst
<1>6. Ordered(l)
  BY <1>4, <1>5 DEF Ordered
<1>7. Evolves(k, l)
  BY <1>3, <1>4, <1>6 DEF Evolves, Sound, InOrder
<1> QED
  BY <1>4, <1>5, <1>7 DEF l, Handled

\* new_connection_handler.
LEMMA NewEvolves ==
    ASSUME NEW k, Sound(k), k.thread = "run", ~k.stopped, k.ready # <<>>, Head(k.ready) = "new"
    PROVE  LET l == [Handled(k) EXCEPT !.told = Told(k, "new")]
           IN  Evolves(k, l) /\ l.obj = k.obj
<1> DEFINE l == [k EXCEPT !.ready = Tail(k.ready), !.told = Told(k, "new")]
<1>1. k.ready \in Seq(Handlers) /\ Tail(k.ready) \in Seq(Handlers)
  BY RecordQueue DEF Sound, Handlers
<1>2. NoNew(k.ready) => Head(k.ready) # "new"
  BY <1>1, HandlerQueue DEF Handlers
<1>3. l \in Connection
  BY <1>1 DEF Sound, Connection, Handlers, Told
<1>4. /\ l.obj = k.obj /\ l.thread = k.thread /\ l.told = Told(k, "new") /\ l.early = k.early
      /\ l.ready = Tail(k.ready) /\ l.stopped = k.stopped /\ l.sock = k.sock
      /\ l.remote = k.remote
  BY DEF Sound, Connection
<1> HIDE DEF l
<1>5. ~k.early => k.told = "nothing" /\ (NewFirst(k.ready) \/ (k.obj \in Dying /\ DerivedIsHandler))
  BY <1>2 DEF Sound, Ordered
<1>6. Ordered(l)
  BY <1>4, <1>5 DEF Ordered, Told, NewFirst
<1>7. Evolves(k, l)
  BY <1>3, <1>4, <1>5, <1>6 DEF Evolves, Sound, InOrder, Told
<1>8. l = [Handled(k) EXCEPT !.told = Told(k, "new")]
  BY DEF l, Handled, Sound, Connection
<1> QED
  BY <1>4, <1>7, <1>8

\* ProcessDisconnect, after its handler has been taken off the queue.
LEMMA DisconnectedEvolves ==
    ASSUME NEW k, Sound(k), k.obj # "none", k.thread = "run",
           ~k.early => \/ k.told # "nothing" /\ NoNew(k.ready)
                       \/ k.told = "nothing" /\ k.obj \in Dying /\ DerivedIsHandler
    PROVE  Evolves(k, Disconnected(k)) /\ Disconnected(k).obj = k.obj
<1> DEFINE c == Closed(k)
           d == [c EXCEPT !.up = FALSE, !.told = Told(k, "disconnected")]
<1>1. /\ Evolves(k, c) /\ c.obj = k.obj /\ c.sock = "closed"
      /\ c.thread = k.thread /\ c.told = k.told /\ c.early = k.early
      /\ c.ready = k.ready \/ c.ready = Append(k.ready, "read_err")
  <2>1. c.ready = k.ready \/ c.ready = Append(k.ready, "read_err")
    BY DEF Closed, Queue, Sound, Connection
  <2> QED
    BY <2>1, ClosedEvolves
<1>2. k.ready \in Seq(Handlers) /\ (NoNew(k.ready) => NoNew(c.ready))
  <2>1. k.ready \in Seq(Handlers)
    BY RecordQueue DEF Sound, Handlers
  <2> QED
    BY <1>1, <2>1, HandlerQueue DEF Handlers
<1> HIDE DEF c
<1>3. c \in Connection
  BY <1>1 DEF Evolves, Sound
<1>4. d \in Connection
  BY <1>3, <1>1 DEF Connection, Told
<1>5. /\ d.obj = c.obj /\ d.thread = c.thread /\ d.told = Told(k, "disconnected")
      /\ d.early = c.early /\ d.ready = c.ready /\ d.stopped = c.stopped
      /\ d.sock = c.sock /\ d.remote = c.remote
  BY <1>3 DEF Connection
<1> HIDE DEF d
<1>6. Ordered(d)
  BY <1>1, <1>2, <1>5 DEF Ordered, Told
<1>7. k.told # "terminated"
  BY DEF Sound
<1>8. InOrder(k, d)
  BY <1>1, <1>5, <1>7 DEF InOrder, Told
<1>9. Evolves(k, d) /\ d.obj = k.obj /\ Sound(d)
  BY <1>1, <1>4, <1>5, <1>6, <1>7, <1>8 DEF Evolves, Sound, Told
<1> DEFINE s == Stopped(d)
<1>10. /\ Evolves(d, s) /\ s.obj = d.obj /\ s.told = d.told /\ s.early = d.early
       /\ s.thread = d.thread
  BY <1>9, StoppedEvolves
<1>11. Disconnected(k) = IF k.obj = "live" THEN s ELSE d
  BY DEF Disconnected, s, d, c
<1> HIDE DEF s
<1>12. Evolves(k, s) /\ s.obj = k.obj
  BY <1>9, <1>10 DEF Evolves, InOrder
<1> QED
  BY <1>9, <1>11, <1>12

\* Evolving goes on from where it got to, when neither step touches what it told.
LEMMA EvolvesOn ==
    ASSUME NEW k, NEW l, NEW m, Evolves(k, l), Evolves(l, m),
           l.told = k.told, l.early = k.early, l.thread = k.thread
    PROVE  Evolves(k, m)
BY DEF Evolves, InOrder

\* ProcessTerminate.
LEMMA TerminatedEvolves ==
    ASSUME NEW k, Sound(k), k.thread = "run"
    PROVE  LET l == [Closed(k) EXCEPT !.thread = "ended", !.told = Told(k, "terminated")]
           IN  Evolves(k, l) /\ l.obj = k.obj /\ l.thread = "ended"
<1>0. k.obj # "none"
  BY DEF Sound
<1> DEFINE c == Closed(k)
           l == [c EXCEPT !.thread = "ended", !.told = Told(k, "terminated")]
<1>1. /\ Evolves(k, c) /\ c.obj = k.obj /\ c.sock = "closed"
      /\ c.thread = k.thread /\ c.told = k.told /\ c.early = k.early
  BY <1>0, ClosedEvolves
<1> HIDE DEF c
<1>2. c \in Connection
  BY <1>1 DEF Evolves, Sound
<1>3. l \in Connection
  BY <1>1, <1>2 DEF Connection, Told
<1>4. /\ l.obj = c.obj /\ l.thread = "ended" /\ l.told = Told(k, "terminated")
      /\ l.early = c.early /\ l.sock = c.sock /\ l.remote = c.remote
  BY <1>2 DEF Connection
<1> HIDE DEF l
<1>5. Sound(l)
  BY <1>1, <1>3, <1>4 DEF Sound, Ordered, Evolves
<1>6. k.told # "terminated"
  BY DEF Sound
<1>7. InOrder(k, l)
  BY <1>1, <1>2, <1>4, <1>6 DEF InOrder, Told, Connection
<1>8. Evolves(k, l) /\ l.obj = k.obj /\ l.thread = "ended"
  BY <1>1, <1>4, <1>5, <1>7 DEF Evolves
<1> QED
  BY <1>8 DEF l, c

\* The last reference is dropped, and the three steps of the destructor.
LEMMA DestructorEvolves ==
    ASSUME NEW k, Sound(k)
    PROVE  /\ k.obj = "live" => Evolves(k, [k EXCEPT !.obj = "closing"])
           /\ k.obj = "closing" => Evolves(k, [Closed(k) EXCEPT !.obj = "stopping"])
           /\ k.obj = "stopping" => Evolves(k, [Stopped(k) EXCEPT !.obj = "joining"])
           /\ k.obj = "joining" /\ k.thread \in {"none", "ended"} =>
                Evolves(k, [k EXCEPT !.obj = "gone", !.ready = <<>>, !.up = FALSE, !.early = FALSE])
<1> DEFINE To(x, o) == [x EXCEPT !.obj = o]
<1>1. ASSUME NEW x, Sound(x), x.obj # "none", NEW o \in {"closing", "stopping", "joining"},
             o = "closing" => x.obj = "live", o # "closing" => x.obj \in Dying
      PROVE  Evolves(x, To(x, o))
  <2>1. To(x, o) \in Connection
    BY <1>1 DEF Sound, Connection, Dying
  <2>2. Ordered(To(x, o))
    BY <1>1 DEF Sound, Ordered, Connection, Dying
  <2> QED
    BY <1>1, <2>1, <2>2 DEF Evolves, Sound, InOrder, Connection, Dying
<1>2. k.obj = "live" => Evolves(k, To(k, "closing"))
  BY <1>1 DEF Dying
<1>3. ASSUME k.obj = "closing" PROVE Evolves(k, To(Closed(k), "stopping"))
  <2>1. /\ Evolves(k, Closed(k)) /\ Closed(k).obj = k.obj
        /\ Closed(k).thread = k.thread /\ Closed(k).told = k.told /\ Closed(k).early = k.early
    BY <1>3, ClosedEvolves
  <2>2. Evolves(Closed(k), To(Closed(k), "stopping"))
    BY <1>1, <1>3, <2>1 DEF Evolves, Dying
  <2> QED
    BY <2>1, <2>2, EvolvesOn
<1>4. ASSUME k.obj = "stopping" PROVE Evolves(k, To(Stopped(k), "joining"))
  <2>1. /\ Evolves(k, Stopped(k)) /\ Stopped(k).obj = k.obj
        /\ Stopped(k).thread = k.thread /\ Stopped(k).told = k.told
        /\ Stopped(k).early = k.early
    BY <1>4, StoppedEvolves
  <2>2. Evolves(Stopped(k), To(Stopped(k), "joining"))
    BY <1>1, <1>4, <2>1 DEF Evolves, Dying
  <2> QED
    BY <2>1, <2>2, EvolvesOn
<1>5. ASSUME k.obj = "joining", k.thread \in {"none", "ended"}
      PROVE  Evolves(k, [k EXCEPT !.obj = "gone", !.ready = <<>>, !.up = FALSE, !.early = FALSE])
  <2> DEFINE l == [k EXCEPT !.obj = "gone", !.ready = <<>>, !.up = FALSE, !.early = FALSE]
  <2>1. l \in Connection
    BY EmptySeq DEF Sound, Connection
  <2>2. Ordered(l)
    BY <1>5 DEF Sound, Ordered, Connection
  <2> QED
    BY <1>5, <2>1, <2>2 DEF Evolves, Sound, InOrder, Connection
<1> QED
  BY <1>2, <1>3, <1>4, <1>5

\* The peer closes the socket, and a read that breaks completes.
LEMMA PeerEvolves ==
    ASSUME NEW k, Sound(k)
    PROVE  /\ k.sock = "open" =>
                LET l == [k EXCEPT !.sock = "dropped"] IN Evolves(k, l) /\ l.obj = k.obj
           /\ k.reading /\ k.obj # "none" =>
                LET l == [k EXCEPT !.reading = FALSE, !.ready = Append(@, "read_err")]
                IN  Evolves(k, l) /\ l.obj = k.obj
<1>1. ASSUME k.sock = "open"
      PROVE  LET l == [k EXCEPT !.sock = "dropped"] IN Evolves(k, l) /\ l.obj = k.obj
  <2> DEFINE l == [k EXCEPT !.sock = "dropped"]
  <2>1. l \in Connection
    BY DEF Sound, Connection
  <2>2. Ordered(l)
    BY DEF Sound, Ordered, Connection
  <2> QED
    BY <1>1, <2>1, <2>2 DEF Evolves, Sound, InOrder, Connection
<1>2. ASSUME k.reading, k.obj # "none"
      PROVE  LET l == [k EXCEPT !.reading = FALSE, !.ready = Append(@, "read_err")]
             IN  Evolves(k, l) /\ l.obj = k.obj
  <2> DEFINE l == [k EXCEPT !.reading = FALSE, !.ready = Append(k.ready, "read_err")]
  <2>1. k.ready \in Seq(Handlers) /\ Append(k.ready, "read_err") \in Seq(Handlers)
    BY RecordQueue DEF Sound, Handlers
  <2>2. /\ NoNew(k.ready) => NoNew(Append(k.ready, "read_err"))
        /\ NewFirst(k.ready) => NewFirst(Append(k.ready, "read_err"))
    BY <2>1, HandlerQueue DEF Handlers
  <2>3. l \in Connection
    BY <2>1 DEF Sound, Connection, Handlers
  <2>4. Ordered(l)
    BY <2>2 DEF Sound, Ordered, Connection
  <2> QED
    BY <1>2, <2>3, <2>4 DEF Evolves, Sound, InOrder, Connection
<1> QED
  BY <1>1, <1>2

-----------------------------------------------------------------------------
(* What a step does to the connections *)

LEMMA SoundConns ==
    ASSUME IInv
    PROVE  conn \in [Conns -> Connection] /\ \A c \in Conns : Sound(conn[c])
BY DEF IInv, TypeOK, ThreadsOK, Sound

LEMMA SetConn ==
    ASSUME conn \in [Conns -> Connection], NEW c \in Conns, NEW l, Set(c, l)
    PROVE  /\ conn'[c] = l
           /\ \A d \in Conns : d # c => conn'[d] = conn[d]
           /\ l \in Connection => conn' \in [Conns -> Connection]
BY DEF Set

\* The actions by what they do to the connections.
QuietStep ==
    \/ Start \/ StopService \/ StopJoin \/ StopReturn \/ Destroy
    \/ Run_io_service \/ accept_failed \/ accept_delay \/ RunReturns
    \/ Write \/ DeleteConnection \/ GetConnectionFind \/ GetConnectionCopy
    \/ PeerConnects \/ AcceptFails \/ UNCHANGED vars

OwnStep == \E c \in Conns : ConnStep(c) \/ Destructor(c) \/ PeerCloses(c) \/ ReadBreaks(c)

DropStep == accept_ok \/ delete_connection_handler \/ StopClear \/ Release

LEMMA NextCases ==
    ASSUME [Next]_vars
    PROVE  QuietStep \/ OwnStep \/ DropStep \/ accept_start \/ invoke_write_handler \/ AsyncWrite
BY Zenon DEF Next, Stop, ServerStep, UserStep, PeerStep, QuietStep, OwnStep, DropStep

\* Connection c becomes l; it stays alive.
Becomes(c, l) ==
    Set(c, l) /\ Evolves(conn[c], l) /\ (conn[c].obj = "live" => l.obj = "live")

LEMMA QuietFrame == ASSUME QuietStep PROVE UNCHANGED <<conn, list, fresh>>
BY DEF QuietStep, Start, StopService, StopJoin, StopReturn, Destroy, Run_io_service,
   accept_failed, accept_delay, RunReturns, Write, DeleteConnection, GetConnectionFind,
   GetConnectionCopy, PeerConnects, AcceptFails, vars, serverVars

LEMMA OwnBecomes == ASSUME IInv, OwnStep PROVE \E c \in Conns, l \in Connection : Becomes(c, l)
<1>1. PICK c \in Conns : ConnStep(c) \/ Destructor(c) \/ PeerCloses(c) \/ ReadBreaks(c)
  BY DEF OwnStep
<1> DEFINE k == conn[c]
<1>2. Sound(k)
  BY SoundConns
<1> SUFFICES \E l : Becomes(c, l)
  <2>1. ASSUME NEW l, Becomes(c, l) PROVE l \in Connection
    BY <2>1 DEF Becomes, Evolves, Sound
  <2> QED
    BY <2>1
<1>3. ASSUME NEW h \in {"read_err", "write"}, Handle(c, h)
      PROVE  /\ Evolves(k, Handled(k)) /\ Handled(k).obj = k.obj /\ Handled(k).up = k.up
             /\ Evolves(k, Disconnected(Handled(k))) /\ Disconnected(Handled(k)).obj = k.obj
  <2>1. k.obj # "none" /\ k.thread = "run" /\ ~k.stopped /\ k.ready # <<>> /\ Head(k.ready) # "new"
    BY <1>2, <1>3 DEF Handle, Sound
  <2> DEFINE m == Handled(k)
  <2>2. /\ Evolves(k, m) /\ m.obj = k.obj /\ m.up = k.up
        /\ m.thread = k.thread /\ m.told = k.told /\ m.early = k.early
        /\ ~k.early => \/ k.told # "nothing" /\ NoNew(m.ready)
                       \/ k.told = "nothing" /\ k.obj \in Dying /\ DerivedIsHandler
    BY <1>2, <2>1, HandledEvolves
  <2> HIDE DEF k, m
  <2>3. /\ Sound(m) /\ m.obj # "none" /\ m.thread = "run"
        /\ ~m.early => \/ m.told # "nothing" /\ NoNew(m.ready)
                       \/ m.told = "nothing" /\ m.obj \in Dying /\ DerivedIsHandler
    BY <2>1, <2>2 DEF Evolves
  <2>4. Evolves(m, Disconnected(m)) /\ Disconnected(m).obj = m.obj
    BY <2>3, DisconnectedEvolves
  <2>5. Evolves(k, Disconnected(m)) /\ Disconnected(m).obj = k.obj
    BY <2>2, <2>4, EvolvesOn
  <2> QED
    BY <2>2, <2>5 DEF m
<1>4. CASE new_connection_handler(c)
  <2>1. k.thread = "run" /\ ~k.stopped /\ k.ready # <<>> /\ Head(k.ready) = "new"
    BY <1>4 DEF new_connection_handler, Handle
  <2> QED
    BY <1>2, <1>4, <2>1, NewEvolves DEF Becomes, new_connection_handler
<1>5. ASSUME NEW h \in {"read_err", "write"}, Disconnects(c, h) PROVE \E l : Becomes(c, l)
  BY <1>3, <1>5 DEF Disconnects, Becomes
<1>6. CASE ReadFailed(c) \/ WriteFailed(c)
  BY <1>5, <1>6 DEF ReadFailed, WriteFailed
<1>7. CASE WriteDone(c)
  BY <1>3, <1>7 DEF WriteDone, Becomes
<1>8. CASE ProcessTerminate(c)
  BY <1>2, <1>8, TerminatedEvolves DEF ProcessTerminate, Becomes
<1>9. CASE Destructor(c)
  BY <1>2, <1>9, DestructorEvolves DEF Destructor, StopClose, StopConn, StopJoined, Becomes
<1>10. CASE PeerCloses(c)
  BY <1>2, <1>10, PeerEvolves DEF PeerCloses, Becomes
<1>11. CASE ReadBreaks(c)
  <2>1. k.sock # "closed" /\ k.reading
    BY <1>11 DEF ReadBreaks
  <2>2. k.obj # "none"
    BY <1>2, <2>1 DEF Sound
  <2> QED
    BY <1>2, <1>11, <2>1, <2>2, PeerEvolves DEF ReadBreaks, Becomes
<1> QED
  BY <1>1, <1>4, <1>6, <1>7, <1>8, <1>9, <1>10, <1>11 DEF ConnStep

LEMMA WriteBecomes ==
    ASSUME IInv, invoke_write_handler \/ AsyncWrite
    PROVE  conn' = conn \/ \E c \in Conns, l \in Connection : Becomes(c, l)
<1>0. ASSUME NEW c \in Conns, NEW l, Becomes(c, l) PROVE l \in Connection
  BY <1>0 DEF Becomes, Evolves, Sound
<1>1. CASE invoke_write_handler
  <2> DEFINE c == list[Head(tasks).ep]
  <2>1. SUFFICES ASSUME c # None, Set(c, Queue(conn[c], "write"))
                 PROVE  \E d \in Conns, l \in Connection : Becomes(d, l)
    BY <1>1 DEF invoke_write_handler
  <2>2. Head(tasks).ep \in Endpoints
    <3>1. tasks \in Seq(Tasks) /\ tasks # <<>> /\ Head(tasks).fn = "write"
      BY <1>1 DEF invoke_write_handler, Take, IInv, TypeOK
    <3>2. 1 \in 1..Len(tasks) /\ Head(tasks) = tasks[1]
      BY <3>1, EmptySeq, LenProperties
    <3> QED
      BY <3>1, <3>2 DEF IInv, TasksOK
  <2>3. c \in Conns /\ conn[c].obj = "live"
    BY <2>1, <2>2 DEF IInv, TypeOK, Accounted
  <2>4. Becomes(c, Queue(conn[c], "write"))
    BY <2>1, <2>3, SoundConns, QueueEvolves DEF Becomes, Handlers
  <2> QED
    BY <1>0, <2>3, <2>4
<1>2. CASE AsyncWrite
  <2>1. PICK c \in held :
          Set(c, [Queue(conn[c], "write") EXCEPT !.early = @ \/ conn[c].thread = "none"])
    BY <1>2 DEF AsyncWrite
  <2>2. c \in Conns /\ conn[c].obj = "live"
    BY DEF IInv, TypeOK, HeldAlive
  <2>3. \E l : Becomes(c, l)
    BY <2>1, <2>2, SoundConns, EarlyEvolves DEF Becomes
  <2> QED
    BY <1>0, <2>2, <2>3
<1> QED
  BY <1>1, <1>2

\* newConnection->Start: new_connection_handler becomes the first in the queue.
LEMMA StartBecomes ==
    ASSUME IInv, accept_start
    PROVE  \E c \in Conns, l \in Connection : Becomes(c, l)
<1> DEFINE k == conn[fresh]
           q == Append(k.ready, "new")
           l == [k EXCEPT !.thread = "run", !.ready = q, !.reading = TRUE]
<1>1. fresh \in Conns /\ fresh # None /\ Set(fresh, l)
  BY DEF accept_start, IInv, TypeOK
<1>2. /\ Sound(k) /\ k.obj = "live" /\ k.thread = "none" /\ k.told = "nothing"
      /\ ~k.early => k.ready = <<>>
  BY <1>1, SoundConns DEF IInv, FreshOK
<1>3. q \in Seq(Handlers) /\ (~k.early => NewFirst(q))
  BY <1>2, RecordQueue, HandlerQueue DEF Sound, Handlers
<1> HIDE DEF q
<1>4. l \in Connection
  BY <1>2, <1>3 DEF Sound, Connection, Handlers
<1>5. Ordered(l)
  BY <1>2, <1>3 DEF Sound, Ordered, Connection
<1>6. Evolves(k, l) /\ l.obj = k.obj
  BY <1>2, <1>4, <1>5 DEF Evolves, Sound, InOrder, Connection
<1> QED
  BY <1>1, <1>4, <1>6 DEF Becomes

-----------------------------------------------------------------------------
(* The four actions that drop a reference *)

\* A connection whose reference is dropped stays alive when others have it.
LEMMA UnrefEvolves ==
    ASSUME NEW c \in Conns, Sound(conn[c]), conn[c].obj = "live", NEW users
    PROVE  /\ Evolves(conn[c], Unref(c, users))
           /\ Unref(c, users).remote = conn[c].remote /\ Unref(c, users).sock = conn[c].sock
           /\ Unref(c, users).obj = IF c \in users THEN "live" ELSE "closing"
<1>1. Evolves(conn[c], conn[c]) /\ Evolves(conn[c], [conn[c] EXCEPT !.obj = "closing"])
  BY EvolvesSame, DestructorEvolves
<1> QED
  BY <1>1 DEF Unref, Sound, Connection

\* The entry of e, if there is one, is taken out of the map.
Removes(e) ==
    /\ list[e] \in Conns /\ conn[list[e]].obj = "live" /\ conn[list[e]].remote = e
    /\ list' = [list EXCEPT ![e] = None]
    /\ Set(list[e], Unref(list[e], held))
    /\ UNCHANGED <<held, fresh, asked>>

LEMMA HeadTask ==
    ASSUME IInv, NEW fn, Take(fn)
    PROVE  /\ tasks \in Seq(Tasks) /\ tasks # <<>> /\ tasks' = Tail(tasks)
           /\ 1 \in 1..Len(tasks) /\ tasks[1] = Head(tasks) /\ Head(tasks).fn = fn
           /\ fn # "accept_err" => Head(tasks).ep \in Endpoints
           /\ io = "run" /\ fresh = None /\ victim = None
<1>1. /\ tasks \in Seq(Tasks) /\ tasks # <<>> /\ tasks' = Tail(tasks) /\ Head(tasks).fn = fn
      /\ io = "run" /\ fresh = None /\ victim = None
  BY DEF Take, IInv, TypeOK
<1>2. 1 \in 1..Len(tasks) /\ Head(tasks) = tasks[1]
  BY <1>1, EmptySeq, LenProperties
<1> QED
  BY <1>1, <1>2 DEF IInv, TasksOK

LEMMA DeleteRemoves ==
    ASSUME IInv, delete_connection_handler
    PROVE  \/ UNCHANGED <<conn, list, held, fresh, asked>>
           \/ Removes(Head(tasks).ep)
<1>1. Head(tasks).ep \in Endpoints
  BY HeadTask DEF delete_connection_handler
<1>2. UNCHANGED <<held, fresh, asked>>
  BY DEF delete_connection_handler, userVars
<1>3. list[Head(tasks).ep] # None =>
        /\ list[Head(tasks).ep] \in Conns /\ conn[list[Head(tasks).ep]].obj = "live"
        /\ conn[list[Head(tasks).ep]].remote = Head(tasks).ep
  BY <1>1 DEF IInv, TypeOK, Accounted
<1> QED
  BY <1>2, <1>3 DEF delete_connection_handler, Removes

LEMMA ClearRemoves ==
    ASSUME IInv, StopClear
    PROVE  owner = "clearing" /\ owner' = owner /\ \E e \in Endpoints : Removes(e)
<1>1. owner = "clearing" /\ UNCHANGED <<owner, held, fresh, asked>>
  BY DEF StopClear, userVars
<1>2. PICK e \in Endpoints :
        /\ list[e] # None /\ list' = [list EXCEPT ![e] = None]
        /\ Set(list[e], Unref(list[e], held))
  BY DEF StopClear
<1>3. list[e] \in Conns /\ conn[list[e]].obj = "live" /\ conn[list[e]].remote = e
  BY <1>2 DEF IInv, TypeOK, Accounted
<1> QED
  BY <1>1, <1>2, <1>3 DEF Removes

\* What accept_handler does with the map and the connections.
Accepted(c, ep) ==
    /\ c \in Conns /\ conn[c].obj = "none" /\ ep \in Endpoints
    /\ fresh' = c /\ list' = [list EXCEPT ![ep] = c]
    /\ conn'[c] = NewConnection(ep)
    /\ conn' \in [Conns -> Connection]
    /\ \A d \in Conns : d # c /\ d # list[ep] => conn'[d] = conn[d]
    /\ list[ep] # None =>
         /\ list[ep] \in Conns /\ list[ep] # c
         /\ conn[list[ep]].obj = "live" /\ conn[list[ep]].remote = ep
         /\ conn'[list[ep]] = Unref(list[ep], held)
    /\ UNCHANGED <<held, asked>>

LEMMA NewType ==
    ASSUME NEW ep \in Endpoints
    PROVE  LET l == NewConnection(ep)
           IN  /\ Sound(l) /\ l.obj = "live" /\ l.remote = ep /\ l.thread = "none"
               /\ l.told = "nothing" /\ ~l.early /\ l.ready = <<>>
<1> DEFINE l == NewConnection(ep)
<1>1. l \in Connection
  BY EmptySeq DEF NewConnection, Unborn, Connection
<1>2. /\ l.obj = "live" /\ l.remote = ep /\ l.thread = "none"
      /\ l.told = "nothing" /\ ~l.early /\ l.ready = <<>>
  BY DEF NewConnection, Unborn
<1> HIDE DEF l
<1>3. Sound(l)
  BY <1>1, <1>2, ConnsAssumption DEF Sound, Ordered
<1> QED
  BY <1>2, <1>3 DEF l

LEMMA AcceptStep ==
    ASSUME IInv, accept_ok
    PROVE  Accepted(Unused, Head(tasks).ep)
<1> DEFINE ep == Head(tasks).ep
           c == Unused
           old == list[ep]
<1>1. ep \in Endpoints /\ 1 \in 1..Len(tasks) /\ tasks[1].fn = "accept"
  BY HeadTask DEF accept_ok
<1>2. \E d \in Conns : conn[d].obj = "none"
  BY <1>1 DEF IInv, AcceptOnce
<1>3. c \in Conns /\ conn[c].obj = "none"
  BY <1>2 DEF Unused
<1>4. old # None => old \in Conns /\ conn[old].obj = "live" /\ conn[old].remote = ep
  BY <1>1 DEF IInv, TypeOK, Accounted
<1>5. /\ fresh' = c /\ list' = [list EXCEPT ![ep] = c]
      /\ conn' = [d \in Conns |-> CASE d = c -> NewConnection(ep)
                                    [] d = old -> Unref(d, held)
                                    [] OTHER -> conn[d]]
      /\ UNCHANGED <<held, asked>>
  BY DEF accept_ok, userVars
<1> HIDE DEF c, old
<1>6. /\ conn'[c] = NewConnection(ep)
      /\ \A d \in Conns : d # c /\ d # old => conn'[d] = conn[d]
      /\ old # None => conn'[old] = Unref(old, held) /\ old # c
  <2>1. \A d \in Conns : conn'[d] = CASE d = c -> NewConnection(ep)
                                      [] d = old -> Unref(d, held)
                                      [] OTHER -> conn[d]
    BY <1>5
  <2>2. old # None => old \in Conns /\ old # c
    BY <1>3, <1>4
  <2>3. c # old
    BY <1>3, <2>2, ConnsAssumption
  <2>4. conn'[c] = NewConnection(ep) /\ \A d \in Conns : d # c /\ d # old => conn'[d] = conn[d]
    BY <1>3, <2>1, <2>3
  <2>5. old # None => conn'[old] = Unref(old, held)
    BY <2>1, <2>2, <2>3
  <2> QED
    BY <2>2, <2>4, <2>5
<1>7. \A d \in Conns : conn'[d] \in Connection
  <2> SUFFICES ASSUME NEW d \in Conns PROVE conn'[d] \in Connection
    OBVIOUS
  <2>1. CASE d = c
    BY <1>1, <1>6, <2>1, NewType DEF Sound
  <2>2. CASE d = old
    <3>1. old # None
      BY <2>2, ConnsAssumption
    <3> QED
      BY <1>4, <1>6, <2>2, <3>1, SoundConns, UnrefEvolves DEF Evolves, Sound
  <2>3. CASE d # c /\ d # old
    BY <1>6, <2>3, SoundConns
  <2> QED
    BY <2>1, <2>2, <2>3
<1>8. conn' \in [Conns -> Connection]
  BY <1>5, <1>7
<1> QED
  BY <1>1, <1>3, <1>4, <1>5, <1>6, <1>8 DEF Accepted, c, old

\* A user's pointer goes; the object goes with it when it is not in the map.
LEMMA ReleaseStep ==
    ASSUME IInv, Release
    PROVE  \E c \in held :
             /\ c \in Conns /\ conn[c].obj = "live"
             /\ held' = held \ {c}
             /\ Set(c, IF c \in Range(list) THEN conn[c] ELSE Unref(c, {}))
             /\ UNCHANGED <<list, fresh, asked>>
BY DEF Release, serverVars, IInv, TypeOK, HeldAlive

\* Every connection evolves, but the one that accept_handler makes.
LEMMA ConnSteps ==
    ASSUME IInv, [Next]_vars
    PROVE  /\ conn' \in [Conns -> Connection]
           /\ \A c \in Conns :
                \/ Evolves(conn[c], conn'[c])
                \/ accept_ok /\ c = Unused
<1>0. conn \in [Conns -> Connection] /\ \A c \in Conns : Evolves(conn[c], conn[c])
  BY SoundConns, EvolvesSame
<1>1. ASSUME NEW c \in Conns, NEW l \in Connection, Set(c, l), Evolves(conn[c], l)
      PROVE  conn' \in [Conns -> Connection] /\ \A d \in Conns : Evolves(conn[d], conn'[d])
  BY <1>0, <1>1, SetConn
<1>2. ASSUME NEW e, Removes(e)
      PROVE  conn' \in [Conns -> Connection] /\ \A d \in Conns : Evolves(conn[d], conn'[d])
  <2>1. list[e] \in Conns /\ Set(list[e], Unref(list[e], held)) /\ conn[list[e]].obj = "live"
    BY <1>2 DEF Removes
  <2>2. Evolves(conn[list[e]], Unref(list[e], held)) /\ Unref(list[e], held) \in Connection
    BY <2>1, SoundConns, UnrefEvolves DEF Evolves, Sound
  <2> QED
    BY <1>1, <2>1, <2>2
<1>3. CASE QuietStep
  BY <1>0, <1>3, QuietFrame
<1>4. CASE OwnStep \/ accept_start \/ invoke_write_handler \/ AsyncWrite
  <2>1. conn' = conn \/ \E c \in Conns, l \in Connection : Becomes(c, l)
    BY <1>4, OwnBecomes, StartBecomes, WriteBecomes
  <2> QED
    BY <1>0, <1>1, <2>1 DEF Becomes
<1>5. CASE accept_ok
  <2>1. Accepted(Unused, Head(tasks).ep)
    BY <1>5, AcceptStep
  <2> DEFINE old == list[Head(tasks).ep]
  <2>2. ASSUME NEW d \in Conns, d # Unused PROVE Evolves(conn[d], conn'[d])
    <3>1. CASE d = old
      <4>1. old # None
        BY <3>1, ConnsAssumption
      <4> QED
        BY <2>1, <3>1, <4>1, SoundConns, UnrefEvolves DEF Accepted
    <3>2. CASE d # old
      BY <1>0, <2>1, <2>2, <3>2 DEF Accepted
    <3> QED
      BY <3>1, <3>2
  <2> QED
    BY <1>5, <2>1, <2>2 DEF Accepted
<1>6. CASE delete_connection_handler
  BY <1>0, <1>2, <1>6, DeleteRemoves
<1>7. CASE StopClear
  BY <1>2, <1>7, ClearRemoves
<1>8. CASE Release
  <2>1. PICK c \in held :
          /\ c \in Conns /\ conn[c].obj = "live"
          /\ Set(c, IF c \in Range(list) THEN conn[c] ELSE Unref(c, {}))
    BY <1>8, ReleaseStep
  <2>2. Evolves(conn[c], Unref(c, {})) /\ Unref(c, {}) \in Connection
    BY <2>1, SoundConns, UnrefEvolves DEF Evolves, Sound
  <2> QED
    BY <1>0, <1>1, <2>1, <2>2
<1> QED
  BY <1>3, <1>4, <1>5, <1>6, <1>7, <1>8, NextCases DEF DropStep

-----------------------------------------------------------------------------
(* The tasks of the server's thread *)

\* At most one task of the queue is an accept.
Once(q) ==
    \A i, j \in 1..Len(q) : q[i].fn \in Accepts /\ q[j].fn \in Accepts => i = j

LEMMA TailTasks ==
    ASSUME NEW q \in Seq(Tasks), q # <<>>
    PROVE  /\ Tail(q) \in Seq(Tasks)
           /\ \A i \in 1..Len(Tail(q)) : \E j \in 1..Len(q) : Tail(q)[i] = q[j]
           /\ NoAccept(q) => NoAccept(Tail(q))
           /\ Once(q) => Once(Tail(q))
           /\ Once(q) /\ Head(q).fn \in Accepts => NoAccept(Tail(q))
           /\ ~NoAccept(q) /\ Head(q).fn \notin Accepts => ~NoAccept(Tail(q))
<1>1. /\ Tail(q) \in Seq(Tasks)
      /\ Len(q) \in Nat \ {0} /\ Len(Tail(q)) = Len(q) - 1
      /\ Head(q) = q[1]
      /\ \A i \in 1..Len(Tail(q)) : Tail(q)[i] = q[i + 1]
  BY HeadTailProperties, EmptySeq
<1>2. 1 \in 1..Len(q)
  BY <1>1
<1>3. \A i \in 1..Len(Tail(q)) : i + 1 \in 1..Len(q) /\ i + 1 # 1 /\ i \in Int
  BY <1>1
<1>4. \A i \in 1..Len(q) : i = 1 \/ (i - 1 \in 1..Len(Tail(q)) /\ (i - 1) + 1 = i)
  BY <1>1
<1>5. \A i \in 1..Len(Tail(q)) : \E j \in 1..Len(q) : Tail(q)[i] = q[j]
  BY <1>1, <1>3
<1>6. NoAccept(q) => NoAccept(Tail(q))
  BY <1>5 DEF NoAccept
<1>7. ASSUME Once(q), NEW i \in 1..Len(Tail(q)), NEW j \in 1..Len(Tail(q)),
             Tail(q)[i].fn \in Accepts, Tail(q)[j].fn \in Accepts
      PROVE  i = j
  <2>1. i + 1 = j + 1
    BY <1>1, <1>3, <1>7 DEF Once
  <2> QED
    BY <1>3, <2>1
<1>8. Once(q) /\ Head(q).fn \in Accepts => NoAccept(Tail(q))
  BY <1>1, <1>2, <1>3 DEF Once, NoAccept
<1>9. ~NoAccept(q) /\ Head(q).fn \notin Accepts => ~NoAccept(Tail(q))
  BY <1>1, <1>4 DEF NoAccept
<1> QED
  BY <1>1, <1>5, <1>6, <1>7, <1>8, <1>9 DEF Once

LEMMA AppendTasks ==
    ASSUME NEW q \in Seq(Tasks), NEW t \in Tasks
    PROVE  /\ Append(q, t) \in Seq(Tasks)
           /\ \A i \in 1..Len(Append(q, t)) :
                Append(q, t)[i] = t \/ \E j \in 1..Len(q) : Append(q, t)[i] = q[j]
           /\ NoAccept(q) /\ t.fn \notin Accepts => NoAccept(Append(q, t))
           /\ Once(q) /\ t.fn \notin Accepts => Once(Append(q, t))
           /\ NoAccept(q) => Once(Append(q, t))
           /\ ~NoAccept(q) \/ t.fn \in Accepts => ~NoAccept(Append(q, t))
<1>1. /\ Append(q, t) \in Seq(Tasks)
      /\ Len(q) \in Nat /\ Len(Append(q, t)) = Len(q) + 1
      /\ \A i \in 1..Len(q) : Append(q, t)[i] = q[i]
      /\ Append(q, t)[Len(q) + 1] = t
  BY AppendProperties, LenProperties
<1>2. \A i \in 1..Len(Append(q, t)) : i \in 1..Len(q) \/ i = Len(q) + 1
  BY <1>1
<1>3. \A i \in 1..Len(q) : i \in 1..Len(Append(q, t))
  BY <1>1
<1>4. Len(q) + 1 \in 1..Len(Append(q, t))
  BY <1>1
<1>5. \A i \in 1..Len(Append(q, t)) :
        Append(q, t)[i] = t \/ \E j \in 1..Len(q) : Append(q, t)[i] = q[j]
  BY <1>1, <1>2
<1>6. NoAccept(q) /\ t.fn \notin Accepts => NoAccept(Append(q, t))
  BY <1>5 DEF NoAccept
<1>7. Once(q) /\ t.fn \notin Accepts => Once(Append(q, t))
  BY <1>1, <1>2 DEF Once
<1>8. NoAccept(q) => Once(Append(q, t))
  BY <1>1, <1>2 DEF Once, NoAccept
<1>9. ~NoAccept(q) \/ t.fn \in Accepts => ~NoAccept(Append(q, t))
  BY <1>1, <1>3, <1>4 DEF NoAccept
<1> QED
  BY <1>1, <1>5, <1>6, <1>7, <1>8, <1>9

LEMMA EmptyTasks ==
    <<>> \in Seq(Tasks) /\ NoAccept(<<>>) /\ Once(<<>>)
BY DEF NoAccept, Once

\* What the server's and the users' state keeps in every step.
LEMMA Frame ==
    ASSUME [Next]_vars
    PROVE  /\ asked \subseteq asked'
           /\ owner \notin {"new", "started"} => owner' \notin {"new", "started"}
           /\ list' = list \/ DropStep
           /\ held' = held \/ GetConnectionCopy \/ Release
           /\ owner' = owner \/ Start \/ StopService \/ StopJoin \/ StopReturn \/ Destroy
           /\ UNCHANGED <<io, accepting, fresh>>
              \/ Start \/ Run_io_service \/ accept_ok \/ accept_start \/ accept_failed
              \/ accept_delay \/ RunReturns \/ PeerConnects \/ AcceptFails
<1> USE DEF serverVars, userVars, Untouched
<1>1. CASE QuietStep
  BY <1>1 DEF QuietStep, Start, StopService, StopJoin, StopReturn, Destroy, Run_io_service,
     accept_failed, accept_delay, RunReturns, Write, DeleteConnection, GetConnectionFind,
     GetConnectionCopy, PeerConnects, AcceptFails, InUse, vars
<1>2. CASE OwnStep
  BY <1>2 DEF OwnStep, ConnStep, new_connection_handler, ReadFailed, WriteDone, WriteFailed,
     Disconnects, ProcessTerminate, Destructor, StopClose, StopConn, StopJoined,
     PeerCloses, ReadBreaks
<1>3. CASE DropStep
  BY <1>3 DEF DropStep, accept_ok, delete_connection_handler, StopClear, Release
<1>4. CASE accept_start \/ invoke_write_handler \/ AsyncWrite
  BY <1>4 DEF accept_start, invoke_write_handler, AsyncWrite, InUse
<1> QED
  BY <1>1, <1>2, <1>3, <1>4, NextCases

\* A task is queued with what it is queued for.
Posted(t) ==
    \/ t.fn = "write" /\ t.ep \in Endpoints
    \/ /\ t.fn = "delete" /\ t.ep \in Endpoints
       /\ \/ t.ep \in asked'
          \/ \E d \in Conns : conn'[d].remote = t.ep /\ conn'[d].thread = "ended"
    \/ /\ PeerConnects
       /\ t.fn = "accept" /\ t.ep \in Endpoints
       /\ \A c \in Conns : conn[c].remote = t.ep => conn[c].sock # "open"
       /\ \E c \in Conns : conn[c].obj = "none"
    \/ AcceptFails /\ t.fn = "accept_err"

Takes ==
    \/ accept_ok /\ Take("accept")
    \/ accept_failed /\ Take("accept_err")
    \/ delete_connection_handler /\ Take("delete")
    \/ invoke_write_handler /\ Take("write")

LEMMA TaskType ==
    ASSUME NEW fn \in {"accept", "accept_err", "delete", "write"},
           NEW ep \in Endpoints \cup {None}
    PROVE  Task(fn, ep) \in Tasks /\ Task(fn, ep).fn = fn /\ Task(fn, ep).ep = ep
BY DEF Task, Tasks

LEMMA PostStep ==
    ASSUME NEW t \in Tasks, Post(t), Posted(t)
    PROVE  \/ tasks' = tasks
           \/ /\ owner \in {"new", "started"}
              /\ \E u \in Tasks : tasks' = Append(tasks, u) /\ Posted(u)
BY DEF Post

LEMMA TaskSteps ==
    ASSUME IInv, [Next]_vars
    PROVE  \/ tasks' = tasks
           \/ tasks' = <<>> /\ StopService
           \/ Takes
           \/ /\ owner \in {"new", "started"}
              /\ \E t \in Tasks : tasks' = Append(tasks, t) /\ Posted(t)
<1> USE DEF serverVars, userVars, Untouched
<1>1. CASE StopService
  BY <1>1 DEF StopService
<1>2. CASE accept_ok \/ accept_failed \/ delete_connection_handler \/ invoke_write_handler
  BY <1>2, Zenon
  DEF Takes, accept_ok, accept_failed, delete_connection_handler, invoke_write_handler
<1>3. CASE Write
  <2>1. PICK e \in Endpoints : Post(Task("write", e))
    BY <1>3 DEF Write
  <2>2. Posted(Task("write", e))
    BY TaskType DEF Posted
  <2> QED
    BY <2>1, <2>2, PostStep, TaskType
<1>4. CASE DeleteConnection
  <2>1. PICK e \in Endpoints : Post(Task("delete", e)) /\ e \in asked'
    BY <1>4 DEF DeleteConnection
  <2>2. Posted(Task("delete", e))
    BY <2>1, TaskType DEF Posted
  <2> QED
    BY <2>1, <2>2, PostStep, TaskType
<1>5. CASE PeerConnects
  <2>1. PICK e \in Endpoints :
          /\ \A c \in Conns : conn[c].remote = e => conn[c].sock # "open"
          /\ Post(Task("accept", e))
    BY <1>5 DEF PeerConnects
  <2>2. \E c \in Conns : conn[c].obj = "none"
    BY <1>5 DEF PeerConnects
  <2>3. Posted(Task("accept", e))
    BY <1>5, <2>1, <2>2, TaskType DEF Posted
  <2> QED
    BY <2>1, <2>3, PostStep, TaskType
<1>6. CASE AcceptFails
  <2>1. Post(Task("accept_err", None)) /\ Posted(Task("accept_err", None))
    BY <1>6, TaskType DEF AcceptFails, Posted
  <2> QED
    BY <2>1, PostStep, TaskType
<1>7. ASSUME NEW c \in Conns, ProcessTerminate(c), conn[c].obj = "live"
      PROVE  \E ep \in Endpoints : Post(Task("delete", ep)) /\ Posted(Task("delete", ep))
  <2> DEFINE ep == conn[c].remote
  <2>1. ep \in Endpoints
    BY <1>7, SoundConns DEF Sound, Connection
  <2>2. conn[c].thread = "run" /\ Post(Task("delete", ep))
    BY <1>7 DEF ProcessTerminate
  <2>3. conn'[c].remote = ep /\ conn'[c].thread = "ended"
    <3> DEFINE l == [Closed(conn[c]) EXCEPT !.thread = "ended",
                                            !.told = Told(conn[c], "terminated")]
    <3>1. Evolves(conn[c], l) /\ l.thread = "ended"
      BY <2>2, SoundConns, TerminatedEvolves
    <3>2. Set(c, l)
      BY <1>7 DEF ProcessTerminate
    <3> QED
      BY <3>1, <3>2, SoundConns, SetConn DEF Evolves
  <2>4. Posted(Task("delete", ep))
    BY <2>1, <2>3, TaskType DEF Posted
  <2> QED
    BY <2>1, <2>2, <2>4
<1>8. CASE OwnStep
  <2>1. tasks' = tasks \/ \E c \in Conns : ProcessTerminate(c) /\ conn[c].obj = "live"
    BY <1>8 DEF OwnStep, ConnStep, new_connection_handler, ReadFailed, WriteDone, WriteFailed,
       Disconnects, ProcessTerminate, Destructor, StopClose, StopConn, StopJoined,
       PeerCloses, ReadBreaks
  <2> QED
    BY <1>7, <2>1, PostStep, TaskType
<1>9. CASE \/ Start \/ StopJoin \/ StopReturn \/ Destroy
           \/ Run_io_service \/ accept_delay \/ RunReturns
           \/ GetConnectionFind \/ GetConnectionCopy \/ UNCHANGED vars
           \/ StopClear \/ Release \/ accept_start \/ AsyncWrite
  BY <1>9 DEF Start, StopJoin, StopReturn, Destroy, Run_io_service, accept_delay, RunReturns,
     GetConnectionFind, GetConnectionCopy, vars, StopClear, Release, accept_start, AsyncWrite
<1> QED
  BY <1>1, <1>2, <1>3, <1>4, <1>5, <1>6, <1>8, <1>9, NextCases DEF QuietStep, DropStep

-----------------------------------------------------------------------------
(* The invariants, one part at a time *)

LEMMA RemoteKept ==
    ASSUME IInv, [Next]_vars, NEW c \in Conns
    PROVE  /\ conn[c].obj # "none" =>
                /\ Evolves(conn[c], conn'[c])
                /\ conn'[c].remote = conn[c].remote
           /\ conn'[c].obj = "none" => conn[c].obj = "none"
           /\ conn[c].obj = "none" /\ ~accept_ok => conn'[c].obj = "none"
<1>1. Evolves(conn[c], conn'[c]) \/ (accept_ok /\ c = Unused)
  BY ConnSteps
<1>2. CASE Evolves(conn[c], conn'[c])
  BY <1>2 DEF Evolves
<1>3. CASE accept_ok /\ c = Unused
  <2>1. /\ conn[c].obj = "none" /\ conn'[c] = NewConnection(Head(tasks).ep)
        /\ Head(tasks).ep \in Endpoints
    BY <1>3, AcceptStep DEF Accepted
  <2>2. conn'[c].obj = "live"
    BY <2>1, NewType
  <2> QED
    BY <1>3, <2>1, <2>2
<1> QED
  BY <1>1, <1>2, <1>3

\* Every connection stays sound, and what it tells its handler is in order.
LEMMA SoundStep ==
    ASSUME IInv, [Next]_vars, NEW c \in Conns
    PROVE  Sound(conn'[c]) /\ InOrder(conn[c], conn'[c])
<1>1. CASE Evolves(conn[c], conn'[c])
  BY <1>1 DEF Evolves
<1>2. CASE accept_ok /\ c = Unused
  <2>1. /\ conn[c].obj = "none" /\ conn'[c] = NewConnection(Head(tasks).ep)
        /\ Head(tasks).ep \in Endpoints
    BY <1>2, AcceptStep DEF Accepted
  <2>2. Sound(conn'[c]) /\ conn'[c].told = "nothing"
    BY <2>1, NewType
  <2>3. conn[c].told = "nothing"
    BY <2>1, SoundConns DEF Sound
  <2> QED
    BY <2>2, <2>3 DEF InOrder
<1> QED
  BY <1>1, <1>2, ConnSteps

LEMMA ThreadsStep == ASSUME IInv, [Next]_vars PROVE ThreadsOK'
<1>1. \A c \in Conns : Sound(conn'[c])
  BY SoundStep
<1> QED
  BY <1>1 DEF ThreadsOK, Sound, Ordered

LEMMA TasksStep == ASSUME IInv, [Next]_vars PROVE TasksOK' /\ tasks' \in Seq(Tasks)
<1>0. tasks \in Seq(Tasks) /\ TasksOK
  BY DEF IInv, TypeOK
<1>1. CASE tasks' = tasks
  <2>1. StopService => tasks' = <<>>
    BY DEF StopService
  <2>2. ~StopService /\ owner \in {"new", "started"} => owner' \in {"new", "started"}
    BY Frame DEF Start, StopJoin, StopReturn, Destroy
  <2> QED
    BY <1>0, <1>1, <2>1, <2>2 DEF TasksOK
<1>2. CASE tasks' = <<>>
  BY <1>2, EmptyTasks DEF TasksOK
<1>3. CASE Takes
  <2>1. PICK fn : Take(fn)
    BY <1>3 DEF Takes
  <2>2. tasks # <<>> /\ tasks' = Tail(tasks)
    BY <2>1, HeadTask
  <2>3. owner \in {"new", "started"} /\ owner' = owner
    <3>1. owner \in {"new", "started"}
      BY <1>0, <2>2 DEF TasksOK
    <3>2. owner' = owner
      BY <1>3 DEF Takes, accept_ok, accept_failed, delete_connection_handler,
         invoke_write_handler
    <3> QED
      BY <3>1, <3>2
  <2> QED
    BY <1>0, <2>2, <2>3, TailTasks DEF TasksOK
<1>4. ASSUME owner \in {"new", "started"}, NEW t \in Tasks, tasks' = Append(tasks, t), Posted(t)
      PROVE  TasksOK' /\ tasks' \in Seq(Tasks)
  <2>1. t.fn # "accept_err" => t.ep \in Endpoints
    BY <1>4 DEF Posted
  <2>2. tasks' \in Seq(Tasks) /\ tasks' # tasks /\ tasks' # <<>>
    BY <1>0, <1>4, AppendProperties
  <2>3. owner' \in {"new", "started"}
    <3>1. \A fn : ~Take(fn)
      BY <1>0, <1>4, <2>2, HeadTailProperties, LenProperties, AppendProperties DEF Take
    <3>2. ~StopService
      BY <2>2 DEF StopService
    <3>3. owner' = owner \/ Start
      BY <1>4, <3>2, Frame DEF StopJoin, StopReturn, Destroy
    <3> QED
      BY <1>4, <3>3 DEF Start
  <2>4. \A i \in 1..Len(tasks') : tasks'[i].fn # "accept_err" => tasks'[i].ep \in Endpoints
    BY <1>0, <1>4, <2>1, AppendTasks DEF TasksOK
  <2> QED
    BY <2>2, <2>3, <2>4 DEF TasksOK
<1> QED
  BY <1>1, <1>2, <1>3, <1>4, TaskSteps

LEMMA DeleteCauseStep == ASSUME IInv, [Next]_vars PROVE DeleteCause'
<1>0. tasks \in Seq(Tasks)
  BY DEF IInv, TypeOK
<1> DEFINE Caused(t) ==
             \/ t.ep \in asked'
             \/ \E d \in Conns : conn'[d].remote = t.ep /\ conn'[d].thread = "ended"
<1>1. \A i \in 1..Len(tasks) : tasks[i].fn = "delete" => Caused(tasks[i])
  <2> SUFFICES ASSUME NEW i \in 1..Len(tasks), tasks[i].fn = "delete", tasks[i].ep \notin asked
               PROVE  \E d \in Conns : conn'[d].remote = tasks[i].ep /\ conn'[d].thread = "ended"
    BY Frame
  <2>1. PICK d \in Conns : conn[d].remote = tasks[i].ep /\ conn[d].thread = "ended"
    BY DEF IInv, DeleteCause
  <2>2. conn[d].obj # "none"
    BY <2>1, SoundConns DEF Sound
  <2>3. conn'[d].remote = conn[d].remote /\ conn'[d].thread = "ended"
    BY <2>1, <2>2, RemoteKept DEF Evolves
  <2> QED
    BY <2>1, <2>3
<1>2. \A i \in 1..Len(tasks') : tasks'[i].fn = "delete" => Caused(tasks'[i])
  <2>1. CASE tasks' = tasks
    BY <1>1, <2>1
  <2>2. CASE tasks' = <<>>
    BY <2>2
  <2>3. CASE Takes
    <3>1. PICK fn : Take(fn)
      BY <2>3 DEF Takes
    <3>2. \A i \in 1..Len(tasks') : \E j \in 1..Len(tasks) : tasks'[i] = tasks[j]
      BY <1>0, <3>1, HeadTask, TailTasks
    <3> HIDE DEF Caused
    <3> QED
      BY <1>1, <3>2
  <2>4. ASSUME NEW t \in Tasks, tasks' = Append(tasks, t), Posted(t)
        PROVE  \A i \in 1..Len(tasks') : tasks'[i].fn = "delete" => Caused(tasks'[i])
    <3>1. \A i \in 1..Len(tasks') :
            tasks'[i] = t \/ \E j \in 1..Len(tasks) : tasks'[i] = tasks[j]
      BY <1>0, <2>4, AppendTasks
    <3>2. t.fn = "delete" => Caused(t)
      BY <2>4 DEF Posted
    <3> HIDE DEF Caused
    <3> QED
      BY <1>1, <3>1, <3>2
  <2> QED
    BY <2>1, <2>2, <2>3, <2>4, TaskSteps
<1> QED
  BY <1>2 DEF DeleteCause

LEMMA AcceptFreeStep == ASSUME IInv, [Next]_vars PROVE AcceptFree'
<1>0. tasks \in Seq(Tasks) /\ Once(tasks)
  BY DEF IInv, TypeOK, AcceptOnce, Once
<1> DEFINE Free(t) == \A c \in Conns : conn'[c].remote = t.ep => conn'[c].sock # "open"
<1>1. ASSUME ~accept_ok, NEW t,
             \A c \in Conns : conn[c].remote = t.ep => conn[c].sock # "open"
      PROVE  Free(t)
  <2>1. \A c \in Conns : Evolves(conn[c], conn'[c])
    BY <1>1, ConnSteps
  <2> QED
    BY <1>1, <2>1 DEF Evolves
<1>2. ~accept_ok => \A i \in 1..Len(tasks) : tasks[i].fn = "accept" => Free(tasks[i])
  BY <1>1 DEF IInv, AcceptFree
<1>3. CASE tasks' = <<>>
  BY <1>3 DEF AcceptFree
<1>4. CASE accept_ok
  <2>1. tasks' = Tail(tasks) /\ tasks # <<>> /\ Head(tasks).fn \in Accepts
    BY <1>4, HeadTask DEF accept_ok, Accepts
  <2>2. NoAccept(tasks')
    BY <1>0, <2>1, TailTasks
  <2> QED
    BY <2>2 DEF NoAccept, AcceptFree, Accepts
<1>5. CASE tasks' = tasks /\ ~accept_ok
  BY <1>2, <1>5 DEF AcceptFree
<1>6. CASE Takes /\ ~accept_ok
  <2>1. PICK fn : Take(fn)
    BY <1>6 DEF Takes
  <2>2. \A i \in 1..Len(tasks') : \E j \in 1..Len(tasks) : tasks'[i] = tasks[j]
    BY <1>0, <2>1, HeadTask, TailTasks
  <2>3. \A i \in 1..Len(tasks') : tasks'[i].fn = "accept" => Free(tasks'[i])
    <3> HIDE DEF Free
    <3> QED
      BY <1>2, <1>6, <2>2
  <2> QED
    BY <2>3 DEF AcceptFree
<1>7. ASSUME NEW t \in Tasks, tasks' = Append(tasks, t), Posted(t), ~accept_ok
      PROVE  AcceptFree'
  <2>1. \A i \in 1..Len(tasks') :
          tasks'[i] = t \/ \E j \in 1..Len(tasks) : tasks'[i] = tasks[j]
    BY <1>0, <1>7, AppendTasks
  <2>2. t.fn = "accept" => Free(t)
    <3>1. t.fn = "accept" => \A c \in Conns : conn[c].remote = t.ep => conn[c].sock # "open"
      BY <1>7 DEF Posted
    <3> HIDE DEF Free
    <3> QED
      BY <1>1, <1>7, <3>1
  <2>3. \A i \in 1..Len(tasks') : tasks'[i].fn = "accept" => Free(tasks'[i])
    <3> HIDE DEF Free
    <3> QED
      BY <1>2, <1>7, <2>1, <2>2
  <2> QED
    BY <2>3 DEF AcceptFree
<1> QED
  BY <1>3, <1>4, <1>5, <1>6, <1>7, TaskSteps

\* An object to be made is there as long as accept_handler makes none.
LEMMA NoneKept ==
    ASSUME IInv, [Next]_vars, ~accept_ok, \E c \in Conns : conn[c].obj = "none"
    PROVE  \E c \in Conns : conn'[c].obj = "none"
BY RemoteKept

\* Steps that have nothing to do with accepting.
LEMMA AcceptFrame ==
    ASSUME IInv, [Next]_vars, UNCHANGED <<io, accepting, fresh, owner>>,
           ~accept_ok, ~accept_failed, ~PeerConnects, ~AcceptFails, ~StopService
    PROVE  AcceptOnce' /\ KeepsAccepting'
<1>0. /\ tasks \in Seq(Tasks) /\ Once(tasks) /\ AcceptOnce
      /\ KeepsAccepting <=> (io = "run" /\ owner = "started" =>
                               accepting \/ fresh # None \/ ~NoAccept(tasks))
      /\ KeepsAccepting' <=> (io' = "run" /\ owner' = "started" =>
                               accepting' \/ fresh' # None \/ ~NoAccept(tasks'))
  <2>1. tasks \in Seq(Tasks) /\ Once(tasks) /\ AcceptOnce /\ tasks' \in Seq(Tasks)
    BY TasksStep DEF IInv, TypeOK, AcceptOnce, Once
  <2>2. DOMAIN tasks = 1..Len(tasks) /\ DOMAIN tasks' = 1..Len(tasks')
    BY <2>1
  <2> QED
    BY <2>1, <2>2 DEF KeepsAccepting, NoAccept, Accepts
<1>1. /\ Once(tasks')
      /\ NoAccept(tasks) <=> NoAccept(tasks')
      /\ \A i \in 1..Len(tasks') : tasks'[i].fn = "accept" =>
           \E j \in 1..Len(tasks) : tasks[j].fn = "accept"
  <2>1. CASE tasks' = tasks
    BY <1>0, <2>1
  <2>2. CASE Takes
    <3>1. PICK fn : Take(fn) /\ fn \notin Accepts
      BY <2>2 DEF Takes, Accepts
    <3>2. tasks # <<>> /\ tasks' = Tail(tasks) /\ Head(tasks).fn \notin Accepts
      BY <3>1, HeadTask
    <3> QED
      BY <1>0, <3>2, TailTasks
  <2>3. ASSUME NEW t \in Tasks, tasks' = Append(tasks, t), Posted(t)
        PROVE  /\ Once(tasks')
               /\ NoAccept(tasks) <=> NoAccept(tasks')
               /\ \A i \in 1..Len(tasks') : tasks'[i].fn = "accept" =>
                    \E j \in 1..Len(tasks) : tasks[j].fn = "accept"
    <3>1. t.fn \notin Accepts /\ t.fn # "accept"
      BY <2>3 DEF Posted, Accepts
    <3> QED
      BY <1>0, <2>3, <3>1, AppendTasks
  <2> QED
    BY <2>1, <2>2, <2>3, TaskSteps
<1>2. \A i \in 1..Len(tasks') : tasks'[i].fn = "accept" => \E c \in Conns : conn'[c].obj = "none"
  BY <1>0, <1>1, NoneKept DEF AcceptOnce
<1>3. AcceptOnce'
  BY <1>0, <1>1, <1>2 DEF AcceptOnce, Once
<1>4. KeepsAccepting'
  BY <1>0, <1>1 DEF IInv
<1> QED
  BY <1>3, <1>4

\* The steps of an accept: the one there is goes from one place to the next.
LEMMA AcceptOnceStep == ASSUME IInv, [Next]_vars PROVE AcceptOnce' /\ KeepsAccepting'
<1> DEFINE Keeps == io = "run" /\ owner = "started" =>
                      accepting \/ fresh # None \/ ~NoAccept(tasks)
           HasNone == \E c \in Conns : conn[c].obj = "none"
<1>0. /\ tasks \in Seq(Tasks) /\ Once(tasks) /\ AcceptOnce
      /\ KeepsAccepting' <=> Keeps'
  <2>1. tasks \in Seq(Tasks) /\ Once(tasks) /\ AcceptOnce /\ tasks' \in Seq(Tasks)
    BY TasksStep DEF IInv, TypeOK, AcceptOnce, Once
  <2>2. DOMAIN tasks' = 1..Len(tasks')
    BY <2>1
  <2> QED
    BY <2>1, <2>2 DEF KeepsAccepting, NoAccept, Accepts
<1> USE DEF serverVars, userVars
<1>n. NoAccept(tasks) => \A i \in 1..Len(tasks) : tasks[i].fn # "accept"
  BY DEF NoAccept, Accepts
<1>1. CASE Start
  <2>1. /\ io' = "starting" /\ owner' = "started" /\ io = "none"
        /\ UNCHANGED <<accepting, fresh, tasks, conn>>
    BY <1>0, <1>1 DEF Start, AcceptOnce
  <2>2. ~accepting /\ fresh = None /\ NoAccept(tasks)
    BY <1>0, <2>1, Zenon DEF AcceptOnce
  <2> QED
    BY <1>0, <1>n, <2>1, <2>2 DEF AcceptOnce, Once
<1>2. CASE StopService
  <2>1. owner' = "stopping" /\ tasks' = <<>> /\ UNCHANGED <<io, accepting, fresh, conn>>
        /\ owner = "started"
    BY <1>2 DEF StopService
  <2> QED
    BY <1>0, <2>1, EmptyTasks DEF AcceptOnce, Once
<1>3. CASE StopJoin \/ StopReturn \/ Destroy
  <2>1. /\ owner' \in {"clearing", "stopped", "gone"} /\ io = "ended"
        /\ UNCHANGED <<io, accepting, fresh, tasks, conn>>
    BY <1>0, <1>3 DEF StopJoin, StopReturn, Destroy, AcceptOnce
  <2> QED
    BY <1>0, <2>1 DEF AcceptOnce, Once
<1>4. CASE Run_io_service \/ accept_delay
  <2>1. io \in {"starting", "delay"} /\ io' = "run" /\ UNCHANGED <<owner, fresh, tasks, conn>>
    BY <1>4 DEF Run_io_service, accept_delay
  <2>2. accepting'
    BY <1>4, Zenon DEF Run_io_service, accept_delay
  <2>3. fresh = None /\ NoAccept(tasks)
    BY <1>0, <2>1 DEF AcceptOnce
  <2> QED
    BY <1>0, <1>n, <2>1, <2>2, <2>3 DEF AcceptOnce, Once
<1>5. CASE accept_start
  <2>1. fresh # None /\ fresh' = None /\ UNCHANGED <<io, owner, tasks>>
    BY <1>5 DEF accept_start
  <2>2. accepting'
    BY <1>5, Zenon DEF accept_start
  <2>3. io = "run" /\ NoAccept(tasks)
    BY <1>0, <2>1 DEF AcceptOnce
  <2> QED
    BY <1>0, <1>n, <2>1, <2>2, <2>3 DEF AcceptOnce, Once
<1>6. CASE accept_failed
  <2>1. /\ io = "run" /\ fresh = None /\ fresh' = None /\ io' = "delay" /\ UNCHANGED <<owner, conn>>
        /\ tasks # <<>> /\ tasks' = Tail(tasks) /\ Head(tasks).fn \in Accepts
    BY <1>6, HeadTask DEF accept_failed, Accepts
  <2>2. 1 \in 1..Len(tasks) /\ tasks[1] = Head(tasks)
    BY <1>6, HeadTask DEF accept_failed
  <2>3. ~accepting'
    <3>1. ~NoAccept(tasks)
      BY <2>1, <2>2 DEF NoAccept
    <3>2. accepting' = accepting
      BY <1>6 DEF accept_failed
    <3> QED
      BY <1>0, <3>1, <3>2, Zenon DEF AcceptOnce
  <2>4. NoAccept(tasks')
    BY <1>0, <2>1, TailTasks
  <2>5. owner \notin {"new", "clearing", "stopped", "gone"}
    BY <1>0, <2>1 DEF AcceptOnce
  <2>6. Once(tasks') /\ \A i \in 1..Len(tasks') : tasks'[i].fn # "accept"
    BY <2>4 DEF NoAccept, Accepts, Once
  <2> QED
    BY <1>0, <2>1, <2>3, <2>4, <2>5, <2>6 DEF AcceptOnce, Once
<1>7. CASE accept_ok
  <2>1. /\ io = "run" /\ tasks # <<>> /\ tasks' = Tail(tasks) /\ Head(tasks).fn \in Accepts
        /\ 1 \in 1..Len(tasks) /\ tasks[1] = Head(tasks)
    BY <1>7, HeadTask DEF accept_ok, Accepts
  <2>2. fresh' \in Conns /\ fresh' # None /\ UNCHANGED <<io, owner>>
    BY <1>7, AcceptStep, ConnsAssumption DEF Accepted, accept_ok
  <2>3. ~accepting'
    <3>1. ~NoAccept(tasks)
      BY <2>1 DEF NoAccept
    <3>2. accepting' = accepting
      BY <1>7 DEF accept_ok
    <3> QED
      BY <1>0, <3>1, <3>2, Zenon DEF AcceptOnce
  <2>4. NoAccept(tasks')
    BY <1>0, <2>1, TailTasks
  <2>5. Once(tasks') /\ \A i \in 1..Len(tasks') : tasks'[i].fn # "accept"
    BY <2>4 DEF NoAccept, Accepts, Once
  <2> QED
    BY <1>0, <2>1, <2>2, <2>3, <2>4, <2>5 DEF AcceptOnce, Once
<1>8. CASE RunReturns
  <2>1. io' = "ended" /\ fresh = None /\ UNCHANGED <<fresh, owner, tasks, conn>>
        /\ owner \notin {"new", "started"}
    BY <1>8 DEF RunReturns
  <2>2. ~accepting'
    BY <1>8, Zenon DEF RunReturns
  <2>3. tasks = <<>>
    BY <2>1 DEF IInv, TasksOK
  <2> QED
    BY <1>0, <2>1, <2>2, <2>3, EmptyTasks DEF AcceptOnce, Once
<1>9. CASE PeerConnects \/ AcceptFails
  <2>1. /\ accepting /\ ~accepting'
        /\ UNCHANGED <<io, owner, fresh, conn>>
    BY <1>9, Zenon DEF PeerConnects, AcceptFails
  <2>2. fresh = None /\ io = "run" /\ NoAccept(tasks)
    BY <1>0, <2>1, Zenon DEF AcceptOnce
  <2>3. PICK t \in Tasks : Post(t) /\ t.fn \in Accepts /\ (t.fn = "accept" => HasNone)
    BY <1>9, TaskType DEF PeerConnects, AcceptFails, Accepts
  <2>4. CASE owner \in {"new", "started"}
    <3>1. tasks' = Append(tasks, t)
      BY <2>3, <2>4 DEF Post
    <3>2. Once(tasks') /\ ~NoAccept(tasks')
      BY <1>0, <2>2, <2>3, <3>1, AppendTasks
    <3>3. \A i \in 1..Len(tasks') : tasks'[i].fn = "accept" => HasNone
      BY <1>0, <1>n, <2>2, <2>3, <3>1, AppendTasks
    <3>4. owner # "new"
      BY <1>0, <2>2 DEF AcceptOnce
    <3> QED
      BY <1>0, <2>1, <2>2, <3>2, <3>3, <3>4 DEF AcceptOnce, Once
  <2>5. CASE owner \notin {"new", "started"}
    <3>1. tasks' = tasks
      BY <2>3, <2>5 DEF Post
    <3> QED
      BY <1>0, <2>1, <2>2, <2>5, <3>1 DEF AcceptOnce, Once
  <2> QED
    BY <2>4, <2>5
<1>10. CASE /\ UNCHANGED <<io, accepting, fresh, owner>>
            /\ ~accept_ok /\ ~accept_failed /\ ~PeerConnects /\ ~AcceptFails /\ ~StopService
  BY <1>10, AcceptFrame
<1> QED
  BY <1>1, <1>2, <1>3, <1>4, <1>5, <1>6, <1>7, <1>8, <1>9, <1>10, Frame

-----------------------------------------------------------------------------
(* The map and who keeps the connections alive *)

\* Without a reference dropped every connection that is alive stays so.
LEMMA AliveSteps ==
    ASSUME IInv, [Next]_vars, ~DropStep
    PROVE  /\ list' = list
           /\ \A c \in Conns : conn'[c].obj = "live" <=> conn[c].obj = "live"
           /\ \A c \in Conns : conn'[c].remote = conn[c].remote
<1>1. conn' = conn \/ \E c \in Conns, l \in Connection : Becomes(c, l)
  BY NextCases, QuietFrame, OwnBecomes, StartBecomes, WriteBecomes
<1>2. ASSUME NEW c \in Conns, NEW l \in Connection, Becomes(c, l)
      PROVE  /\ \A d \in Conns : conn'[d].obj = "live" <=> conn[d].obj = "live"
             /\ \A d \in Conns : conn'[d].remote = conn[d].remote
  BY <1>2, SoundConns, SetConn DEF Becomes, Evolves
<1> QED
  BY <1>1, <1>2, Frame

LEMMA RemoveSteps ==
    ASSUME IInv, NEW e \in Endpoints, Removes(e)
    PROVE  /\ list[e] \in Conns /\ list'[e] = None
           /\ \A f \in Endpoints : f # e => list'[f] = list[f]
           /\ \A c \in Conns : c # list[e] => conn'[c] = conn[c]
           /\ \A c \in Conns : conn'[c].remote = conn[c].remote /\ conn'[c].sock = conn[c].sock
           /\ conn'[list[e]].obj = IF list[e] \in held THEN "live" ELSE "closing"
<1>1. list \in [Endpoints -> Conns \cup {None}]
  BY DEF IInv, TypeOK
<1>2. /\ list[e] \in Conns /\ conn[list[e]].obj = "live"
      /\ list' = [list EXCEPT ![e] = None] /\ Set(list[e], Unref(list[e], held))
  BY DEF Removes
<1>3. /\ conn'[list[e]] = Unref(list[e], held)
      /\ \A c \in Conns : c # list[e] => conn'[c] = conn[c]
  BY <1>2, SoundConns, SetConn
<1>4. /\ Unref(list[e], held).remote = conn[list[e]].remote
      /\ Unref(list[e], held).sock = conn[list[e]].sock
      /\ Unref(list[e], held).obj = IF list[e] \in held THEN "live" ELSE "closing"
  BY <1>2, SoundConns, UnrefEvolves
<1> QED
  BY <1>1, <1>2, <1>3, <1>4

LEMMA AcceptedSteps ==
    ASSUME IInv, NEW c, NEW ep, Accepted(c, ep)
    PROVE  /\ c \in Conns /\ ep \in Endpoints /\ conn[c].obj = "none"
           /\ list'[ep] = c /\ \A f \in Endpoints : f # ep => list'[f] = list[f]
           /\ conn'[c].obj = "live" /\ conn'[c].remote = ep /\ conn'[c].thread = "none"
           /\ conn'[c].told = "nothing" /\ conn'[c].ready = <<>> /\ ~conn'[c].reading
           /\ \A d \in Conns : d # c => /\ conn'[d].remote = conn[d].remote
                                        /\ conn'[d].sock = conn[d].sock
           /\ \A d \in Conns : d # c /\ d # list[ep] => conn'[d] = conn[d]
           /\ list[ep] # None => /\ list[ep] \in Conns /\ list[ep] # c
                                 /\ conn[list[ep]].remote = ep
                                 /\ conn'[list[ep]].obj =
                                      IF list[ep] \in held THEN "live" ELSE "closing"
<1>1. list \in [Endpoints -> Conns \cup {None}]
  BY DEF IInv, TypeOK
<1>2. /\ c \in Conns /\ conn[c].obj = "none" /\ ep \in Endpoints
      /\ list' = [list EXCEPT ![ep] = c] /\ conn'[c] = NewConnection(ep)
      /\ \A d \in Conns : d # c /\ d # list[ep] => conn'[d] = conn[d]
      /\ list[ep] # None =>
           /\ list[ep] \in Conns /\ list[ep] # c
           /\ conn[list[ep]].obj = "live" /\ conn[list[ep]].remote = ep
           /\ conn'[list[ep]] = Unref(list[ep], held)
  BY DEF Accepted
<1>3. /\ conn'[c].obj = "live" /\ conn'[c].remote = ep /\ conn'[c].thread = "none"
      /\ conn'[c].told = "nothing" /\ conn'[c].ready = <<>>
  BY <1>2, NewType
<1>4. ~conn'[c].reading
  BY <1>2 DEF NewConnection, Unborn
<1>5. list[ep] # None =>
        /\ conn'[list[ep]].remote = conn[list[ep]].remote
        /\ conn'[list[ep]].sock = conn[list[ep]].sock
        /\ conn'[list[ep]].obj = IF list[ep] \in held THEN "live" ELSE "closing"
  BY <1>2, SoundConns, UnrefEvolves
<1>6. \A d \in Conns : d # c => conn'[d].remote = conn[d].remote /\ conn'[d].sock = conn[d].sock
  BY <1>2, <1>5, ConnsAssumption
<1> QED
  BY <1>1, <1>2, <1>3, <1>4, <1>5, <1>6

LEMMA MapStep == ASSUME IInv, [Next]_vars PROVE Accounted' /\ HeldAlive'
<1>0. /\ Accounted /\ HeldAlive
      /\ list \in [Endpoints -> Conns \cup {None}] /\ held \subseteq Conns
      /\ \A c \in Conns : conn[c].obj = "live" => conn[c].remote \in Endpoints
  BY SoundConns DEF IInv, TypeOK, Sound, Connection
<1>1. CASE ~DropStep
  <2>1. held' = held \/ (held' \subseteq held \cup Range(list) /\ held \subseteq held')
    BY <1>1, Frame DEF GetConnectionCopy, DropStep
  <2>2. \A c \in Range(list) : c = None \/ (c \in Conns /\ conn[c].obj = "live")
    BY <1>0 DEF Range, Accounted
  <2>3. None \notin held'
    <3>1. held' # held => GetConnectionCopy
      BY <1>1, Frame DEF DropStep
    <3>2. GetConnectionCopy => getting # None /\ held' \subseteq held \cup {getting}
      BY DEF GetConnectionCopy
    <3> QED
      BY <1>0, <3>1, <3>2, ConnsAssumption
  <2>4. \A c \in held' : c \in Conns /\ conn[c].obj = "live"
    BY <1>0, <2>1, <2>2, <2>3 DEF HeldAlive
  <2>5. HeldAlive'
    BY <1>1, <2>4, AliveSteps DEF HeldAlive
  <2>6. Accounted'
    BY <1>0, <1>1, <2>1, AliveSteps DEF Accounted
  <2> QED
    BY <2>5, <2>6
<1>2. CASE accept_ok
  <2> DEFINE c == Unused  ep == Head(tasks).ep
  <2>1. Accepted(c, ep)
    BY <1>2, AcceptStep
  <2> HIDE DEF c, ep
  <2>2. held' = held
    BY <2>1 DEF Accepted
  <2>3. HeldAlive'
    <3> SUFFICES ASSUME NEW d \in held PROVE conn'[d].obj = "live"
      BY <2>2 DEF HeldAlive
    <3>1. d \in Conns /\ conn[d].obj = "live" /\ d # c /\ d # None
      BY <1>0, <2>1, AcceptedSteps, ConnsAssumption DEF HeldAlive
    <3>2. d # list[ep] => conn'[d] = conn[d]
      BY <2>1, <3>1, AcceptedSteps
    <3>3. d = list[ep] => conn'[d].obj = "live"
      BY <2>1, <3>1, AcceptedSteps
    <3> QED
      BY <3>1, <3>2, <3>3
  <2>4. ASSUME NEW d \in Conns, conn'[d].obj = "live"
        PROVE  d \in held' \/ list'[conn'[d].remote] = d
    <3>1. CASE d = c
      BY <2>1, <3>1, AcceptedSteps
    <3>2. CASE d # c /\ d = list[ep]
      BY <2>1, <2>2, <2>4, <3>2, AcceptedSteps, ConnsAssumption
    <3>3. CASE d # c /\ d # list[ep]
      <4>1. conn'[d] = conn[d]
        BY <2>1, <3>3, AcceptedSteps
      <4>2. d \in held \/ (list[conn[d].remote] = d /\ conn[d].remote \in Endpoints)
        BY <1>0, <2>4, <4>1 DEF Accounted
      <4> QED
        BY <2>1, <2>2, <3>3, <4>1, <4>2, AcceptedSteps
    <3> QED
      BY <3>1, <3>2, <3>3
  <2>5. ASSUME NEW e \in Endpoints, list'[e] # None
        PROVE  conn'[list'[e]].obj = "live" /\ conn'[list'[e]].remote = e
    <3>1. CASE e = ep
      BY <2>1, <3>1, AcceptedSteps
    <3>2. CASE e # ep
      <4>1. list'[e] = list[e]
        BY <2>1, <3>2, AcceptedSteps
      <4>2. list[e] \in Conns /\ conn[list[e]].obj = "live" /\ conn[list[e]].remote = e
        BY <1>0, <2>5, <4>1 DEF Accounted
      <4>3. list[e] # c /\ list[e] # list[ep]
        BY <2>1, <3>2, <4>2, AcceptedSteps, ConnsAssumption
      <4>4. conn'[list[e]] = conn[list[e]]
        BY <2>1, <4>2, <4>3, AcceptedSteps
      <4> QED
        BY <4>1, <4>2, <4>4
    <3> QED
      BY <3>1, <3>2
  <2> QED
    BY <2>3, <2>4, <2>5 DEF Accounted
<1>3. ASSUME NEW e \in Endpoints, Removes(e) PROVE Accounted' /\ HeldAlive'
  <2>1. held' = held
    BY <1>3 DEF Removes
  <2>2. HeldAlive'
    BY <1>0, <1>3, <2>1, RemoveSteps DEF HeldAlive
  <2>3. ASSUME NEW d \in Conns, conn'[d].obj = "live"
        PROVE  d \in held' \/ list'[conn'[d].remote] = d
    <3>1. CASE d = list[e]
      BY <1>3, <2>1, <2>3, <3>1, RemoveSteps
    <3>2. CASE d # list[e]
      <4>1. conn'[d] = conn[d]
        BY <1>3, <3>2, RemoveSteps
      <4>2. d \in held \/ (list[conn[d].remote] = d /\ conn[d].remote \in Endpoints)
        BY <1>0, <2>3, <4>1 DEF Accounted
      <4> QED
        BY <1>3, <2>1, <3>2, <4>1, <4>2, RemoveSteps
    <3> QED
      BY <3>1, <3>2
  <2>4. ASSUME NEW f \in Endpoints, list'[f] # None
        PROVE  conn'[list'[f]].obj = "live" /\ conn'[list'[f]].remote = f
    <3>1. f # e /\ list'[f] = list[f]
      BY <1>3, <2>4, RemoveSteps
    <3>2. list[f] \in Conns /\ conn[list[f]].obj = "live" /\ conn[list[f]].remote = f
      BY <1>0, <2>4, <3>1 DEF Accounted
    <3>3. list[f] # list[e]
      BY <1>3, <3>1, <3>2 DEF Removes
    <3> QED
      BY <1>3, <3>1, <3>2, <3>3, RemoveSteps
  <2> QED
    BY <2>2, <2>3, <2>4 DEF Accounted
<1>4. CASE delete_connection_handler
  <2>1. CASE UNCHANGED <<conn, list, held>>
    BY <1>0, <2>1 DEF Accounted, HeldAlive
  <2>2. CASE Removes(Head(tasks).ep)
    <3>1. Head(tasks).ep \in Endpoints
      BY <1>4, HeadTask DEF delete_connection_handler
    <3> QED
      BY <1>3, <2>2, <3>1
  <2> QED
    BY <1>4, <2>1, <2>2, DeleteRemoves
<1>5. CASE StopClear
  BY <1>3, <1>5, ClearRemoves
<1>6. CASE Release
  <2>1. PICK c \in held :
          /\ c \in Conns /\ conn[c].obj = "live"
          /\ held' = held \ {c}
          /\ Set(c, IF c \in Range(list) THEN conn[c] ELSE Unref(c, {}))
          /\ UNCHANGED <<list, fresh, asked>>
    BY <1>6, ReleaseStep
  <2>2. \A d \in Conns : d # c => conn'[d] = conn[d]
    BY <2>1, SoundConns, SetConn
  <2>3. c \in Range(list) => conn'[c] = conn[c] /\ list[conn[c].remote] = c
    <3>1. c \in Range(list) => conn'[c] = conn[c]
      BY <2>1, SoundConns, SetConn
    <3>2. c \in Range(list) => \E e \in Endpoints : list[e] = c
      BY <1>0 DEF Range
    <3>3. c # None
      BY <2>1, ConnsAssumption
    <3> QED
      BY <1>0, <3>1, <3>2, <3>3 DEF Accounted
  <2>4. c \notin Range(list) => conn'[c].obj = "closing" /\ \A e \in Endpoints : list[e] # c
    <3>1. c \notin Range(list) => conn'[c] = Unref(c, {})
      BY <2>1, SoundConns, SetConn
    <3>2. Unref(c, {}).obj = "closing"
      BY <2>1, SoundConns, UnrefEvolves
    <3>3. \A e \in Endpoints : list[e] \in Range(list)
      BY <1>0 DEF Range
    <3> QED
      BY <3>1, <3>2, <3>3
  <2>5. HeldAlive'
    BY <1>0, <2>1, <2>2 DEF HeldAlive
  <2>6. Accounted'
    BY <1>0, <2>1, <2>2, <2>3, <2>4 DEF Accounted
  <2> QED
    BY <2>5, <2>6
<1> QED
  BY <1>1, <1>2, <1>4, <1>5, <1>6 DEF DropStep

\* What accept_handler has made and not started yet stays in the map, with no
\* thread, until accept_handler starts it.
LEMMA FreshStep == ASSUME IInv, [Next]_vars PROVE FreshOK'
<1> DEFINE Kept(k, l) ==
             /\ l.obj = k.obj /\ l.remote = k.remote
             /\ l.thread = k.thread /\ l.told = k.told
             /\ k.reading \/ ~l.reading
             /\ ~l.early => ~k.early /\ l.ready = k.ready
<1>0. /\ fresh \in Conns \cup {None} /\ list \in [Endpoints -> Conns \cup {None}]
      /\ fresh # None =>
           /\ fresh \in Conns /\ conn[fresh].obj = "live" /\ conn[fresh].thread = "none"
           /\ list[conn[fresh].remote] = fresh /\ conn[fresh].remote \in Endpoints
           /\ fresh \in Range(list)
  <2>1. fresh \in Conns \cup {None} /\ list \in [Endpoints -> Conns \cup {None}]
    BY DEF IInv, TypeOK
  <2>2. fresh # None => /\ conn[fresh].obj = "live" /\ list[conn[fresh].remote] = fresh
                        /\ conn[fresh].thread = "none" /\ ~conn[fresh].reading
    BY DEF IInv, FreshOK
  <2>3. fresh # None => conn[fresh].remote \in Endpoints
    BY <2>1, <2>2, SoundConns DEF Sound, Connection
  <2> QED
    BY <2>1, <2>2, <2>3 DEF Range
<1>1. ASSUME fresh' = fresh, list' = list, fresh # None => Kept(conn[fresh], conn'[fresh])
      PROVE  FreshOK'
  BY <1>1 DEF IInv, FreshOK
<1>2. CASE QuietStep
  <2>1. UNCHANGED <<conn, list, fresh>>
    BY <1>2, QuietFrame
  <2> QED
    BY <2>1 DEF IInv, FreshOK
<1>3. CASE OwnStep
  <2>1. PICK c \in Conns : ConnStep(c) \/ Destructor(c) \/ PeerCloses(c) \/ ReadBreaks(c)
    BY <1>3 DEF OwnStep
  <2>2. \A d \in Conns : d # c => conn'[d] = conn[d]
    BY <2>1, SoundConns, SetConn
    DEF ConnStep, new_connection_handler, ReadFailed, WriteDone, WriteFailed, Disconnects,
        ProcessTerminate, Destructor, StopClose, StopConn, StopJoined, PeerCloses, ReadBreaks
  <2>3. c = fresh => PeerCloses(c)
    <3> SUFFICES ASSUME c = fresh PROVE PeerCloses(c)
      OBVIOUS
    <3>1. /\ conn[c].thread = "none" /\ conn[c].obj = "live" /\ ~conn[c].reading
      <4>1. fresh # None
        BY ConnsAssumption
      <4> QED
        BY <4>1 DEF IInv, FreshOK
    <3>2. ~ConnStep(c)
      BY <3>1 DEF ConnStep, new_connection_handler, ReadFailed, WriteDone, WriteFailed,
         Disconnects, ProcessTerminate, Handle
    <3>3. ~Destructor(c)
      BY <3>1 DEF Destructor, StopClose, StopConn, StopJoined
    <3>4. ~ReadBreaks(c)
      BY <3>1, Zenon DEF ReadBreaks
    <3> QED
      BY <2>1, <3>2, <3>3, <3>4
  <2>4. c = fresh => Kept(conn[fresh], conn'[fresh])
    <3> SUFFICES ASSUME c = fresh PROVE Kept(conn[c], conn'[c])
      OBVIOUS
    <3>1. conn'[c] = [conn[c] EXCEPT !.sock = "dropped"] /\ conn[c] \in Connection
      BY <2>3, SoundConns, SetConn DEF PeerCloses, Sound
    <3> QED
      BY <3>1 DEF Connection
  <2>5. list' = list /\ fresh' = fresh
    BY <2>1 DEF ConnStep, new_connection_handler, ReadFailed, WriteDone, WriteFailed, Disconnects,
       ProcessTerminate, Destructor, StopClose, StopConn, StopJoined, PeerCloses, ReadBreaks,
       Untouched, serverVars
  <2> QED
    BY <1>0, <1>1, <2>2, <2>4, <2>5
<1>4. CASE accept_start
  BY <1>4, ConnsAssumption DEF accept_start, FreshOK
<1>5. CASE invoke_write_handler \/ delete_connection_handler
  <2>1. fresh = None
    BY <1>5 DEF invoke_write_handler, delete_connection_handler, Take
  <2>2. fresh' = fresh
    BY <1>5 DEF invoke_write_handler, delete_connection_handler
  <2> QED
    BY <2>1, <2>2 DEF FreshOK
<1>6. CASE StopClear
  <2>1. owner = "clearing" /\ fresh' = fresh
    BY <1>6 DEF StopClear
  <2>2. fresh = None
    BY <2>1 DEF IInv, AcceptOnce
  <2> QED
    BY <2>1, <2>2 DEF FreshOK
<1>7. CASE accept_ok
  BY <1>7, AcceptStep, AcceptedSteps DEF FreshOK, Accepted
<1>8. CASE AsyncWrite
  <2>1. PICK c \in held :
          Set(c, [Queue(conn[c], "write") EXCEPT !.early = @ \/ conn[c].thread = "none"])
    BY <1>8 DEF AsyncWrite
  <2>2. list' = list /\ fresh' = fresh
    BY <1>8 DEF AsyncWrite, serverVars
  <2>3. c \in Conns
    BY DEF IInv, TypeOK
  <2> DEFINE k == conn[c]
             q == Queue(k, "write")
             l == [q EXCEPT !.early = q.early \/ k.thread = "none"]
  <2>4. conn'[c] = l /\ \A d \in Conns : d # c => conn'[d] = conn[d]
    BY <2>1, <2>3, SoundConns, SetConn
  <2>5. ASSUME c = fresh PROVE Kept(k, l)
    <3>1. k \in Connection /\ k.thread = "none"
      BY <1>0, <2>3, <2>5, SoundConns, ConnsAssumption
    <3>2. Append(k.ready, "write") \in Seq(Handlers)
      BY <3>1, RecordQueue DEF Handlers
    <3>3. /\ q \in Connection /\ q.obj = k.obj /\ q.remote = k.remote /\ q.thread = k.thread
          /\ q.told = k.told /\ q.reading = k.reading
      BY <3>1, <3>2 DEF Queue, Connection, Handlers
    <3> HIDE DEF k, q
    <3>4. /\ l.obj = q.obj /\ l.remote = q.remote /\ l.thread = q.thread
          /\ l.told = q.told /\ l.reading = q.reading /\ l.early = TRUE
      BY <3>1, <3>3 DEF Connection
    <3> QED
      BY <3>3, <3>4
  <2> QED
    BY <1>0, <1>1, <2>2, <2>4, <2>5
<1>9. CASE Release
  <2>1. PICK c \in held :
          /\ c \in Conns
          /\ Set(c, IF c \in Range(list) THEN conn[c] ELSE Unref(c, {}))
          /\ UNCHANGED <<list, fresh>>
    BY <1>9, ReleaseStep
  <2>2. \A d \in Conns : d \in Range(list) => conn'[d] = conn[d]
    BY <2>1, SoundConns, SetConn
  <2> QED
    BY <1>0, <1>1, <2>1, <2>2
<1> QED
  BY <1>2, <1>3, <1>4, <1>5, <1>6, <1>7, <1>8, <1>9, NextCases DEF DropStep

-----------------------------------------------------------------------------
(* What a connection may be destroyed for *)

\* The entry of a connection that still has its peer goes only for a cause.
LEMMA EntryGoes ==
    ASSUME IInv, [Next]_vars, NEW c \in Conns, conn[c].obj = "live", conn[c].sock = "open",
           list[conn[c].remote] = c
    PROVE  \/ list'[conn[c].remote] = c
           \/ owner = "clearing" /\ owner' = owner
           \/ conn[c].remote \in asked
           \/ \E d \in Conns \ {c} : conn[d].remote = conn[c].remote
<1> DEFINE r == conn[c].remote
<1>0. r \in Endpoints
  BY SoundConns DEF Sound, Connection
<1>1. CASE list' = list
  BY <1>1
<1>2. CASE accept_ok
  <2>1. Accepted(Unused, Head(tasks).ep)
    BY <1>2, AcceptStep
  <2>2. 1 \in 1..Len(tasks) /\ tasks[1] = Head(tasks) /\ Head(tasks).fn = "accept"
    BY <1>2, HeadTask DEF accept_ok
  <2>3. r # Head(tasks).ep
    BY <2>2 DEF IInv, AcceptFree
  <2>4. list'[r] = list[r]
    BY <1>0, <2>1, <2>3, AcceptedSteps
  <2> QED
    BY <2>4
<1>3. CASE delete_connection_handler
  <2> DEFINE e == Head(tasks).ep
  <2>1. /\ 1 \in 1..Len(tasks) /\ tasks[1] = Head(tasks) /\ Head(tasks).fn = "delete"
        /\ e \in Endpoints
    BY <1>3, HeadTask DEF delete_connection_handler
  <2>2. list' = list \/ Removes(e)
    BY <1>3, DeleteRemoves
  <2>3. r # e => list'[r] = list[r]
    BY <1>0, <2>1, <2>2, RemoveSteps
  <2>4. e \in asked \/ \E d \in Conns : conn[d].remote = e /\ conn[d].thread = "ended"
    BY <2>1 DEF IInv, DeleteCause
  <2>5. conn[c].thread # "ended"
    BY SoundConns DEF Sound
  <2> QED
    BY <2>3, <2>4, <2>5
<1>4. CASE StopClear
  BY <1>4, ClearRemoves
<1>5. CASE Release
  BY <1>5 DEF Release, serverVars
<1> QED
  BY <1>1, <1>2, <1>3, <1>4, <1>5, Frame DEF DropStep

LEMMA RemovedCauseStep == ASSUME IInv, [Next]_vars PROVE RemovedCause'
<1> SUFFICES ASSUME NEW c \in Conns, conn'[c].obj = "live", conn'[c].sock = "open"
             PROVE  \/ list'[conn'[c].remote] = c
                    \/ owner' \notin {"new", "started"}
                    \/ conn'[c].remote \in asked'
                    \/ \E d \in Conns \ {c} : conn'[d].remote = conn'[c].remote
  BY DEF RemovedCause
<1>1. CASE conn[c].obj = "none"
  <2>1. accept_ok /\ c = Unused
    BY <1>1, ConnSteps DEF Evolves
  <2> QED
    BY <2>1, AcceptStep, AcceptedSteps
<1>2. CASE conn[c].obj # "none"
  <2>1. conn[c].obj = "live" /\ conn[c].sock = "open" /\ conn'[c].remote = conn[c].remote
    BY <1>2, RemoteKept DEF Evolves
  <2>2. conn[c].remote # None
    BY <1>2, SoundConns DEF Sound
  <2>3. ASSUME NEW d \in Conns \ {c}, conn[d].remote = conn[c].remote
        PROVE  conn'[d].remote = conn'[c].remote
    <3>1. conn[d].obj # "none"
      BY <2>2, <2>3, SoundConns DEF Sound
    <3> QED
      BY <2>1, <2>3, <3>1, RemoteKept
  <2>4. \/ list'[conn[c].remote] = c
        \/ owner' \notin {"new", "started"}
        \/ conn[c].remote \in asked
        \/ \E d \in Conns \ {c} : conn[d].remote = conn[c].remote
    <3>1. \/ list[conn[c].remote] = c
          \/ owner \notin {"new", "started"}
          \/ conn[c].remote \in asked
          \/ \E d \in Conns \ {c} : conn[d].remote = conn[c].remote
      BY <2>1 DEF IInv, RemovedCause
    <3>2. CASE list[conn[c].remote] = c
      BY <2>1, <3>2, EntryGoes
    <3> QED
      BY <3>1, <3>2, Frame
  <2> QED
    BY <2>1, <2>3, <2>4, Frame
<1> QED
  BY <1>1, <1>2

\* The step of DestroyedForCause.
LEMMA DestroyStep ==
    ASSUME IInv, [Next]_vars, NEW c \in Conns,
           conn[c].obj = "live", conn[c].sock = "open", conn'[c].obj = "closing"
    PROVE  \/ owner # "started"
           \/ conn[c].remote \in asked
           \/ \E d \in Conns \ {c} : conn[d].remote = conn[c].remote
<1>0. /\ conn[c].remote \in Endpoints /\ c # None
      /\ list \in [Endpoints -> Conns \cup {None}]
  BY SoundConns, ConnsAssumption DEF Sound, Connection, IInv, TypeOK
<1>1. DropStep
  BY AliveSteps
<1>2. CASE list[conn[c].remote] # c
  BY <1>2 DEF IInv, RemovedCause
<1>3. CASE list[conn[c].remote] = c
  <2>1. list'[conn[c].remote] # c
    <3>1. Accounted'
      BY MapStep
    <3>2. list'[conn[c].remote] # c \/ conn'[c].obj = "live"
      BY <1>0, <3>1 DEF Accounted
    <3> QED
      BY <3>2
  <2> QED
    BY <1>3, <2>1, EntryGoes
<1> QED
  BY <1>2, <1>3

-----------------------------------------------------------------------------
(* The type invariant *)

\* The actions that change what Frame says nothing of.
LEMMA RestFrame ==
    ASSUME [Next]_vars
    PROVE  /\ victim' \in {victim, None} \/ DropStep
           /\ getting' \in {getting, None} \/ GetConnectionFind \/ accept_ok
           /\ calls' = calls \/ InUse
           /\ gets' = gets \/ GetConnectionFind
           /\ asked' = asked \/ DeleteConnection
<1> USE DEF serverVars, userVars, Untouched
<1>1. CASE QuietStep
  BY <1>1 DEF QuietStep, Start, StopService, StopJoin, StopReturn, Destroy, Run_io_service,
     accept_failed, accept_delay, RunReturns, Write, DeleteConnection, GetConnectionFind,
     GetConnectionCopy, PeerConnects, AcceptFails, vars
<1>2. CASE OwnStep
  BY <1>2 DEF OwnStep, ConnStep, new_connection_handler, ReadFailed, WriteDone, WriteFailed,
     Disconnects, ProcessTerminate, Destructor, StopClose, StopConn, StopJoined,
     PeerCloses, ReadBreaks
<1>3. CASE DropStep
  BY <1>3 DEF DropStep, accept_ok, delete_connection_handler, StopClear, Release
<1>4. CASE accept_start \/ invoke_write_handler \/ AsyncWrite
  BY <1>4 DEF accept_start, invoke_write_handler, AsyncWrite
<1> QED
  BY <1>1, <1>2, <1>3, <1>4, NextCases

LEMMA BrokenType == ASSUME IInv, [Next]_vars PROVE broken' \in BOOLEAN
<1>0. broken \in BOOLEAN
  BY DEF IInv, TypeOK
<1> USE DEF serverVars, userVars, Untouched
<1>1. CASE QuietStep
  BY <1>0, <1>1, Zenon
  DEF QuietStep, Start, StopService, StopJoin, StopReturn, Destroy, Run_io_service,
     accept_failed, accept_delay, RunReturns, Write, DeleteConnection, GetConnectionFind,
     GetConnectionCopy, PeerConnects, AcceptFails, vars
<1>2. CASE OwnStep
  BY <1>0, <1>2, Zenon
  DEF OwnStep, ConnStep, new_connection_handler, ReadFailed, WriteDone, WriteFailed,
     Disconnects, ProcessTerminate, Destructor, StopClose, StopConn, StopJoined,
     PeerCloses, ReadBreaks
<1>3. CASE DropStep
  BY <1>0, <1>3, Zenon DEF DropStep, accept_ok, delete_connection_handler, StopClear, Release
<1>4. CASE accept_start \/ invoke_write_handler \/ AsyncWrite
  BY <1>0, <1>4, Zenon DEF accept_start, invoke_write_handler, AsyncWrite
<1> QED
  BY <1>1, <1>2, <1>3, <1>4, NextCases

LEMMA AcceptingType == ASSUME IInv, [Next]_vars PROVE accepting' \in BOOLEAN
<1>0. accepting \in BOOLEAN
  BY DEF IInv, TypeOK
<1> QED
  BY <1>0, Frame, Zenon
  DEF Start, Run_io_service, accept_ok, accept_start, accept_failed, accept_delay, RunReturns,
      PeerConnects, AcceptFails

LEMMA MapType ==
    ASSUME IInv, [Next]_vars
    PROVE  list' \in [Endpoints -> Conns \cup {None}] /\ victim' \in Conns \cup {None}
<1>0. list \in [Endpoints -> Conns \cup {None}] /\ victim \in Conns \cup {None}
  BY DEF IInv, TypeOK
<1>1. CASE ~DropStep
  BY <1>0, <1>1, Frame, RestFrame
<1>2. CASE accept_ok
  <2>1. Accepted(Unused, Head(tasks).ep)
    BY <1>2, AcceptStep
  <2>2. Head(tasks).ep \in Endpoints /\ Unused \in Conns
        /\ list' = [list EXCEPT ![Head(tasks).ep] = Unused]
    BY <2>1 DEF Accepted
  <2>3. victim' = IF list[Head(tasks).ep] = None THEN None ELSE Victim(list[Head(tasks).ep])
    BY <1>2 DEF accept_ok
  <2> QED
    BY <1>0, <2>2, <2>3 DEF Victim
<1>3. CASE delete_connection_handler
  <2>1. Head(tasks).ep \in Endpoints
    BY <1>3, HeadTask DEF delete_connection_handler
  <2> QED
    BY <1>0, <1>3, <2>1 DEF delete_connection_handler, Victim
<1>4. CASE StopClear
  BY <1>0, <1>4 DEF StopClear, Victim
<1>5. CASE Release
  BY <1>0, <1>5 DEF Release, serverVars
<1> QED
  BY <1>1, <1>2, <1>3, <1>4, <1>5 DEF DropStep

LEMMA TypeStep == ASSUME IInv, [Next]_vars PROVE TypeOK'
<1>0. TypeOK
  BY DEF IInv
<1>1. owner' \in {"new", "started", "stopping", "clearing", "stopped", "gone"}
  BY <1>0, Frame DEF TypeOK, Start, StopService, StopJoin, StopReturn, Destroy
<1>2. io' \in {"none", "starting", "run", "delay", "ended"}
  BY <1>0, Frame
  DEF TypeOK, Start, Run_io_service, accept_ok, accept_start, accept_failed, accept_delay,
      RunReturns, PeerConnects, AcceptFails
<1>3. fresh' \in Conns \cup {None}
  <2>1. accept_ok => fresh' \in Conns
    BY AcceptStep DEF Accepted
  <2> QED
    BY <1>0, <2>1, Frame
    DEF TypeOK, Start, Run_io_service, accept_start, accept_failed, accept_delay,
        RunReturns, PeerConnects, AcceptFails, serverVars
<1>4. getting' \in Conns \cup {None}
  <2>1. accept_ok => Unused \in Conns
    BY AcceptStep DEF Accepted
  <2>2. accept_ok => getting' \in {getting, Unused}
    BY DEF accept_ok
  <2> QED
    BY <1>0, <2>1, <2>2, RestFrame DEF TypeOK, GetConnectionFind
<1>5. /\ conn' \in [Conns -> Connection]
      /\ \A c \in Conns : conn'[c].remote = None <=> conn'[c].obj = "none"
  BY ConnSteps, SoundStep DEF Sound
<1>6. held' \subseteq Conns
  <2>1. GetConnectionCopy => held' \subseteq held \cup {getting} /\ getting # None
    BY DEF GetConnectionCopy
  <2>2. Release => held' \subseteq held
    BY DEF Release
  <2> QED
    BY <1>0, <2>1, <2>2, Frame DEF TypeOK
<1>7. asked' \subseteq Endpoints
  BY <1>0, RestFrame DEF TypeOK, DeleteConnection
<1>8. calls' \in 0..MaxCalls /\ gets' \in 0..MaxGets
  <2>1. calls \in 0..MaxCalls /\ gets \in 0..MaxGets
    BY <1>0 DEF TypeOK
  <2>2. calls' = calls \/ (calls < MaxCalls /\ calls' = calls + 1)
    BY RestFrame DEF InUse
  <2>3. gets' = gets \/ (gets < MaxGets /\ gets' = gets + 1)
    BY RestFrame DEF GetConnectionFind
  <2> QED
    BY <2>1, <2>2, <2>3, BoundAssumption
<1> QED
  BY <1>1, <1>2, <1>3, <1>4, <1>5, <1>6, <1>7, <1>8, TasksStep, MapType, BrokenType,
     AcceptingType DEF TypeOK

-----------------------------------------------------------------------------
(* The theorems *)

LEMMA InitInv == ASSUME Init PROVE IInv
<1>1. Unborn \in Connection /\ <<>> \in Seq(Tasks)
  BY EmptySeq DEF Unborn, Connection
<1>2. /\ owner = "new" /\ io = "none" /\ tasks = <<>> /\ ~accepting
      /\ list = [e \in Endpoints |-> None] /\ conn = [c \in Conns |-> Unborn]
      /\ fresh = None /\ held = {}
      /\ Unborn.obj = "none" /\ Unborn.thread = "none" /\ Unborn.remote = None
      /\ Unborn.sock = "closed" /\ Unborn.told = "nothing"
  BY DEF Init, Unborn
<1>3. TypeOK
  <2>1. accepting \in BOOLEAN /\ broken \in BOOLEAN
    BY Zenon DEF Init
  <2>2. calls \in 0..MaxCalls /\ gets \in 0..MaxGets
    BY BoundAssumption DEF Init
  <2>3. victim = None /\ getting = None /\ asked = {}
    BY DEF Init
  <2> QED
    BY <1>1, <1>2, <2>1, <2>2, <2>3 DEF TypeOK
<1>4. Accounted /\ KeepsAccepting /\ HeldAlive /\ FreshOK /\ RemovedCause
  BY <1>2 DEF Accounted, KeepsAccepting, HeldAlive, FreshOK, RemovedCause
<1>5. AcceptOnce /\ TasksOK /\ AcceptFree /\ DeleteCause
  BY <1>2 DEF AcceptOnce, NoAccept, TasksOK, AcceptFree, DeleteCause
<1>6. ThreadsOK
  BY <1>2 DEF ThreadsOK, Ordered
<1> QED
  BY <1>3, <1>4, <1>5, <1>6 DEF IInv

LEMMA StepInv == ASSUME IInv, [Next]_vars PROVE IInv'
BY TypeStep, MapStep, AcceptOnceStep, TasksStep, FreshStep, ThreadsStep, AcceptFreeStep,
   DeleteCauseStep, RemovedCauseStep DEF IInv

\* The inductive invariant holds of every behaviour, for any sets of connections
\* and endpoints and any number of calls.
THEOREM Inductive == Spec => []IInv
BY InitInv, StepInv, PTL DEF Spec

\* Every variable keeps its type; the queues of the server's and of every
\* connection's io_service, of whatever length, hold nothing but their handlers.
THEOREM TypeCorrect == Spec => []TypeOK
<1>1. IInv => TypeOK
  BY DEF IInv
<1> QED
  BY <1>1, Inductive, PTL

\* No connection is lost: m_connections holds, each under its own endpoint,
\* exactly the connections that live, but for those only a user's pointer keeps.
THEOREM NothingLost == Spec => []Accounted
<1>1. IInv => Accounted
  BY DEF IInv
<1> QED
  BY <1>1, Inductive, PTL

\* The server that has not been stopped always has an accept outstanding, queued
\* or in its handler, whatever becomes of the accepts before it.
THEOREM AlwaysAccepts == Spec => []KeepsAccepting
<1>1. IInv => KeepsAccepting
  BY DEF IInv
<1> QED
  BY <1>1, Inductive, PTL

\* A connection's handler is told OnNewConnection first, OnDisconnect after it,
\* OnTerminate last, and nothing once the thread has ended, unless a user wrote
\* to the connection before accept_handler had started it.
THEOREM CallbacksInOrder == Spec => CallbackOrder
<1> DEFINE Step == \A c \in Conns : ~conn'[c].early =>
               /\ conn[c].told = "nothing" => conn'[c].told \in {"nothing", "new", "terminated"}
               /\ conn[c].told = "new" => conn'[c].told # "nothing"
               /\ conn[c].told = "disconnected" =>
                    conn'[c].told \in {"disconnected", "terminated"}
               /\ conn[c].told = "terminated" => conn'[c].told = "terminated"
               /\ conn[c].thread = "ended" => conn'[c].told = conn[c].told
<1>1. IInv /\ [Next]_vars => Step
  BY SoundStep DEF InOrder
<1>2. Spec => [][Step]_vars
  BY <1>1, Inductive, PTL DEF Spec
<1> QED
  BY <1>2 DEF CallbackOrder

\* A connection that still has its peer is destroyed only because the server
\* stops, a user asked for it, or another connection had the same endpoint.
THEOREM DestroyedOnlyForCause == Spec => DestroyedForCause
<1> DEFINE Step == \A c \in Conns :
               conn[c].obj = "live" /\ conn[c].sock = "open" /\ conn'[c].obj = "closing" =>
                 \/ owner # "started"
                 \/ conn[c].remote \in asked
                 \/ \E d \in Conns \ {c} : conn[d].remote = conn[c].remote
<1>1. IInv /\ [Next]_vars => Step
  BY DestroyStep
<1>2. Spec => [][Step]_vars
  BY <1>1, Inductive, PTL DEF Spec
<1> QED
  BY <1>2 DEF DestroyedForCause
=============================================================================
