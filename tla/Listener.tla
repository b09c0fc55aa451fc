------------------------------ MODULE Listener ------------------------------
(***************************************************************************)
(* The bus controller's listener: BC_Listener.start_listening() accepts    *)
(* connections and hands each one to a thread of its own (BC_socket.py),   *)
(* Bus_Controller.start_listener() takes what they received and processes  *)
(* it (BC.py), and stop_listener(), on a thread of its own, ends it all.   *)
(*                                                                         *)
(* A connection is known by its number, in the order they are made, and    *)
(* carries one message; a silent one carries none, or half of one, and is  *)
(* closed after the idle timeout.  A fault of the socket is given by what  *)
(* fails while it lasts: bind() and listen(), or select() and accept().    *)
(***************************************************************************)
EXTENDS Naturals, Sequences, FiniteSets, SequencesExt

CONSTANTS MaxPeers,        \* bound: connections ever made
          MaxConnections,  \* MAX_CONCURRENT_CONNECTIONS
          GiveUpAfter      \* failures in a row whose delays reach give_up_after

ASSUME ListenerAssumption ==
    /\ MaxPeers \in Nat
    /\ MaxConnections \in Nat \ {0}
    /\ GiveUpAfter \in Nat \ {0, 1}

Peers == 1 .. MaxPeers

VARIABLES running,       \* BC_Listener.running
          exhausted,     \* BC_Listener._retry_exhausted
          attempts,      \* failures in a row, BackoffPolicy.attempts
          socket,        \* "none", "bound" or "closed"
          backlog,       \* connections the socket holds for accept()
          accepting,     \* where start_listening() is
          taken,         \* the connection its worker is created for
          conn,          \* state of each connection and of its thread
          msg,           \* what each carries
          handlers,      \* _handler_threads
          dataReceived,  \* data_received
          listener,      \* Bus_Controller._listener is set
          controller,    \* where Bus_Controller.start_listener() is
          stopEvent,     \* Bus_Controller.stop_event
          stop,          \* where the caller of stop_listener() is
          joining,       \* handlers the drain still has to join
          fault,         \* environment: what fails at present
          processed,     \* history: peers whose message was processed
          reached        \* history: stop() met a listener that was running

accept == <<exhausted, attempts, socket, backlog, accepting, taken>>
served == <<conn, msg, handlers, dataReceived>>
control == <<listener, controller, stopEvent>>
stopper == <<stop, joining, reached>>
listenVars == <<running, accept, served, control, stopper, fault, processed>>

\* Thread.is_alive() of a connection's worker.
Alive(p) == conn[p] \in {"ready", "open"}

ListenInit ==
    /\ running = FALSE /\ exhausted = FALSE
    /\ attempts = 0
    /\ socket = "none" /\ backlog = << >>
    /\ accepting = "unborn" /\ taken = << >>
    /\ conn = [p \in Peers |-> "away"]
    /\ msg = [p \in Peers |-> "none"]
    /\ handlers = {} /\ dataReceived = << >>
    /\ listener = FALSE /\ controller = "new" /\ stopEvent = FALSE
    /\ stop = "no" /\ joining = {} /\ reached = FALSE
    /\ fault = "none" /\ processed = {}

-----------------------------------------------------------------------------
\* The environment: faults come and go, peers connect, send and close.
Turn(f) ==
    /\ fault # f
    /\ fault' = f
    /\ UNCHANGED <<running, accept, served, control, stopper, processed>>

Connect(p, m) ==
    /\ conn[p] = "away" /\ \A q \in 1 .. p - 1 : conn[q] # "away"
    /\ socket = "bound"
    /\ conn' = [conn EXCEPT ![p] = "waiting"]
    /\ msg' = [msg EXCEPT ![p] = m]
    /\ backlog' = Append(backlog, p)
    /\ UNCHANGED <<running, exhausted, attempts, socket, accepting, taken, handlers,
                   dataReceived, control, stopper, fault, processed>>

-----------------------------------------------------------------------------
\* start_listening(), from its first line: a stop() that came before is
\* forgotten here.
BeginListening ==
    /\ accepting = "begin"
    /\ running' = TRUE /\ exhausted' = FALSE
    /\ attempts' = 0
    /\ accepting' = "top"
    /\ UNCHANGED <<socket, backlog, taken, served, control, stopper, fault, processed>>

\* Faulty variant of Top: whether the listener still runs is not looked at.
TopBlind ==
    /\ accepting = "top"
    /\ accepting' = IF socket = "bound" THEN "select" ELSE "bind"
    /\ UNCHANGED <<running, exhausted, attempts, socket, backlog, taken, served,
                   control, stopper, fault, processed>>

Top ==
    /\ accepting = "top"
    /\ accepting' = CASE ~running -> "close"
                      [] running /\ socket = "bound" -> "select"
                      [] running /\ socket # "bound" -> "bind"
    /\ UNCHANGED <<running, exhausted, attempts, socket, backlog, taken, served,
                   control, stopper, fault, processed>>

\* setup_socket() succeeds: the run of failures is over.
Bind ==
    /\ accepting = "bind"
    /\ fault # "bind"
    /\ socket' = "bound"
    /\ attempts' = 0
    /\ accepting' = "select"
    /\ UNCHANGED <<running, exhausted, backlog, taken, served, control, stopper,
                   fault, processed>>

\* What a failure of bind() and of accept() have in common: the failure is
\* counted, the socket dropped with the connections it holds, and the loop
\* gives up or backs off, in a sleep that a stop interrupts.
Fail ==
    /\ attempts' = attempts + 1
    /\ exhausted' = (attempts' >= GiveUpAfter)
    /\ accepting' = IF attempts' >= GiveUpAfter THEN "close" ELSE "top"
    /\ socket' = "none"
    /\ backlog' = << >>
    /\ UNCHANGED <<running, taken, control, stopper, fault, processed>>

\* The peers whose connections go down with the socket.
Lost(c) == [p \in Peers |-> IF p \in Range(backlog) THEN "refused" ELSE c[p]]

\* Faulty variant of BindFails: a failed attempt to bind is not counted.
BindFailsFree ==
    /\ accepting = "bind"
    /\ fault = "bind"
    /\ accepting' = "top"
    /\ socket' = "none"
    /\ UNCHANGED <<running, exhausted, attempts, backlog, taken, served, control,
                   stopper, fault, processed>>

BindFails ==
    /\ accepting = "bind"
    /\ fault = "bind"
    /\ Fail
    /\ UNCHANGED served

\* select() or accept() raises.
AcceptFails ==
    /\ accepting = "select"
    /\ fault = "accept"
    /\ Fail
    /\ conn' = Lost(conn)
    /\ UNCHANGED <<msg, handlers, dataReceived>>

\* select() times out.
Quiet ==
    /\ accepting = "select"
    /\ fault # "accept"
    /\ backlog = << >>
    /\ accepting' = "top"
    /\ UNCHANGED <<running, exhausted, attempts, socket, backlog, taken, served,
                   control, stopper, fault, processed>>

Full(hs) == Cardinality(hs) >= MaxConnections

\* accept() and _spawn_connection_handler() up to the end of its section of
\* _handler_lock: the dead workers are dropped; at capacity the connection is
\* closed, else its worker enters the set, before it is started.
Accept ==
    /\ accepting = "select"
    /\ fault # "accept"
    /\ backlog # << >>
    /\ backlog' = Tail(backlog)
    /\ LET live == {h \in handlers : Alive(h)} p == Head(backlog)
       IN  /\ handlers' = IF Full(live) THEN live ELSE live \cup {p}
           /\ conn' = [conn EXCEPT ![p] = IF Full(live) THEN "refused" ELSE "added"]
           /\ taken' = IF Full(live) THEN << >> ELSE <<p>>
           /\ accepting' = IF Full(live) THEN "top" ELSE "start"
    /\ UNCHANGED <<running, exhausted, attempts, socket, msg, dataReceived, control,
                   stopper, fault, processed>>

\* worker.start().
StartWorker ==
    /\ accepting = "start"
    /\ conn' = [conn EXCEPT ![taken[1]] = "ready"]
    /\ taken' = << >>
    /\ accepting' = "top"
    /\ UNCHANGED <<running, exhausted, attempts, socket, backlog, msg, handlers,
                   dataReceived, control, stopper, fault, processed>>

\* worker.start() raises, into the loop's except clause: the socket is
\* dropped, and the worker stays in the set.
StartWorkerFails ==
    /\ accepting = "start"
    /\ attempts' = attempts + 1
    /\ exhausted' = (attempts' >= GiveUpAfter)
    /\ accepting' = IF attempts' >= GiveUpAfter THEN "close" ELSE "top"
    /\ socket' = "none"
    /\ backlog' = << >>
    /\ conn' = [Lost(conn) EXCEPT ![taken[1]] = "failed"]
    /\ taken' = << >>
    /\ UNCHANGED <<running, msg, handlers, dataReceived, control, stopper, fault, processed>>

\* After the loop.
Close ==
    /\ accepting = "close"
    /\ accepting' = "dead"
    /\ socket' = IF socket = "none" THEN "none" ELSE "closed"
    /\ backlog' = << >>
    /\ conn' = Lost(conn)
    /\ UNCHANGED <<running, exhausted, attempts, taken, msg, handlers, dataReceived,
                   control, stopper, fault, processed>>

Accepting ==
    \/ BeginListening \/ Top \/ Bind \/ BindFails \/ Quiet
    \/ Accept \/ AcceptFails \/ StartWorker \/ Close

-----------------------------------------------------------------------------
\* handle_connection(): the head of its loop.
Look(p) ==
    /\ conn[p] = "ready"
    /\ conn' = [conn EXCEPT ![p] = IF running THEN "open" ELSE "served"]
    /\ UNCHANGED <<running, accept, msg, handlers, dataReceived, control, stopper,
                   fault, processed>>

\* The message is complete: it is appended.  The peer sends no other.
ReceiveMessage(p) ==
    /\ conn[p] = "open"
    /\ msg[p] = "whole"
    /\ dataReceived' = Append(dataReceived, p)
    /\ msg' = [msg EXCEPT ![p] = "sent"]
    /\ conn' = [conn EXCEPT ![p] = "ready"]
    /\ UNCHANGED <<running, accept, handlers, control, stopper, fault, processed>>

\* Nothing came within the second of select().
Tick(p) ==
    /\ conn[p] = "open"
    /\ msg[p] = "silent"
    /\ conn' = [conn EXCEPT ![p] = "ready"]
    /\ UNCHANGED <<running, accept, msg, handlers, dataReceived, control, stopper,
                   fault, processed>>

\* The peer closed the connection, or the idle timeout passed.
Hangup(p) ==
    /\ conn[p] = "open"
    /\ msg[p] # "whole"
    /\ conn' = [conn EXCEPT ![p] = "served"]
    /\ UNCHANGED <<running, accept, msg, handlers, dataReceived, control, stopper,
                   fault, processed>>

Serving(p) == Look(p) \/ ReceiveMessage(p) \/ Hangup(p)

-----------------------------------------------------------------------------
\* Bus_Controller.start_listener(): the listener is created ...
Create ==
    /\ controller = "new"
    /\ listener' = TRUE
    /\ controller' = "start"
    /\ UNCHANGED <<running, accept, served, stopEvent, stopper, fault, processed>>

\* ... its thread started ...
StartThread ==
    /\ controller = "start"
    /\ accepting' = "begin"
    /\ controller' = "loop"
    /\ UNCHANGED <<running, exhausted, attempts, socket, backlog, taken, served, listener,
                   stopEvent, stopper, fault, processed>>

\* Faulty variant of ProcessReceived: the newest message is removed, not the
\* one that was processed.
ProcessPopsNewest ==
    /\ controller = "loop"
    /\ ~stopEvent
    /\ dataReceived # << >>
    /\ processed' = processed \cup {Head(dataReceived)}
    /\ dataReceived' = Front(dataReceived)
    /\ UNCHANGED <<running, accept, conn, msg, handlers, control, stopper, fault>>

\* ... and what it receives processed, the oldest first.  process_frame()
\* catches what it raises.
ProcessReceived ==
    /\ controller = "loop"
    /\ ~stopEvent
    /\ dataReceived # << >>
    /\ processed' = processed \cup {Head(dataReceived)}
    /\ dataReceived' = Tail(dataReceived)
    /\ UNCHANGED <<running, accept, conn, msg, handlers, control, stopper, fault>>

Leave ==
    /\ controller = "loop"
    /\ stopEvent
    /\ controller' = "ended"
    /\ UNCHANGED <<running, accept, served, listener, stopEvent, stopper, fault, processed>>

Controlling == Create \/ StartThread \/ ProcessReceived \/ Leave

-----------------------------------------------------------------------------
\* stop_listener(): the controller's loop ...
StopLoop ==
    /\ stop = "no"
    /\ stopEvent' = TRUE
    /\ stop' = "flag"
    /\ UNCHANGED <<running, accept, served, listener, controller, joining, reached,
                   fault, processed>>

\* Faulty variant of StopFlag: stop_listener() ends the controller's loop
\* only.
StopFlagNever ==
    /\ stop = "flag"
    /\ stop' = "drain"
    /\ reached' = (accepting \notin {"unborn", "begin"})
    /\ UNCHANGED <<running, accept, served, control, joining, fault, processed>>

\* ... and, where there is one, the listener: stop_listening().
StopFlag ==
    /\ stop = "flag"
    /\ IF listener
       THEN running' = FALSE /\ stop' = "drain"
       ELSE UNCHANGED running /\ stop' = "returned"
    /\ reached' = (accepting \notin {"unborn", "begin"})
    /\ UNCHANGED <<accept, served, control, joining, fault, processed>>

\* _drain_connection_handlers(): the workers, under the lock ...
Drain ==
    /\ stop = "drain"
    /\ joining' = handlers
    /\ stop' = "join"
    /\ UNCHANGED <<running, accept, served, control, reached, fault, processed>>

\* ... are joined.  Thread.join() raises on one that was never started.
Join(p) ==
    /\ stop = "join"
    /\ p \in joining
    /\ ~Alive(p)
    /\ joining' = joining \ {p}
    /\ stop' = IF conn[p] \in {"added", "failed"} THEN "raised" ELSE stop
    /\ UNCHANGED <<running, accept, served, control, reached, fault, processed>>

JoinTimeout ==
    /\ stop = "join"
    /\ \E p \in joining : Alive(p)
    /\ stop' = "timeout"
    /\ UNCHANGED <<running, accept, served, control, joining, reached, fault, processed>>

Joined ==
    /\ stop = "join"
    /\ joining = {}
    /\ stop' = "returned"
    /\ UNCHANGED <<running, accept, served, control, joining, reached, fault, processed>>

Stopping == StopFlag \/ Drain \/ Joined \/ \E p \in Peers : Join(p)

Environment ==
    \/ \E f \in {"none", "bind", "accept"} : Turn(f)
    \/ \E p \in Peers, m \in {"whole", "silent"} : Connect(p, m)

ListenNext ==
    \/ Environment
    \/ Accepting \/ StartWorkerFails
    \/ \E p \in Peers : Serving(p) \/ Tick(p)
    \/ Controlling
    \/ StopLoop \/ Stopping \/ JoinTimeout

\* Every thread is scheduled; a connection on which nothing arrives reaches
\* its idle timeout.  Nobody has to connect or to call stop_listener().
ListenFairness ==
    /\ WF_listenVars(Accepting)
    /\ WF_listenVars(Controlling)
    /\ WF_listenVars(Stopping)
    /\ \A p \in Peers : WF_listenVars(Serving(p)) /\ SF_listenVars(Hangup(p))

ListenSpec == ListenInit /\ [][ListenNext]_listenVars /\ ListenFairness

-----------------------------------------------------------------------------
FlagsTyped ==
    /\ running \in BOOLEAN /\ exhausted \in BOOLEAN
    /\ listener \in BOOLEAN /\ stopEvent \in BOOLEAN /\ reached \in BOOLEAN

PlacesTyped ==
    /\ attempts \in 0 .. GiveUpAfter
    /\ socket \in {"none", "bound", "closed"}
    /\ backlog \in Seq(Peers) /\ taken \in Seq(Peers)
    /\ accepting \in {"unborn", "begin", "top", "bind", "select", "start",
                      "close", "dead"}
    /\ conn \in [Peers -> {"away", "waiting", "refused", "added", "failed", "ready",
                           "open", "served"}]
    /\ msg \in [Peers -> {"none", "whole", "silent", "sent"}]
    /\ handlers \subseteq Peers
    /\ dataReceived \in Seq(Peers)
    /\ controller \in {"new", "start", "loop", "ended"}
    /\ stop \in {"no", "flag", "drain", "join", "raised", "timeout", "returned"}
    /\ joining \subseteq Peers
    /\ fault \in {"none", "bind", "accept"}
    /\ processed \subseteq Peers

ListenTypeOK == FlagsTyped /\ PlacesTyped

\* _drain_connection_handlers() keeps its promise, "a stop does not return
\* while a handler is still appending to self.data_received", although the
\* accept loop may create another worker after the drain listed them: when
\* stop() met a running listener and no join timed out or raised, no
\* connection is left that can receive.
QuietAfterStop ==
    stop = "returned" /\ reached => \A p \in Peers : conn[p] # "open"

\* A listener that cannot bind its socket does not try forever: it gets the
\* socket, gives up or is stopped.
BindFaultEnds ==
    <>[](fault = "bind") => <>[](accepting # "unborn" => socket # "none" \/ ~running \/ exhausted)

\* A message whose connection was handed to a worker is processed, unless
\* somebody stops the bus controller.
MessagesProcessed ==
    \A p \in Peers :
        conn[p] = "ready" /\ msg[p] = "whole" ~> p \in processed \/ stop # "no"

\* A stop() that met a running listener ends it and every worker.
StopEnds ==
    (stop # "no" /\ reached) ~>
        accepting = "dead" /\ \A p \in Peers : ~Alive(p)
=============================================================================
