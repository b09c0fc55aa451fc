------------------------- MODULE AsyncHandler_proofs -------------------------
(***************************************************************************)
(* For any number of controllers, producers, workers and messages: only     *)
(* transitions of the table happen, no message vanishes or is doubled but by *)
(* a retry, a serving handler has no buffered message, and a restart finds  *)
(* no worker running that its joins could have ended.                       *)
(***************************************************************************)
EXTENDS AsyncHandler, FiniteSetTheorems, TLAPS

\* self.lock is held by the controller that is inside start() or stop(), hung
\* there or not.
LockHeld ==
  /\ lock \in Controllers \cup {NoThread}
  /\ \A c \in Controllers : lock = c <=> pc[c] \notin {"idle", "start", "stop"}

\* The state and the flag running, by the place of the lock's holder.
Phase ==
  /\ lock = NoThread => state \in {"STOPPED"} \cup Serving /\ (running <=> state \in Serving)
  /\ \A c \in Controllers :
       /\ pc[c] # "again"
       /\ pc[c] = "starting" => state = "STOPPED"
       /\ pc[c] \in {"switchOn", "spawn", "verify", "running"} => state = "STARTING"
       /\ pc[c] \in {"dog", "drain", "readd"} => state \in Serving /\ running
       /\ pc[c] = "stopping" => state \in Serving
       /\ pc[c] \in {"empty", "stoppingAgain", "join", "stopped"} => state = "STOPPING"

Lifecycle == TypeOK /\ LockHeld /\ Phase

\* Only a thread that is passing messages on has some.
HandsEmpty ==
  \A t \in Threads :
    pc[t] \notin {"add", "put", "readd", "busy", "busyHigh", "ownLock"} => hand[t] = {}

\* A message that was not retried is in one place.
Separate ==
  \A m \in Msgs : tries[m] = 0 =>
    /\ m \in buffer => m \notin queue \cup done \cup lost
    /\ m \in queue => m \notin done \cup lost
    /\ m \notin done \cap lost
    /\ \A t \in Threads : m \in hand[t] => m \notin buffer \cup queue \cup done \cup lost
    /\ \A t, u \in Threads : m \in hand[t] /\ m \in hand[u] => t = u

\* Each message that was added is somewhere.
Present ==
  /\ \A m \in sent : m \in buffer \cup queue \cup done \cup lost \/ \E t \in Threads : m \in hand[t]
  /\ lost \subseteq Invalid \cup WithoutId \cup ByType

Conserved == HandsEmpty /\ Separate /\ Present

\* A live worker that no join has given up is one the handler knows, and the
\* handler knows none when it creates workers.
Crew ==
  /\ \A w \in Workers \ left : Alive(w) => w \in workers
  /\ lock = NoThread /\ state = "STOPPED" => workers = {}
  /\ \A c \in Controllers :
       pc[c] \in {"starting", "switchOn", "spawn", "stopped"} => workers = {}
  /\ Cardinality(workers) <= NumWorkers

LEMMA FiniteThreads == IsFiniteSet(Threads) /\ IsFiniteSet(Workers)
<1>1. IsFiniteSet(Threads)
  BY HandlerAssumption DEF Threads
<1>2. Workers \subseteq Threads
  BY DEF Threads
<1>3. QED
  BY <1>1, <1>2, FS_Subset

-----------------------------------------------------------------------------
\* Types

\* What _set_state() leaves alone.
LEMMA SetStateKeeps ==
  ASSUME NEW t, NEW s, NEW next, SetState(t, s, next)
  PROVE  /\ StateLockFree
         /\ UNCHANGED <<seen, buffer, queue, hand, sent, done, lost, registered, tracked, tries>>
  BY DEF SetState

\* Whatever state it is asked for, it keeps the types.
LEMMA SetStateTyped ==
  ASSUME TypeOK, NEW c \in Controllers, NEW s \in States, NEW next \in ControllerPCs,
         SetState(c, s, next)
  PROVE  /\ state' \in States
         /\ running' \in BOOLEAN /\ validationError' \in BOOLEAN
         /\ stateLock' \in Threads \cup {NoThread}
         /\ pc' \in [Threads -> Hung \cup ControllerPCs \cup ProducerPCs \cup WorkerPCs \cup DogPCs]
         /\ \A k \in Controllers : pc'[k] \in Hung \cup ControllerPCs
         /\ \A p \in Producers : pc'[p] \in ProducerPCs
         /\ \A w \in Workers : pc'[w] \in Hung \cup WorkerPCs
         /\ \A d \in Dogs : pc'[d] \in Hung \cup DogPCs
         /\ workers' \subseteq Workers /\ left' \subseteq Workers
         /\ watchdog' \in Dogs \cup {NoThread}
<1> DEFINE to == Redirected(s)
<1> USE HandlerAssumption DEF TypeOK, Threads, Hung, ControllerPCs, ProducerPCs, WorkerPCs,
     DogPCs, Goto, crew
<1>1. to \in States
  BY DEF Redirected, States
<1>2. (to \in Serving) \in BOOLEAN /\ (validationError /\ ~(state = "RUNNING" /\ s = "STOPPED")) \in BOOLEAN
  OBVIOUS
<1>3. running' \in BOOLEAN /\ validationError' \in BOOLEAN
  BY <1>2, Zenon DEF SetState
<1> HIDE DEF to
<1>4. CASE to = "RUNNING"
  <2>1. EnterRunning(c, next)
    BY <1>4 DEF SetState, to
  <2>2. QED
    BY <1>3, <2>1 DEF EnterRunning, Recovering, Replacements, Spare, SpareDogs, NextWatchdog, Dead,
       States
<1>5. CASE to = "DEGRADED"
  <2>1. EnterDegraded(c, next)
    BY <1>5 DEF SetState, to
  <2>2. QED
    BY <1>3, <2>1 DEF EnterDegraded, Recovering, Replacements, Spare, Dead, States
<1>6. CASE to = "STOPPING"
  <2>1. EnterStopping(c, next)
    BY <1>6 DEF SetState, to
  <2>2. QED
    BY <1>3, <2>1 DEF EnterStopping, HangOnStateLock, States
<1>7. CASE to \notin {"RUNNING", "DEGRADED", "STOPPING"}
  <2>1. state' = to /\ Goto(c, next) /\ UNCHANGED <<stateLock, crew>>
    BY <1>7 DEF SetState, to
  <2>2. QED
    BY <1>1, <1>3, <2>1
<1>8. QED
  BY <1>4, <1>5, <1>6, <1>7

\* It enters the state it is asked for, unless a running handler is to be
\* STOPPED, and keeps the flag running in step.
LEMMA SetStateEnters ==
  ASSUME NEW t, NEW s \in States, NEW next, SetState(t, s, next),
         ~(state = "RUNNING" /\ s = "STOPPED")
  PROVE  /\ s = "RUNNING"  => EnterRunning(t, next) /\ running'
         /\ s = "STOPPING" => EnterStopping(t, next) /\ ~running'
         /\ s \in {"STARTING", "STOPPED"} =>
              state' = s /\ ~running' /\ Goto(t, next) /\ UNCHANGED <<stateLock, crew>>
<1>1. Redirected(s) = s
  BY DEF Redirected
<1>2. running' = (s \in Serving)
  BY <1>1 DEF SetState
<1>3. running' <=> s \in Serving
  BY <1>2, Zenon
<1>4. QED
  BY <1>1, <1>3 DEF SetState, Serving

LEMMA TypeInit == Init => TypeOK
<1> SUFFICES ASSUME Init PROVE TypeOK
  OBVIOUS
<1>1. /\ pc \in [Threads -> Hung \cup ControllerPCs \cup ProducerPCs \cup WorkerPCs \cup DogPCs]
      /\ \A c \in Controllers : pc[c] \in ControllerPCs
      /\ \A p \in Producers : pc[p] \in ProducerPCs
      /\ \A w \in Workers : pc[w] \in WorkerPCs
      /\ \A d \in Dogs : pc[d] \in DogPCs
  BY HandlerAssumption DEF Init, Threads, ControllerPCs, ProducerPCs, WorkerPCs, DogPCs
<1>2. tries \in [Msgs -> 0 .. MaxRetries]
  BY HandlerAssumption DEF Init
<1>3. hand \in [Threads -> SUBSET sent] /\ seen \in [Workers -> States]
  BY DEF Init, States
<1>4. QED
  BY <1>1, <1>2, <1>3 DEF Init, TypeOK, States

LEMMA TypeStep == TypeOK /\ [Next]_vars => TypeOK'
<1> SUFFICES ASSUME TypeOK, [Next]_vars PROVE TypeOK'
  OBVIOUS
<1> USE HandlerAssumption DEF TypeOK, Threads, Hung, ControllerPCs, ProducerPCs, WorkerPCs,
     DogPCs, Goto, locks, threads, crew, books, msgs
<1>1. ASSUME NEW c \in Controllers, CallStart(c) \/ CallStop(c) PROVE TypeOK'
  BY <1>1 DEF CallStart, CallStop
<1>2. ASSUME NEW c \in Controllers, Start(c) PROVE TypeOK'
  <2>0. CASE StartLocks(c)
    BY <2>0 DEF StartLocks
  <2>1. CASE WorkersReady(c) \/ StartFails(c) \/ StartReturns(c)
    BY <2>1 DEF WorkersReady, StartFails, StartReturns
  <2>4. CASE SwitchOn(c)
    BY <2>4 DEF SwitchOn
  <2>2. CASE SetStarting(c) \/ WorkerNotAlive(c) \/ SetRunning(c)
    <3>1. PICK s \in States, next \in ControllerPCs : SetState(c, s, next) /\ lock' = lock
      BY <2>2 DEF SetStarting, WorkerNotAlive, SetRunning, States
    <3>2. QED
      BY <3>1, SetStateKeeps, SetStateTyped
  <2>3. CASE SpawnWorkers(c)
    BY <2>3 DEF SpawnWorkers, Spare, Spawning
  <2>5. CASE StartWatchdog(c)
    BY <2>5 DEF StartWatchdog, SpareDogs, Spawning
  <2>6. CASE TakeBuffered(c)
    BY <2>6 DEF TakeBuffered
  <2>7. ASSUME NEW m \in Msgs, ReAdd(c, m) \/ ReAddRegisters(c, m) PROVE TypeOK'
    <3>1. CASE ReAddRegisters(c, m)
      BY <3>1 DEF ReAddRegisters, NeedsRegistration
    <3>2. CASE ReAdd(c, m)
      <4>1. validationError' \in BOOLEAN
        BY <3>2, Zenon DEF ReAdd
      <4>2. m \in sent
        BY <3>2 DEF ReAdd
      <4>3. QED
        BY <3>2, <4>1, <4>2 DEF ReAdd, Enqueue
    <3>3. QED
      BY <2>7, <3>1, <3>2
  <2>8. QED
    BY <1>2, <2>0, <2>1, <2>2, <2>3, <2>4, <2>5, <2>6, <2>7 DEF Start
<1>3. ASSUME NEW c \in Controllers, Stop(c) PROVE TypeOK'
  <2>1. CASE StopLocks(c) \/ QueueEmptied(c) \/ Join(c)
    BY <2>1 DEF StopLocks, QueueEmptied, Join
  <2>2. CASE FirstStopping(c) \/ SecondStopping(c) \/ SetStopped(c)
    <3>1. PICK s \in States, next \in ControllerPCs :
            SetState(c, s, next) /\ lock' \in {lock, NoThread}
      BY <2>2 DEF FirstStopping, SecondStopping, SetStopped, States
    <3>2. QED
      BY <3>1, SetStateKeeps, SetStateTyped
  <2>3. CASE \E m \in Msgs : HandleLeftover(c, m)
    BY <2>3 DEF HandleLeftover
  <2>4. QED
    BY <1>3, <2>1, <2>2, <2>3 DEF Stop
<1>4. ASSUME NEW p \in Producers, Add(p) \/ \E m \in Msgs : CallAdd(p, m) PROVE TypeOK'
  <2>1. CASE AddBuffers(p)
    BY <2>1 DEF AddBuffers
  <2>2. CASE RestartWaitEnds(p) \/ AddPasses(p)
    BY <2>2 DEF RestartWaitEnds, AddPasses
  <2>3. CASE AddQueues(p)
    <3>1. validationError' \in BOOLEAN
      BY <2>3, Zenon DEF AddQueues
    <3>2. hand[p] \subseteq sent
      OBVIOUS
    <3>3. QED
      BY <2>3, <3>1, <3>2 DEF AddQueues, Enqueue
  <2>6. CASE \E m \in Msgs : Register(p, m)
    BY <2>6 DEF Register, NeedsRegistration
  <2>4. CASE \E m \in Msgs : CallAdd(p, m)
    BY <2>4 DEF CallAdd
  <2>5. QED
    BY <1>4, <2>1, <2>2, <2>3, <2>4, <2>6 DEF Add
<1>5. ASSUME NEW w \in Workers, Work(w) PROVE TypeOK'
  <2>1. CASE \/ LoopCreated(w) \/ LoopFails(w) \/ TestRunning(w) \/ Dispatch(w)
             \/ GetNothing(w) \/ LookAgain(w)
    BY <2>1 DEF LoopCreated, LoopFails, TestRunning, Dispatch, GetNothing, LookAgain, States
  <2>2. CASE DegradeFails(w) \/ Dies(w) \/ ReadState(w)
    BY <2>2 DEF DegradeFails, Dies, ReadState
  <2>3. CASE Flush(w) \/ WakeUp(w)
    BY <2>3 DEF Flush, WakeUp, HangOnStateLock
  <2>4. CASE FlushTakes(w) \/ FlushPuts(w)
    BY <2>4 DEF FlushTakes, FlushPuts, Enqueue
  <2>5. CASE Handled(w, "busyHigh", "get") \/ Handled(w, "busy", "loop")
    BY <2>5 DEF Handled
  <2>6. CASE \E m \in Msgs : \/ Register(w, m)
                            \/ Get(w, m, "high", "busyHigh") \/ Get(w, m, "get", "busy")
    BY <2>6 DEF Register, NeedsRegistration, Get
  <2>7. QED
    BY <1>5, <2>1, <2>2, <2>3, <2>4, <2>5, <2>6 DEF Work
<1>6. ASSUME NEW d \in Dogs, Watch(d) PROVE TypeOK'
  <2>1. CASE TenSecondsPass(d) \/ WatchdogEnds(d) \/ WatchdogFlushes(d)
    BY <2>1 DEF TenSecondsPass, WatchdogEnds, WatchdogFlushes, HangOnStateLock
  <2>2. CASE WatchdogRecovers(d)
    BY <2>2 DEF WatchdogRecovers, Replacements, Spare, Dead, Recovering
  <2>4. CASE \E m \in Msgs : Retry(d, m) \/ GiveUp(d, m)
    BY <2>4 DEF Retry, GiveUp
  <2>3. QED
    BY <1>6, <2>1, <2>2, <2>4 DEF Watch
<1>7. CASE UNCHANGED vars
  BY <1>7 DEF vars
<1>8. QED
  BY <1>1, <1>2, <1>3, <1>4, <1>5, <1>6, <1>7 DEF Next, Control

-----------------------------------------------------------------------------
\* Life cycle

LEMMA LifecycleInit == Init => Lifecycle
  BY TypeInit, HandlerAssumption DEF Lifecycle, Init, LockHeld, Phase, Threads, Serving

LEMMA LifecycleStep == Lifecycle /\ [Next]_vars => Lifecycle'
<1> SUFFICES ASSUME Lifecycle, [Next]_vars PROVE LockHeld' /\ Phase'
  BY TypeStep DEF Lifecycle
<1> USE HandlerAssumption DEF Lifecycle, TypeOK, LockHeld, Phase, Threads, Hung, ControllerPCs,
     ProducerPCs, WorkerPCs, DogPCs, Goto, locks, threads, crew, books, msgs
<1>1. ASSUME NEW c \in Controllers, CallStart(c) \/ CallStop(c) PROVE LockHeld' /\ Phase'
  BY <1>1 DEF CallStart, CallStop
<1>2. ASSUME NEW c \in Controllers, Start(c) PROVE LockHeld' /\ Phase'
  <2>1. CASE StartLocks(c)
    BY <2>1 DEF StartLocks, started, Serving
  <2>2. CASE SetStarting(c) \/ WorkerNotAlive(c)
    <3>1. /\ state' \in {"STARTING", "STOPPED"} /\ ~running' /\ lock' = lock
          /\ SetStarting(c) => state' = "STARTING" /\ Goto(c, "switchOn")
          /\ WorkerNotAlive(c) => state' = "STOPPED" /\ Goto(c, "failed")
      BY <2>2, SetStateEnters DEF SetStarting, WorkerNotAlive, States
    <3>2. lock = c
      BY <2>2 DEF SetStarting, WorkerNotAlive
    <3>3. QED
      BY <2>2, <3>1, <3>2 DEF SetStarting, WorkerNotAlive, Serving
  <2>3. CASE SpawnWorkers(c)
    BY <2>3 DEF SpawnWorkers, Spare, Spawning
  <2>4. CASE SetRunning(c)
    <3>1. EnterRunning(c, "dog") /\ running' /\ lock' = lock /\ pc[c] = "running"
      BY <2>4, SetStateEnters DEF SetRunning, States
    <3>2. QED
      BY <3>1 DEF EnterRunning, Recovering, Spare, SpareDogs, Replacements, Serving
  <2>5. CASE StartWatchdog(c)
    BY <2>5 DEF StartWatchdog, SpareDogs, Spawning
  <2>6. CASE TakeBuffered(c)
    BY <2>6 DEF TakeBuffered
  <2>9. ASSUME NEW m \in Msgs, ReAdd(c, m) \/ ReAddRegisters(c, m) PROVE LockHeld' /\ Phase'
    <3>1. pc[c] = "readd" /\ pc' = IF ReAdd(c, m) THEN pc ELSE [pc EXCEPT ![c] = "ownLock"]
      BY <2>9 DEF ReAdd, ReAddRegisters
    <3>2. UNCHANGED <<state, running, lock>>
      BY <2>9 DEF ReAdd, ReAddRegisters
    <3>3. QED
      BY <3>1, <3>2
  <2>7. CASE WorkersReady(c) \/ StartFails(c) \/ SwitchOn(c) \/ StartReturns(c)
    BY <2>7 DEF WorkersReady, StartFails, SwitchOn, StartReturns, Serving
  <2>8. QED
    BY <1>2, <2>1, <2>2, <2>3, <2>4, <2>5, <2>6, <2>7, <2>9 DEF Start
<1>3. ASSUME NEW c \in Controllers, Stop(c) PROVE LockHeld' /\ Phase'
  <2>1. CASE StopLocks(c) \/ QueueEmptied(c) \/ Join(c)
    BY <2>1 DEF StopLocks, QueueEmptied, Join, started
  <2>2. CASE FirstStopping(c) \/ SecondStopping(c)
    <3>1. PICK next \in {"empty", "join"} : EnterStopping(c, next) /\ ~running' /\ lock' = lock
      BY <2>2, SetStateEnters DEF FirstStopping, SecondStopping, States
    <3>2. lock = c
      BY <2>2 DEF FirstStopping, SecondStopping
    <3>3. QED
      BY <3>1, <3>2 DEF EnterStopping, HangOnStateLock, Serving
  <2>3. CASE SetStopped(c)
    <3>1. state' = "STOPPED" /\ ~running' /\ Goto(c, "idle") /\ stateLock' = stateLock
      BY <2>3, SetStateEnters DEF SetStopped, States, crew
    <3>2. lock = c /\ lock' = NoThread
      BY <2>3, <3>1, SetStateKeeps DEF SetStopped, StateLockFree
    <3>3. QED
      BY <3>1, <3>2 DEF Serving
  <2>4. CASE \E m \in Msgs : HandleLeftover(c, m)
    BY <2>4 DEF HandleLeftover
  <2>5. QED
    BY <1>3, <2>1, <2>2, <2>3, <2>4 DEF Stop
<1>4. ASSUME NEW p \in Producers, Add(p) \/ \E m \in Msgs : CallAdd(p, m)
      PROVE  LockHeld' /\ Phase'
  <2>1. CASE AddBuffers(p)
    BY <2>1 DEF AddBuffers
  <2>2. CASE RestartWaitEnds(p) \/ AddPasses(p) \/ AddQueues(p)
    BY <2>2 DEF RestartWaitEnds, AddPasses, AddQueues
  <2>3. CASE \E m \in Msgs : Register(p, m) \/ CallAdd(p, m)
    BY <2>3 DEF Register, CallAdd
  <2>4. QED
    BY <1>4, <2>1, <2>2, <2>3 DEF Add
<1>5. ASSUME NEW w \in Workers, Work(w) PROVE LockHeld' /\ Phase'
  <2>1. CASE \/ LoopCreated(w) \/ LoopFails(w) \/ TestRunning(w) \/ Dispatch(w)
             \/ GetNothing(w) \/ LookAgain(w) \/ ReadState(w)
    BY <2>1 DEF LoopCreated, LoopFails, TestRunning, Dispatch, GetNothing, LookAgain, ReadState
  <2>2. CASE DegradeFails(w) \/ Dies(w)
    BY <2>2 DEF DegradeFails, Dies
  <2>3. CASE Flush(w) \/ WakeUp(w)
    BY <2>3 DEF Flush, WakeUp, HangOnStateLock
  <2>4. CASE FlushTakes(w) \/ FlushPuts(w)
    BY <2>4 DEF FlushTakes, FlushPuts
  <2>5. CASE Handled(w, "busyHigh", "get") \/ Handled(w, "busy", "loop")
    BY <2>5 DEF Handled
  <2>6. CASE \E m \in Msgs : \/ Register(w, m)
                            \/ Get(w, m, "high", "busyHigh") \/ Get(w, m, "get", "busy")
    BY <2>6 DEF Register, Get
  <2>7. QED
    BY <1>5, <2>1, <2>2, <2>3, <2>4, <2>5, <2>6 DEF Work
<1>6. ASSUME NEW d \in Dogs, Watch(d) PROVE LockHeld' /\ Phase'
  <2>1. CASE TenSecondsPass(d) \/ WatchdogEnds(d) \/ WatchdogFlushes(d)
    BY <2>1 DEF TenSecondsPass, WatchdogEnds, WatchdogFlushes, HangOnStateLock
  <2>2. CASE WatchdogRecovers(d)
    BY <2>2 DEF WatchdogRecovers, Replacements, Spare, Recovering
  <2>4. CASE \E m \in Msgs : Retry(d, m) \/ GiveUp(d, m)
    BY <2>4 DEF Retry, GiveUp
  <2>3. QED
    BY <1>6, <2>1, <2>2, <2>4 DEF Watch
<1>7. CASE UNCHANGED vars
  BY <1>7 DEF vars
<1>8. QED
  BY <1>1, <1>2, <1>3, <1>4, <1>5, <1>6, <1>7 DEF Next, Control

\* Every variable of the handler keeps its type.
THEOREM HandlerTyped == Spec => []TypeOK
  BY TypeInit, TypeStep, PTL DEF Spec

\* A step of the handler takes the state along the transition table, or leaves
\* it: where the thread that holds self.lock is decides from which state it asks
\* for which, so that no transition is redirected.
LEMMA TransitionStep ==
  ASSUME Lifecycle, Next, state' # state
  PROVE  state' \in ValidTransitions[state]
<1> DEFINE Valid == \/ state = "STOPPED" /\ state' = "STARTING"
                    \/ state = "STARTING" /\ state' \in {"RUNNING", "DEGRADED", "STOPPED"}
                    \/ state \in Serving /\ state' = "STOPPING"
                    \/ state = "STOPPING" /\ state' = "STOPPED"
<1> USE DEF Lifecycle, Phase
<1>1. ASSUME NEW c \in Controllers, CallStart(c) \/ CallStop(c) \/ Control(c) PROVE Valid
  <2>1. CASE SetStarting(c) \/ WorkerNotAlive(c)
    BY <2>1, SetStateEnters DEF SetStarting, WorkerNotAlive, States
  <2>2. CASE SetRunning(c)
    BY <2>2, SetStateEnters DEF SetRunning, EnterRunning, States
  <2>3. CASE FirstStopping(c) \/ SecondStopping(c) \/ SetStopped(c)
    BY <2>3, SetStateEnters DEF FirstStopping, SecondStopping, SetStopped, EnterStopping, States,
       Serving
  <2>4. QED
    BY <1>1, <2>1, <2>2, <2>3 DEF CallStart, CallStop, Control, Start, Stop, StartLocks, SwitchOn,
       SpawnWorkers, WorkersReady, StartFails, StartWatchdog, TakeBuffered, ReAdd,
       ReAddRegisters, StartReturns, StopLocks, HandleLeftover, QueueEmptied, Join
<1>2. ASSUME NEW p \in Producers, Add(p) \/ \E m \in Msgs : CallAdd(p, m) PROVE Valid
  BY <1>2 DEF Add, CallAdd, AddBuffers, RestartWaitEnds, AddPasses, AddQueues, Register
<1>3. ASSUME NEW w \in Workers, Work(w) PROVE Valid
  BY <1>3 DEF Work, LoopCreated, LoopFails, DegradeFails, Dies, TestRunning, ReadState, Flush,
     FlushTakes, FlushPuts, Dispatch, WakeUp, GetNothing, LookAgain, Handled, Register, Get
<1>4. ASSUME NEW d \in Dogs, Watch(d) PROVE Valid
  BY <1>4 DEF Watch, TenSecondsPass, WatchdogEnds, WatchdogRecovers, WatchdogFlushes, Retry, GiveUp
<1>5. Valid
  BY <1>1, <1>2, <1>3, <1>4 DEF Next
<1>6. QED
  BY <1>5 DEF Valid, ValidTransitions, States, Serving

\* However start(), stop(), a failing start() and a worker that dies while
\* _set_state(RUNNING) looks at it interleave, the state changes along the table
\* of _set_state() only.
THEOREM TransitionsValid == Spec => OnlyValidTransitions
<1>1. Lifecycle /\ [Next]_vars => [state' # state => state' \in ValidTransitions[state]]_vars
  <2> SUFFICES ASSUME Lifecycle, Next, state' # state
              PROVE  state' \in ValidTransitions[state]
    BY DEF vars
  <2>1. QED
    BY TransitionStep
<1>2. QED
  BY <1>1, LifecycleInit, LifecycleStep, PTL DEF Spec, OnlyValidTransitions

-----------------------------------------------------------------------------
\* Messages

LEMMA ConservedInit == Init => Conserved
  BY DEF Init, Conserved, HandsEmpty, Separate, Present

\* A thread whose step moves no message keeps the invariant when it goes where
\* nobody's hands are full.
LEMMA NothingMoves ==
  ASSUME TypeOK, Conserved, UNCHANGED <<buffer, queue, hand, sent, done, lost, tries>>,
         \A t \in Threads :
           pc'[t] \in {pc[t], "add", "put", "readd", "busy", "busyHigh", "ownLock"} \/ hand[t] = {}
  PROVE  Conserved'
  BY DEF Conserved, HandsEmpty, Separate, Present

\* So does _set_state(), called by a thread with empty hands.
LEMMA StateSetCalm ==
  ASSUME TypeOK, Conserved, NEW c \in Controllers, NEW s \in States, NEW next \in ControllerPCs,
         SetState(c, s, next),
         pc[c] \in {"again", "starting", "verify", "running", "stopping", "stoppingAgain", "stopped"}
  PROVE  Conserved'
<1> DEFINE to == Redirected(s)
           Calm == \A t \in Threads :
                     \/ pc'[t] \in {pc[t], "add", "put", "readd", "busy", "busyHigh", "ownLock"}
                     \/ hand[t] = {}
<1>1. UNCHANGED <<buffer, queue, hand, sent, done, lost, tries>>
  BY SetStateKeeps
<1>2. hand[c] = {} /\ \A t \in Threads : pc[t] \in {"none", "unready", "dead", "dying"} => hand[t] = {}
  BY DEF Conserved, HandsEmpty, Threads
<1> USE HandlerAssumption DEF TypeOK, Threads, Goto
<1> HIDE DEF to
<1>3. CASE to = "RUNNING"
  <2>1. EnterRunning(c, next)
    BY <1>3 DEF SetState, to
  <2>2. Calm
    BY <1>2, <2>1 DEF EnterRunning, Recovering, Replacements, Spare, SpareDogs, Alive
  <2>3. QED
    BY <1>1, <2>2, NothingMoves
<1>4. CASE to = "DEGRADED"
  <2>1. EnterDegraded(c, next)
    BY <1>4 DEF SetState, to
  <2>2. Calm
    BY <1>2, <2>1 DEF EnterDegraded, Recovering, Replacements, Spare, Alive
  <2>3. QED
    BY <1>1, <2>2, NothingMoves
<1>5. CASE to = "STOPPING"
  <2>1. EnterStopping(c, next)
    BY <1>5 DEF SetState, to
  <2>2. Calm
    BY <1>2, <2>1 DEF EnterStopping, HangOnStateLock
  <2>3. QED
    BY <1>1, <2>2, NothingMoves
<1>6. CASE to \notin {"RUNNING", "DEGRADED", "STOPPING"}
  <2>1. Goto(c, next)
    BY <1>6 DEF SetState, to
  <2>2. Calm
    BY <1>2, <2>1
  <2>3. QED
    BY <1>1, <2>2, NothingMoves
<1>7. QED
  BY <1>3, <1>4, <1>5, <1>6

LEMMA ConservedStep == TypeOK /\ Conserved /\ [Next]_vars => Conserved'
<1> SUFFICES ASSUME TypeOK, Conserved, [Next]_vars PROVE Conserved'
  OBVIOUS
<1> DEFINE Same == UNCHANGED <<buffer, queue, hand, sent, done, lost, tries>>
           Calm == \A t \in Threads :
                     \/ pc'[t] \in {pc[t], "add", "put", "readd", "busy", "busyHigh", "ownLock"}
                     \/ hand[t] = {}
<1>0. Same /\ Calm => Conserved'
  BY NothingMoves
<1> USE HandlerAssumption DEF TypeOK, Threads, Hung, ControllerPCs, ProducerPCs, WorkerPCs,
     DogPCs, Goto, locks, threads, crew, books, msgs
<1>1. ASSUME NEW c \in Controllers, CallStart(c) \/ CallStop(c) PROVE Conserved'
  BY <1>0, <1>1 DEF CallStart, CallStop, Conserved, HandsEmpty
<1>2. ASSUME NEW c \in Controllers, Start(c) PROVE Conserved'
  <2>1. CASE \/ StartLocks(c) \/ SwitchOn(c) \/ WorkersReady(c) \/ StartFails(c)
             \/ StartReturns(c) \/ \E m \in Msgs : ReAddRegisters(c, m)
    BY <1>0, <2>1 DEF StartLocks, SwitchOn, WorkersReady, StartFails, ReAddRegisters, StartReturns,
       Conserved, HandsEmpty
  <2>2. CASE SetStarting(c) \/ WorkerNotAlive(c) \/ SetRunning(c)
    <3>1. PICK s \in States, next \in ControllerPCs :
            SetState(c, s, next) /\ pc[c] \in {"again", "starting", "verify", "running"}
      BY <2>2 DEF SetStarting, WorkerNotAlive, SetRunning, States
    <3>2. QED
      BY <3>1, StateSetCalm
  <2>3. CASE SpawnWorkers(c) \/ StartWatchdog(c)
    BY <1>0, <2>3 DEF SpawnWorkers, StartWatchdog, Spare, SpareDogs, Spawning, Alive,
       Conserved, HandsEmpty
  <2>4. CASE TakeBuffered(c)
    BY <2>4 DEF TakeBuffered, Conserved, HandsEmpty, Separate, Present
  <2>5. ASSUME NEW m \in Msgs, ReAdd(c, m) PROVE Conserved'
    BY <2>5 DEF ReAdd, Enqueue, Conserved, HandsEmpty, Separate, Present
  <2>6. QED
    BY <1>2, <2>1, <2>2, <2>3, <2>4, <2>5 DEF Start
<1>3. ASSUME NEW c \in Controllers, Stop(c) PROVE Conserved'
  <2>1. CASE StopLocks(c) \/ QueueEmptied(c) \/ Join(c)
    BY <1>0, <2>1 DEF StopLocks, QueueEmptied, Join, Conserved, HandsEmpty
  <2>2. CASE FirstStopping(c) \/ SecondStopping(c) \/ SetStopped(c)
    <3>1. PICK s \in States, next \in ControllerPCs :
            SetState(c, s, next) /\ pc[c] \in {"stopping", "stoppingAgain", "stopped"}
      BY <2>2 DEF FirstStopping, SecondStopping, SetStopped, States
    <3>2. QED
      BY <3>1, StateSetCalm
  <2>3. ASSUME NEW m \in Msgs, HandleLeftover(c, m) PROVE Conserved'
    BY <2>3 DEF HandleLeftover, Conserved, HandsEmpty, Separate, Present
  <2>4. QED
    BY <1>3, <2>1, <2>2, <2>3 DEF Stop
<1>4. ASSUME NEW p \in Producers, Add(p) PROVE Conserved'
  <2>1. CASE AddBuffers(p)
    BY <2>1 DEF AddBuffers, Conserved, HandsEmpty, Separate, Present
  <2>2. CASE RestartWaitEnds(p) \/ AddPasses(p) \/ \E m \in Msgs : Register(p, m)
    BY <1>0, <2>2 DEF RestartWaitEnds, AddPasses, Register, Conserved, HandsEmpty
  <2>3. CASE AddQueues(p)
    BY <2>3 DEF AddQueues, Enqueue, Conserved, HandsEmpty, Separate, Present
  <2>4. QED
    BY <1>4, <2>1, <2>2, <2>3 DEF Add
<1>5. ASSUME NEW p \in Producers, NEW m \in Msgs, CallAdd(p, m) PROVE Conserved'
  BY <1>5 DEF CallAdd, Conserved, HandsEmpty, Separate, Present
<1>6. ASSUME NEW w \in Workers, Work(w) PROVE Conserved'
  <2>1. CASE \/ LoopCreated(w) \/ LoopFails(w) \/ DegradeFails(w) \/ Dies(w) \/ TestRunning(w)
             \/ ReadState(w) \/ Flush(w) \/ Dispatch(w) \/ WakeUp(w) \/ GetNothing(w)
             \/ LookAgain(w) \/ \E m \in Msgs : Register(w, m)
    BY <1>0, <2>1 DEF LoopCreated, LoopFails, DegradeFails, Dies, TestRunning, ReadState, Flush,
       Dispatch, WakeUp, GetNothing, LookAgain, Register, HangOnStateLock, Conserved, HandsEmpty
  <2>2. CASE FlushTakes(w)
    BY <2>2 DEF FlushTakes, Conserved, HandsEmpty, Separate, Present
  <2>3. CASE FlushPuts(w)
    BY <2>3 DEF FlushPuts, Enqueue, Conserved, HandsEmpty, Separate, Present
  <2>4. CASE Handled(w, "busyHigh", "get") \/ Handled(w, "busy", "loop")
    BY <2>4 DEF Handled, Conserved, HandsEmpty, Separate, Present
  <2>5. ASSUME NEW m \in Msgs, Get(w, m, "high", "busyHigh") \/ Get(w, m, "get", "busy")
        PROVE  Conserved'
    BY <2>5 DEF Get, Conserved, HandsEmpty, Separate, Present
  <2>6. QED
    BY <1>6, <2>1, <2>2, <2>3, <2>4, <2>5 DEF Work
<1>7. ASSUME NEW d \in Dogs, Watch(d) PROVE Conserved'
  <2>1. CASE TenSecondsPass(d) \/ WatchdogEnds(d) \/ WatchdogFlushes(d) \/ WatchdogRecovers(d)
    BY <1>0, <2>1 DEF TenSecondsPass, WatchdogEnds, WatchdogFlushes, WatchdogRecovers,
       HangOnStateLock, Replacements, Spare, Recovering, Alive, Conserved, HandsEmpty
  <2>2. ASSUME NEW m \in Msgs, Retry(d, m) PROVE Conserved'
    <3>1. tries'[m] # 0 /\ \A n \in Msgs : n # m => tries'[n] = tries[n]
      BY <2>2 DEF Retry
    <3>2. QED
      BY <2>2, <3>1 DEF Retry, Conserved, HandsEmpty, Separate, Present
  <2>3. ASSUME NEW m \in Msgs, GiveUp(d, m) PROVE Conserved'
    BY <1>0, <2>3 DEF GiveUp
  <2>4. QED
    BY <1>7, <2>1, <2>2, <2>3 DEF Watch
<1>8. CASE UNCHANGED vars
  BY <1>0, <1>8 DEF vars
<1>9. QED
  BY <1>1, <1>2, <1>3, <1>4, <1>5, <1>6, <1>7, <1>8 DEF Next, Control

\* Each message added is in one place until the watchdog queues it again, and
\* somewhere after that; dropped are only invalid ones, and ones without an id
\* or without a handler.
THEOREM MessagesSafe == Spec => []MessagesConserved
<1>1. TypeOK /\ Conserved => MessagesConserved
  <2> SUFFICES ASSUME TypeOK, Conserved, NEW m \in sent
              PROVE  Places(m) >= 1 /\ (tries[m] = 0 => Places(m) = 1)
    BY DEF Conserved, Present, MessagesConserved
  <2> DEFINE H == {t \in Threads : m \in hand[t]}
             Rest == (IF m \in buffer THEN 1 ELSE 0) + (IF m \in queue THEN 1 ELSE 0)
                     + (IF m \in done THEN 1 ELSE 0) + (IF m \in lost THEN 1 ELSE 0)
  <2>0. m \in Msgs /\ Rest \in Nat /\ Places(m) = Rest + Cardinality(H)
    BY DEF TypeOK, Places
  <2>1. CASE H = {}
    <3>1. Cardinality(H) = 0
      BY <2>1, FS_EmptySet
    <3>2. m \in buffer \cup queue \cup done \cup lost
      BY <2>1 DEF Conserved, Present
    <3>3. Rest >= 1 /\ (tries[m] = 0 => Rest = 1)
      BY <2>0, <3>2 DEF Conserved, Separate
    <3>4. QED
      BY <2>0, <3>1, <3>3
  <2>2. CASE H # {} /\ tries[m] = 0
    <3>1. PICK t \in Threads : m \in hand[t]
      BY <2>2
    <3>2. H = {t} /\ m \notin buffer \cup queue \cup done \cup lost
      BY <2>0, <2>2, <3>1 DEF Conserved, Separate
    <3>3. Cardinality(H) = 1
      BY <3>2, FS_Singleton
    <3>4. QED
      BY <2>0, <3>2, <3>3
  <2>3. CASE H # {} /\ tries[m] # 0
    <3>1. IsFiniteSet(Threads)
      BY FiniteThreads
    <3>2. Cardinality(H) \in Nat /\ Cardinality(H) # 0
      BY <2>3, <3>1, FS_Subset, FS_EmptySet, FS_CardinalityType
    <3>3. QED
      BY <2>0, <2>3, <3>2
  <2>4. QED
    BY <2>1, <2>2, <2>3
<1>2. QED
  BY <1>1, TypeInit, TypeStep, ConservedInit, ConservedStep, PTL DEF Spec

-----------------------------------------------------------------------------
\* The buffer

\* A message is buffered only outside the serving states, and start() takes the
\* buffer after it has entered them: while the handler serves, nothing is left
\* in a buffer nobody looks at.
THEOREM BufferDrained == Spec => []ServingDrainsBuffer
<1> USE HandlerAssumption DEF Lifecycle, TypeOK, ServingDrainsBuffer, Threads, Goto, locks, threads,
     crew, books, msgs
<1>1. Init => ServingDrainsBuffer
  BY DEF Init
<1>2. Lifecycle /\ ServingDrainsBuffer /\ [Next]_vars => ServingDrainsBuffer'
  <2> SUFFICES ASSUME Lifecycle, ServingDrainsBuffer, [Next]_vars PROVE ServingDrainsBuffer'
    OBVIOUS
  <2>1. ASSUME NEW c \in Controllers, CallStart(c) \/ CallStop(c) \/ Start(c)
        PROVE  ServingDrainsBuffer'
    <3>1. CASE SetStarting(c) \/ WorkerNotAlive(c)
      <4>1. state' \in {"STARTING", "STOPPED"}
        BY <3>1, SetStateEnters DEF SetStarting, WorkerNotAlive, States, Phase
      <4>2. QED
        BY <4>1 DEF Serving
    <3>2. CASE SetRunning(c)
      <4>1. EnterRunning(c, "dog")
        BY <3>2, SetStateEnters DEF SetRunning, States, Phase
      <4>2. pc'[c] = "dog"
        BY <4>1 DEF EnterRunning, Recovering
      <4>3. QED
        BY <4>2
    <3>3. CASE SpawnWorkers(c) \/ StartWatchdog(c)
      BY <3>3 DEF SpawnWorkers, StartWatchdog, Spare, SpareDogs, Spawning
    <3>4. CASE TakeBuffered(c) \/ \E m \in Msgs : ReAdd(c, m) \/ ReAddRegisters(c, m)
      BY <3>4 DEF TakeBuffered, ReAdd, ReAddRegisters
    <3>5. CASE \/ StartLocks(c) \/ SwitchOn(c) \/ WorkersReady(c) \/ StartFails(c)
               \/ StartReturns(c) \/ CallStart(c) \/ CallStop(c)
      BY <3>5 DEF StartLocks, SwitchOn, WorkersReady, StartFails, StartReturns, CallStart, CallStop
    <3>6. QED
      BY <2>1, <3>1, <3>2, <3>3, <3>4, <3>5 DEF Start
  <2>2. ASSUME NEW c \in Controllers, Stop(c) PROVE ServingDrainsBuffer'
    <3>1. CASE FirstStopping(c) \/ SecondStopping(c) \/ SetStopped(c)
      <4>1. state' \in {"STOPPING", "STOPPED"}
        BY <3>1, SetStateEnters DEF FirstStopping, SecondStopping, SetStopped, EnterStopping,
           States, Phase
      <4>2. QED
        BY <4>1 DEF Serving
    <3>2. CASE \/ StopLocks(c) \/ QueueEmptied(c) \/ Join(c)
               \/ \E m \in Msgs : HandleLeftover(c, m)
      BY <3>2 DEF StopLocks, QueueEmptied, Join, HandleLeftover
    <3>3. QED
      BY <2>2, <3>1, <3>2 DEF Stop
  <2>3. ASSUME NEW p \in Producers, Add(p) \/ \E m \in Msgs : CallAdd(p, m)
        PROVE  ServingDrainsBuffer'
    <3>1. CASE AddBuffers(p)
      BY <3>1 DEF AddBuffers
    <3>2. QED
      BY <2>3, <3>1 DEF Add, CallAdd, RestartWaitEnds, AddPasses, AddQueues, Register
  <2>4. ASSUME NEW w \in Workers, Work(w) PROVE ServingDrainsBuffer'
    BY <2>4 DEF Work, LoopCreated, LoopFails, DegradeFails, Dies, TestRunning, ReadState, Flush,
       FlushTakes, FlushPuts, Dispatch, WakeUp, GetNothing, LookAgain, Handled, Register, Get,
       HangOnStateLock
  <2>5. ASSUME NEW d \in Dogs, Watch(d) PROVE ServingDrainsBuffer'
    BY <2>5 DEF Watch, TenSecondsPass, WatchdogEnds, WatchdogRecovers, WatchdogFlushes, Retry,
       GiveUp, HangOnStateLock, Replacements, Spare, Recovering
  <2>6. CASE UNCHANGED vars
    BY <2>6 DEF vars
  <2>7. QED
    BY <2>1, <2>2, <2>3, <2>4, <2>5, <2>6 DEF Next, Control
<1>3. QED
  BY <1>1, <1>2, LifecycleInit, LifecycleStep, PTL DEF Spec

-----------------------------------------------------------------------------
\* Workers

LEMMA CrewInit == Init => Crew
  BY FS_EmptySet, HandlerAssumption DEF Init, Crew, Alive, Threads

\* _recover_workers() leaves num_workers at most.
LEMMA RecoverLemma ==
  ASSUME TypeOK, Cardinality(workers) <= NumWorkers, NEW ws \in Replacements
  PROVE  Cardinality((workers \ Dead) \cup ws) <= NumWorkers
<1>1. IsFiniteSet(workers) /\ Dead \subseteq workers
  BY FiniteThreads, FS_Subset DEF TypeOK, Dead
<1>2. ws \cap workers = {} /\ IsFiniteSet(ws)
  BY FiniteThreads, FS_Subset DEF Replacements, Spare
<1>3. IsFiniteSet(Dead) /\ IsFiniteSet(workers \ Dead)
  BY <1>1, FS_Subset, FS_Difference
<1>4. Cardinality(workers \ Dead) = Cardinality(workers) - Cardinality(Dead)
  <2>1. workers \cap Dead = Dead
    BY <1>1
  <2>2. QED
    BY <1>1, <2>1, FS_Difference
<1>5. Cardinality((workers \ Dead) \cup ws) = Cardinality(workers \ Dead) + Cardinality(ws)
  <2>1. (workers \ Dead) \cap ws = {}
    BY <1>2
  <2>2. /\ Cardinality((workers \ Dead) \cap ws) = 0
        /\ Cardinality(workers \ Dead) \in Nat /\ Cardinality(ws) \in Nat
    BY <1>2, <1>3, <2>1, FS_EmptySet, FS_CardinalityType
  <2>3. Cardinality((workers \ Dead) \cup ws) =
          Cardinality(workers \ Dead) + Cardinality(ws) - Cardinality((workers \ Dead) \cap ws)
    BY <1>2, <1>3, FS_Union
  <2>4. QED
    BY <2>2, <2>3
<1>6. /\ Cardinality(workers) \in Nat /\ Cardinality(Dead) \in Nat /\ Cardinality(ws) \in Nat
      /\ Cardinality(ws) <= Cardinality(Dead)
  <2>1. Cardinality(workers) \in Nat /\ Cardinality(Dead) \in Nat /\ Cardinality(ws) \in Nat
    BY <1>1, <1>2, <1>3, FS_CardinalityType
  <2>2. QED
    BY <2>1 DEF Replacements
<1>7. QED
  BY <1>4, <1>5, <1>6, HandlerAssumption

LEMMA CrewStep == Lifecycle /\ Crew /\ [Next]_vars => Crew'
<1> SUFFICES ASSUME Lifecycle, Crew, [Next]_vars PROVE Crew'
  OBVIOUS
<1> USE HandlerAssumption DEF Lifecycle, TypeOK, Phase, LockHeld, Crew, Threads, Goto, locks,
     threads, crew, books, msgs, Alive
<1>1. ASSUME NEW c \in Controllers, CallStart(c) \/ CallStop(c) \/ Start(c) PROVE Crew'
  <2>1. CASE SetStarting(c) \/ WorkerNotAlive(c)
    <3>1. PICK s \in {"STARTING", "STOPPED"}, next \in {"switchOn", "failed"} :
            /\ state' = s /\ Goto(c, next) /\ UNCHANGED <<lock, crew>>
            /\ next = "switchOn" => pc[c] = "starting"
      BY <2>1, SetStateEnters DEF SetStarting, WorkerNotAlive, States
    <3>2. lock = c
      BY <2>1 DEF SetStarting, WorkerNotAlive
    <3>3. QED
      BY <3>1, <3>2
  <2>2. CASE SpawnWorkers(c)
    <3>1. PICK ws \in SUBSET Spare : /\ Cardinality(ws) = NumWorkers
                                     /\ workers' = workers \cup ws
                                     /\ left' = left \ ws
                                     /\ Spawning(c, "verify", ws, {})
      BY <2>2 DEF SpawnWorkers
    <3>2. workers' = ws
      BY <2>2, <3>1 DEF SpawnWorkers
    <3>3. Cardinality(workers') <= NumWorkers
      <4>1. Cardinality(workers') = NumWorkers
        BY <3>1, <3>2, Zenon
      <4>2. QED
        BY <4>1
    <3>4. state' = "STARTING" /\ lock' = lock /\ pc[c] = "spawn"
      BY <2>2 DEF SpawnWorkers
    <3>5. QED
      BY <3>1, <3>2, <3>3, <3>4 DEF Spawning, Spare
  <2>3. CASE SetRunning(c)
    <3>1. EnterRunning(c, "dog") /\ lock' = lock /\ pc[c] = "running"
      BY <2>3, SetStateEnters DEF SetRunning, States
    <3>2. PICK ws \in Replacements, ds \in SUBSET SpareDogs, zs \in SUBSET workers :
            Recovering(c, "dog", ws, ds, zs) /\ state' \in Serving
      <4>1. PICK ws \in Replacements, d \in NextWatchdog,
                 zs \in SUBSET {w \in workers : pc[w] = "dying"} :
              Recovering(c, "dog", ws, {d} \cap SpareDogs, zs) /\ state' \in Serving
        BY <3>1 DEF EnterRunning, Serving
      <4>2. zs \in SUBSET workers /\ {d} \cap SpareDogs \in SUBSET SpareDogs
        OBVIOUS
      <4>3. QED
        BY <4>1, <4>2
    <3>3. Cardinality(workers') <= NumWorkers
      BY <3>2, RecoverLemma DEF Recovering
    <3>4. QED
      BY <3>1, <3>2, <3>3 DEF Recovering, Replacements, Spare, SpareDogs, Dead, Serving
  <2>4. CASE StartWatchdog(c)
    BY <2>4 DEF StartWatchdog, Spawning, SpareDogs
  <2>5. CASE TakeBuffered(c) \/ \E m \in Msgs : ReAdd(c, m) \/ ReAddRegisters(c, m)
    BY <2>5 DEF TakeBuffered, ReAdd, ReAddRegisters
  <2>6. CASE SwitchOn(c) \/ WorkersReady(c) \/ StartFails(c) \/ CallStart(c) \/ CallStop(c)
    BY <2>6 DEF SwitchOn, WorkersReady, StartFails, CallStart, CallStop
  <2>7. CASE StartLocks(c) \/ StartReturns(c)
    BY <2>7 DEF StartLocks, StartReturns, started, Serving
  <2>8. QED
    BY <1>1, <2>1, <2>2, <2>3, <2>4, <2>5, <2>6, <2>7 DEF Start
<1>2. ASSUME NEW c \in Controllers, Stop(c) PROVE Crew'
  <2>1. CASE FirstStopping(c) \/ SecondStopping(c)
    <3>1. PICK next \in {"empty", "join"} : EnterStopping(c, next) /\ lock' = lock
      BY <2>1, SetStateEnters DEF FirstStopping, SecondStopping, States
    <3>2. QED
      BY <3>1 DEF EnterStopping, HangOnStateLock
  <2>2. CASE SetStopped(c)
    <3>1. state' = "STOPPED" /\ Goto(c, "idle") /\ UNCHANGED crew /\ pc[c] = "stopped"
      BY <2>2, SetStateEnters DEF SetStopped, States
    <3>2. QED
      BY <3>1
  <2>3. CASE Join(c)
    <3>1. Cardinality(workers') = 0
      BY <2>3, FS_EmptySet DEF Join
    <3>2. QED
      BY <2>3, <3>1 DEF Join, JoinOver
  <2>4. CASE StopLocks(c) \/ QueueEmptied(c) \/ \E m \in Msgs : HandleLeftover(c, m)
    BY <2>4 DEF StopLocks, QueueEmptied, HandleLeftover
  <2>5. QED
    BY <1>2, <2>1, <2>2, <2>3, <2>4 DEF Stop
<1>3. ASSUME NEW p \in Producers, Add(p) \/ \E m \in Msgs : CallAdd(p, m) PROVE Crew'
  <2>1. CASE AddBuffers(p)
    BY <2>1 DEF AddBuffers
  <2>2. QED
    BY <1>3, <2>1 DEF Add, CallAdd, RestartWaitEnds, AddPasses, AddQueues, Register
<1>4. ASSUME NEW w \in Workers, Work(w) PROVE Crew'
  BY <1>4 DEF Work, LoopCreated, LoopFails, DegradeFails, Dies, TestRunning, ReadState, Flush,
     FlushTakes, FlushPuts, Dispatch, WakeUp, GetNothing, LookAgain, Handled, Register, Get,
     HangOnStateLock
<1>5. ASSUME NEW d \in Dogs, Watch(d) PROVE Crew'
  <2>1. CASE WatchdogRecovers(d)
    <3>1. PICK ws \in Replacements : Recovering(d, "ownStateLock", ws, {}, {})
      BY <2>1 DEF WatchdogRecovers
    <3>2. Cardinality(workers') <= NumWorkers
      BY <3>1, RecoverLemma DEF Recovering
    <3>3. workers # {} /\ state' = "DEGRADED"
      BY <2>1 DEF WatchdogRecovers, Dead
    <3>4. QED
      BY <2>1, <3>1, <3>2, <3>3 DEF WatchdogRecovers, Recovering, Replacements, Spare, Dead
  <2>2. QED
    BY <1>5, <2>1 DEF Watch, TenSecondsPass, WatchdogEnds, WatchdogFlushes, Retry, GiveUp,
       HangOnStateLock
<1>6. CASE UNCHANGED vars
  BY <1>6 DEF vars
<1>7. QED
  BY <1>1, <1>2, <1>3, <1>4, <1>5, <1>6 DEF Next, Control

\* However often the handler is stopped and started, with workers that die and
\* are replaced, every live worker that no join gave up is one the handler
\* knows, and there are num_workers at most.
THEOREM CrewBounded == Spec => []WorkersBounded
<1>1. TypeOK /\ Crew => WorkersBounded
  <2> SUFFICES ASSUME TypeOK, Crew PROVE WorkersBounded
    OBVIOUS
  <2> DEFINE live == {w \in Workers \ left : Alive(w)}
  <2>1. live \subseteq workers
    BY DEF Crew
  <2>2. IsFiniteSet(workers)
    BY FiniteThreads, FS_Subset DEF TypeOK
  <2>3. Cardinality(live) <= Cardinality(workers) /\ IsFiniteSet(live)
    BY <2>1, <2>2, FS_Subset
  <2>4. Cardinality(live) \in Nat /\ Cardinality(workers) \in Nat
    BY <2>2, <2>3, FS_CardinalityType
  <2>5. QED
    BY <2>1, <2>3, <2>4, HandlerAssumption DEF Crew, WorkersBounded
<1>2. QED
  BY <1>1, LifecycleInit, LifecycleStep, CrewInit, CrewStep, PTL DEF Spec, Lifecycle
=============================================================================
