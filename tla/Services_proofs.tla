-------------------------- MODULE Services_proofs --------------------------
(***************************************************************************)
(* The two services that all parts of the process call.                    *)
(*                                                                         *)
(* The event bus, for any number of controllers, processor threads, keys   *)
(* and events: two processors never live at once, a started bus is served, *)
(* and a callback is passed over only for a 1553B message and a list that  *)
(* shrank.                                                                 *)
(*                                                                         *)
(* The operation tracker, for any number of callers and operations: an     *)
(* operation runs once, and a call that returns finds it performed or      *)
(* marked.                                                                 *)
(***************************************************************************)
EXTENDS EventBus, OperationTracker, SequenceTheorems, TLAPS

\* A processor that lives is the one start() created last.
LastOneLives == \A t \in Threads : Alive(t) => thread = t

\* The callbacks that a processor's loop has still to come to.
Ahead(t) == {Listening(t)[i] : i \in index[t] .. Len(Listening(t))}

\* Who is owed the event in hand is ahead of the loop, unless the loop runs
\* over a live list that lost an entry.
OwedIsAhead ==
    \A t \in Threads : pc[t] = "calls" =>
        /\ hand[t] \in Event /\ index[t] >= 1
        /\ hand[t].key \in Topics \/ hand[t].n \notin disturbed => owed[t] \subseteq Ahead(t)

-----------------------------------------------------------------------------
\* Sequences

\* list.remove() leaves a list of callbacks.
LEMMA RemoveLemma ==
    ASSUME NEW S, NEW s \in Seq(S), NEW i \in DOMAIN s
    PROVE  RemoveAt(s, i) \in Seq(S)
<1>1. i \in 1 .. Len(s) /\ Len(s) \in Nat
  BY LenProperties
<1>2. SubSeq(s, 1, i - 1) \in Seq(S) /\ SubSeq(s, i + 1, Len(s)) \in Seq(S)
  BY <1>1, SubSeqProperties
<1>3. QED
  BY <1>2, ConcatProperties DEF RemoveAt

-----------------------------------------------------------------------------
\* Types

LEMMA TypeInit == Init => TypeOK
<1> SUFFICES ASSUME Init PROVE TypeOK
  OBVIOUS
<1>1. << >> \in Seq(Callbacks) /\ << >> \in Seq(Event)
  BY EmptySeq
<1>2. subscribers \in [Keys -> Seq(Callbacks)] /\ copy \in [Threads -> Seq(Callbacks)]
  BY <1>1 DEF Init
<1>3. queue \in Seq(Event) /\ hand \in [Threads -> Event \cup {<< >>}]
  BY <1>1 DEF Init
<1>4. /\ pc \in [Threads -> {"unborn", "failed", "top", "take", "calls", "dead"}]
      /\ index \in [Threads -> Nat]
      /\ stopping \in [Controllers -> {"no", "join", "mark"}]
      /\ owed \in [Threads -> SUBSET Callbacks]
  BY DEF Init
<1>5. running \in BOOLEAN /\ started \in BOOLEAN /\ thread \in Threads \cup {NoThread}
  BY DEF Init
<1>6. published \in 0 .. MaxEvents /\ finished \subseteq 1 .. MaxEvents
  BY BusAssumption DEF Init
<1>7. disturbed \subseteq 1 .. MaxEvents
  BY DEF Init
<1>8. QED
  BY <1>2, <1>3, <1>4, <1>5, <1>6, <1>7 DEF TypeOK

LEMMA TypeStep == TypeOK /\ OwedIsAhead /\ [Next]_vars => TypeOK'
<1> SUFFICES ASSUME TypeOK, OwedIsAhead, [Next]_vars PROVE TypeOK'
  OBVIOUS
<1> USE BusAssumption DEF TypeOK, bus, processor, history
<1>1. ASSUME NEW k \in Keys, Publish(k) PROVE TypeOK'
  <2>1. published' \in 1 .. MaxEvents /\ [key |-> k, n |-> published'] \in Event
    BY <1>1 DEF Publish, Event
  <2>2. QED
    BY <1>1, <2>1, AppendProperties DEF Publish
<1>2. ASSUME NEW k \in Keys, NEW c \in Callbacks, Subscribe(k, c) PROVE TypeOK'
  BY <1>2, AppendProperties DEF Subscribe
<1>3. ASSUME NEW k \in Keys, NEW c \in Callbacks, Unsubscribe(k, c) PROVE TypeOK'
  <2>1. subscribers' \in [Keys -> Seq(Callbacks)]
    BY <1>3, RemoveLemma DEF Unsubscribe
  <2>2. disturbed' \subseteq 1 .. MaxEvents
    <3>1. \A t \in {u \in Threads : Handling(u, k)} : hand[t].n \in 1 .. MaxEvents
      BY DEF OwedIsAhead, Handling, Event
    <3>2. disturbed' = disturbed \cup {hand[t].n : t \in {u \in Threads : Handling(u, k)}}
      BY <1>3 DEF Unsubscribe
    <3>3. disturbed \subseteq 1 .. MaxEvents
      OBVIOUS
    <3> HIDE DEF TypeOK
    <3>4. QED
      BY <3>1, <3>2, <3>3, Zenon
  <2>3. QED
    BY <1>3, <2>1, <2>2 DEF Unsubscribe
<1>4. ASSUME NEW c \in Controllers, Control(c) PROVE TypeOK'
  BY <1>4 DEF Control, Start, StartFails, StopBegins, StopJoins, StopEnds
<1>5. ASSUME NEW t \in Threads, Check(t) \/ Idle(t) PROVE TypeOK'
  BY <1>5 DEF Check, Idle
<1>6. ASSUME NEW t \in Threads, Take(t) PROVE TypeOK'
  <2>1. Head(queue) \in Event /\ Tail(queue) \in Seq(Event)
    BY <1>6, HeadTailProperties DEF Take
  <2>2. subscribers[Head(queue).key] \in Seq(Callbacks)
    BY <2>1 DEF Event
  <2>3. Range(subscribers[Head(queue).key]) \in SUBSET Callbacks
    BY <2>2, RangeOfSeq
  <2>4. copy' \in [Threads -> Seq(Callbacks)]
    BY <1>6, <2>2, EmptySeq DEF Take
  <2>5. owed' \in [Threads -> SUBSET Callbacks]
    BY <1>6, <2>3 DEF Take
  <2>6. QED
    BY <1>6, <2>1, <2>4, <2>5 DEF Take
<1>7. ASSUME NEW t \in Threads, Call(t) PROVE TypeOK'
  BY <1>7 DEF Call
<1>8. ASSUME NEW t \in Threads, Done(t) PROVE TypeOK'
  <2>1. hand[t].n \in 1 .. MaxEvents
    BY <1>8 DEF Done, OwedIsAhead, Event
  <2>2. << >> \in Seq(Callbacks)
    BY EmptySeq
  <2>3. QED
    BY <1>8, <2>1, <2>2 DEF Done
<1>9. CASE UNCHANGED vars
  BY <1>9 DEF vars
<1>10. QED
  BY <1>1, <1>2, <1>3, <1>4, <1>5, <1>6, <1>7, <1>8, <1>9 DEF Next, Clients, Process

-----------------------------------------------------------------------------
\* Processors

Served == LastOneLives /\ StartedIsServed

LEMMA ServedInit == Init => Served
  BY DEF Init, Served, LastOneLives, StartedIsServed, Alive

LEMMA ServedStep == TypeOK /\ Served /\ [Next]_vars => Served'
<1> SUFFICES ASSUME TypeOK, Served, [Next]_vars PROVE Served'
  OBVIOUS
<1> USE BusAssumption DEF TypeOK, Served, LastOneLives, StartedIsServed, Alive, bus, processor,
     history
<1>1. CASE Clients
  BY <1>1 DEF Clients, Publish, Subscribe, Unsubscribe
<1>2. ASSUME NEW c \in Controllers, NEW t \in Threads, Start(c, t) \/ StartFails(c, t)
      PROVE  Served'
  <2>1. \A u \in Threads : ~Alive(u)
    BY <1>2 DEF Start, StartFails, CanSpawn
  <2>2. QED
    BY <1>2, <2>1 DEF Start, StartFails, CanSpawn
<1>3. ASSUME NEW c \in Controllers, StopBegins(c) \/ StopJoins(c) \/ StopEnds(c) PROVE Served'
  BY <1>3 DEF StopBegins, StopJoins, StopEnds
<1>4. ASSUME NEW t \in Threads, Process(t) PROVE Served'
  BY <1>4 DEF Process, Check, Idle, Take, Call, Done
<1>5. CASE UNCHANGED vars
  BY <1>5 DEF vars
<1>6. QED
  BY <1>1, <1>2, <1>3, <1>4, <1>5 DEF Next, Control

-----------------------------------------------------------------------------
\* Callbacks

LEMMA OwedInit == Init => OwedIsAhead
  BY DEF Init, OwedIsAhead

LEMMA OwedStep == TypeOK /\ OwedIsAhead /\ [Next]_vars => OwedIsAhead'
<1> SUFFICES ASSUME TypeOK, OwedIsAhead, [Next]_vars PROVE OwedIsAhead'
  OBVIOUS
<1> USE BusAssumption DEF bus, processor, history
<1> DEFINE Ok(t) == pc[t] = "calls" =>
        /\ hand[t] \in Event /\ index[t] >= 1
        /\ hand[t].key \in Topics \/ hand[t].n \notin disturbed => owed[t] \subseteq Ahead(t)
<1>0. \A t \in Threads : Ok(t)
  BY DEF OwedIsAhead
<1> SUFFICES ASSUME NEW t \in Threads PROVE Ok(t)'
  BY DEF OwedIsAhead
<1> DEFINE Untouched(u) == /\ pc'[u] = pc[u] /\ hand'[u] = hand[u] /\ copy'[u] = copy[u]
                           /\ index'[u] = index[u] /\ owed'[u] = owed[u]
<1>u. subscribers' = subscribers /\ disturbed' = disturbed /\ Untouched(t) => Ok(t)'
  BY <1>0 DEF Ahead, Listening
<1>n. pc'[t] # "calls" => Ok(t)'
  OBVIOUS
<1> HIDE DEF Ok
<1>1. ASSUME NEW k \in Keys, Publish(k) PROVE Ok(t)'
  BY <1>0, <1>1 DEF Publish, Ok, Ahead, Listening
<1>2. ASSUME NEW k \in Keys, NEW c \in Callbacks, Subscribe(k, c) PROVE Ok(t)'
  <2>1. ASSUME pc[t] = "calls" PROVE Ahead(t) \subseteq Ahead(t)'
    <3>1. hand[t].key \in Keys /\ index[t] \in Nat /\ index[t] >= 1
      BY <1>0, <2>1 DEF Ok, Event, TypeOK
    <3>2. CASE hand[t].key \in Topics \/ hand[t].key # k
      BY <1>2, <3>1, <3>2 DEF Subscribe, Ahead, Listening, TypeOK
    <3>3. CASE hand[t].key \notin Topics /\ hand[t].key = k
      <4>1. /\ Listening(t) = subscribers[k] /\ Listening(t)' = Append(subscribers[k], c)
            /\ subscribers[k] \in Seq(Callbacks)
        BY <1>2, <3>3 DEF Subscribe, Listening, TypeOK
      <4>2. /\ Len(Append(subscribers[k], c)) = Len(subscribers[k]) + 1
            /\ \A i \in 1 .. Len(subscribers[k]) :
                  Append(subscribers[k], c)[i] = subscribers[k][i]
            /\ Len(subscribers[k]) \in Nat
        BY <4>1, AppendProperties, LenProperties
      <4>3. index' = index
        BY <1>2 DEF Subscribe
      <4>4. QED
        BY <3>1, <4>1, <4>2, <4>3 DEF Ahead
    <3>4. QED
      BY <3>2, <3>3
  <2>2. QED
    BY <1>0, <1>2, <2>1 DEF Subscribe, Ok
<1>3. ASSUME NEW k \in Keys, NEW c \in Callbacks, Unsubscribe(k, c) PROVE Ok(t)'
  <2> SUFFICES ASSUME pc[t] = "calls" PROVE Ok(t)'
    BY <1>3 DEF Unsubscribe, Ok
  <2>1. owed'[t] \subseteq owed[t]
    BY <1>3 DEF Unsubscribe
  <2>2. hand[t].key \in Topics \/ hand[t].n \notin disturbed' =>
          hand[t].key \in Topics \/ hand[t].key # k
    BY <1>3 DEF Unsubscribe, Handling
  <2>3. hand[t].key \in Topics \/ hand[t].key # k => Ahead(t)' = Ahead(t)
    BY <1>0, <1>3 DEF Unsubscribe, Ahead, Listening, TypeOK, Ok, Event
  <2>4. disturbed \subseteq disturbed'
    BY <1>3 DEF Unsubscribe
  <2>5. QED
    BY <1>0, <1>3, <2>1, <2>2, <2>3, <2>4 DEF Unsubscribe, Ok
<1>4. ASSUME NEW c \in Controllers, Control(c) PROVE Ok(t)'
  <2>1. ASSUME NEW u \in Threads, Start(c, u) \/ StartFails(c, u) PROVE Ok(t)'
    <3>1. CASE u = t
      BY <1>n, <2>1, <3>1 DEF Start, StartFails, TypeOK
    <3>2. CASE u # t
      BY <1>u, <2>1, <3>2 DEF Start, StartFails, TypeOK
    <3>3. QED
      BY <3>1, <3>2
  <2>2. CASE StopBegins(c) \/ StopJoins(c) \/ StopEnds(c)
    BY <1>u, <2>2 DEF StopBegins, StopJoins, StopEnds
  <2>3. QED
    BY <1>4, <2>1, <2>2 DEF Control
<1>5. ASSUME NEW u \in Threads, Check(u) \/ Idle(u) PROVE Ok(t)'
  <2>1. CASE u = t
    BY <1>n, <1>5, <2>1 DEF Check, Idle, TypeOK
  <2>2. CASE u # t
    BY <1>u, <1>5, <2>2 DEF Check, Idle, TypeOK
  <2>3. QED
    BY <2>1, <2>2
<1>6. ASSUME NEW u \in Threads, Take(u) PROVE Ok(t)'
  <2>1. CASE u = t
    <3>1. Head(queue) \in Event
      BY <1>6, HeadTailProperties DEF Take, TypeOK
    <3>2. /\ hand'[t] = Head(queue) /\ index'[t] = 1
          /\ owed'[t] = Range(subscribers[Head(queue).key])
          /\ Listening(t)' = subscribers[Head(queue).key]
      BY <1>6, <2>1 DEF Take, Listening, TypeOK
    <3>3. subscribers[Head(queue).key] \in Seq(Callbacks)
      BY <3>1 DEF Event, TypeOK
    <3>4. owed'[t] = Ahead(t)'
      BY <3>2, <3>3, RangeEquality DEF Ahead
    <3>5. QED
      BY <3>1, <3>2, <3>4 DEF Ok
  <2>2. CASE u # t
    BY <1>u, <1>6, <2>2 DEF Take, TypeOK
  <2>3. QED
    BY <2>1, <2>2
<1>7. ASSUME NEW u \in Threads, Call(u) PROVE Ok(t)'
  <2>1. CASE u = t
    <3>1. /\ pc[t] = "calls" /\ index[t] \in Nat /\ index[t] >= 1
          /\ index[t] <= Len(Listening(t)) /\ index'[t] = index[t] + 1
          /\ owed'[t] = owed[t] \ {Listening(t)[index[t]]}
          /\ Listening(t)' = Listening(t)
      BY <1>0, <1>7, <2>1 DEF Call, Listening, TypeOK, Ok
    <3>2. Listening(t) \in Seq(Callbacks)
      BY <1>0, <3>1 DEF Listening, TypeOK, Ok, Event
    <3>3. Len(Listening(t)) \in Nat
      BY <3>2, LenProperties
    <3>4. Ahead(t) \subseteq Ahead(t)' \cup {Listening(t)[index[t]]}
      BY <3>1, <3>3 DEF Ahead
    <3>5. QED
      BY <1>0, <1>7, <3>1, <3>4 DEF Call, Ok
  <2>2. CASE u # t
    BY <1>u, <1>7, <2>2 DEF Call, TypeOK
  <2>3. QED
    BY <2>1, <2>2
<1>8. ASSUME NEW u \in Threads, Done(u) PROVE Ok(t)'
  <2>1. CASE u = t
    BY <1>n, <1>8, <2>1 DEF Done, TypeOK
  <2>2. CASE u # t
    BY <1>u, <1>8, <2>2 DEF Done, TypeOK
  <2>3. QED
    BY <2>1, <2>2
<1>9. CASE UNCHANGED vars
  BY <1>u, <1>9 DEF vars
<1>10. QED
  BY <1>1, <1>2, <1>3, <1>4, <1>5, <1>6, <1>7, <1>8, <1>9 DEF Next, Clients, Process

LEMMA SkippedStep == TypeOK /\ OwedIsAhead /\ NobodySkipped /\ [Next]_vars => NobodySkipped'
<1> SUFFICES ASSUME TypeOK, OwedIsAhead, NobodySkipped, [Next]_vars PROVE NobodySkipped'
  OBVIOUS
<1> USE DEF bus, processor, history
<1>1. missed' = missed /\ disturbed \subseteq disturbed' => NobodySkipped'
  BY DEF NobodySkipped
<1>2. CASE Clients
  BY <1>1, <1>2 DEF Clients, Publish, Subscribe, Unsubscribe
<1>3. ASSUME NEW c \in Controllers, Control(c) PROVE NobodySkipped'
  BY <1>1, <1>3 DEF Control, Start, StartFails, StopBegins, StopJoins, StopEnds
<1>4. ASSUME NEW t \in Threads, Check(t) \/ Idle(t) \/ Take(t) \/ Call(t) PROVE NobodySkipped'
  BY <1>1, <1>4 DEF Check, Idle, Take, Call
<1>5. ASSUME NEW t \in Threads, Done(t) PROVE NobodySkipped'
  <2>1. Listening(t) \in Seq(Callbacks) /\ hand[t] \in Event
    BY <1>5 DEF Done, OwedIsAhead, Event, Listening, TypeOK
  <2>2. Ahead(t) = {}
    <3>1. Len(Listening(t)) \in Nat /\ index[t] \in Nat /\ index[t] > Len(Listening(t))
      BY <1>5, <2>1, LenProperties DEF Done, TypeOK
    <3>2. QED
      BY <3>1 DEF Ahead
  <2>3. owed[t] # {} => hand[t].key \in Addresses /\ hand[t].n \in disturbed
    BY <1>5, <2>1, <2>2 DEF Done, OwedIsAhead, Event, Keys
  <2>4. missed' = missed \cup {<<hand[t], c>> : c \in owed[t]} /\ disturbed' = disturbed
    BY <1>5 DEF Done
  <2>5. QED
    BY <2>3, <2>4 DEF NobodySkipped
<1>6. CASE UNCHANGED vars
  BY <1>1, <1>6 DEF vars
<1>7. QED
  BY <1>2, <1>3, <1>4, <1>5, <1>6 DEF Next, Process

-----------------------------------------------------------------------------
\* Every variable of the bus keeps its type.
THEOREM BusTyped == Spec => []TypeOK
  BY TypeInit, TypeStep, OwedInit, OwedStep, PTL DEF Spec

\* However start() and stop() interleave, and whatever a join that timed out
\* left behind, no two processors live at once.
THEOREM ProcessorAlone == Spec => []OneProcessor
<1>1. Served => OneProcessor
  BY DEF Served, LastOneLives, OneProcessor
<1>2. QED
  BY <1>1, TypeInit, TypeStep, OwedInit, OwedStep, ServedInit, ServedStep, PTL DEF Spec

\* A bus that says it is started and running has a processor that lives.
THEOREM BusServed == Spec => []StartedIsServed
<1>1. Served => StartedIsServed
  BY DEF Served
<1>2. QED
  BY <1>1, TypeInit, TypeStep, OwedInit, OwedStep, ServedInit, ServedStep, PTL DEF Spec

\* A callback that stays subscribed gets every event: only a 1553B message is
\* handled from a list that can change under the loop.
THEOREM SubscribersServed == Spec => []NobodySkipped
<1>1. Init => NobodySkipped
  BY DEF Init, NobodySkipped
<1>2. QED
  BY <1>1, TypeInit, TypeStep, OwedInit, OwedStep, SkippedStep, PTL DEF Spec

-----------------------------------------------------------------------------
\* The operation tracker

\* Only calls of track_operation() check, wait, run, record and release, and
\* they neither mark nor clear.
TrackersTrack ==
    \A t \in Callers : at[t] # "done" => (t \in Trackers <=> at[t] \notin {"mark", "clear"})

TrackerShape == TrackTypeOK /\ TrackersTrack

\* A caller is between its claim and its release exactly while its event is
\* the one in _in_progress.
Claimed ==
    \A t \in Trackers :
        at[t] \in {"ask", "run", "record", "release"} <=> inProgress[KeyOf[t]] = t

\* The claims are of the operations they are filed under.
ClaimsFiled == \A k \in Operations : inProgress[k] # Nobody => KeyOf[inProgress[k]] = k

\* What ran through since the last clear is recorded, or about to be, and
\* nobody has a claim that could run it again.
RunRecorded ==
    \A t \in performed :
        /\ at[t] = "record" \/ KeyOf[t] \in completed
        /\ \A u \in Trackers : at[u] \in {"ask", "run"} => KeyOf[u] # KeyOf[t]

\* It ran once.
PerformedOnce == \A t, u \in performed : KeyOf[t] = KeyOf[u] => t = u

Once == Claimed /\ ClaimsFiled /\ RunRecorded /\ PerformedOnce

\* What is recorded was performed or marked, and so was the operation of
\* every caller that is past its callback without an exception.
Informed ==
    /\ completed \subseteq known
    /\ \A t \in Trackers :
          /\ at[t] = "record" => KeyOf[t] \in known
          /\ at[t] \in {"release", "set", "done"} /\ t \notin raised => KeyOf[t] \in known

-----------------------------------------------------------------------------
\* Types

LEMMA TrackerShapeInit == TrackInit => TrackerShape
  BY TrackerAssumption DEF TrackInit, TrackerShape, TrackTypeOK, TrackersTrack, Callers, Sections

LEMMA TrackerShapeStep == TrackerShape /\ [TrackNext]_trackVars => TrackerShape'
<1> SUFFICES ASSUME TrackerShape, [TrackNext]_trackVars PROVE TrackerShape'
  OBVIOUS
<1> USE TrackerAssumption DEF TrackerShape, TrackTypeOK, TrackersTrack, Callers, Goto, Section
<1>0. \A t \in Callers : KeyOf[t] \in Operations
  BY DEF Operations
<1>1. ASSUME NEW t \in Callers, Track(t) PROVE TrackerShape'
  <2>1. CASE Skip(t)
    BY <2>1 DEF Skip, tables, outcomes
  <2>2. CASE Claim(t)
    BY <1>0, <2>2 DEF Claim, outcomes
  <2>3. CASE Await(t)
    BY <1>0, <2>3 DEF Await, tables, outcomes
  <2>4. CASE Wake(t)
    BY <2>4 DEF Wake, tables, outcomes
  <2>5. CASE Ask(t)
    BY <2>5 DEF Ask, tables, outcomes
  <2>6. CASE Perform(t)
    BY <1>0, <2>6 DEF Perform, tables
  <2>7. CASE PerformFails(t)
    BY <2>7 DEF PerformFails, tables
  <2>8. CASE Record(t)
    BY <1>0, <2>8 DEF Record, outcomes
  <2>9. CASE Release(t)
    BY <1>0, <2>9 DEF Release, outcomes
  <2>10. CASE SetEvent(t)
    BY <2>10 DEF SetEvent, outcomes
  <2>11. QED
    BY <1>1, <2>1, <2>2, <2>3, <2>4, <2>5, <2>6, <2>7, <2>8, <2>9, <2>10 DEF Track
<1>2. ASSUME NEW t \in Callers, Enter(t) PROVE TrackerShape'
  BY <1>2 DEF Enter, Sections, tables, outcomes
<1>3. ASSUME NEW t \in Callers, Mark(t) PROVE TrackerShape'
  BY <1>0, <1>3 DEF Mark
<1>4. ASSUME NEW t \in Callers, Clear(t) PROVE TrackerShape'
  BY <1>4 DEF Clear
<1>5. CASE UNCHANGED trackVars
  BY <1>5 DEF trackVars, tables, outcomes
<1>6. QED
  BY <1>1, <1>2, <1>3, <1>4, <1>5 DEF TrackNext

\* Every variable of the tracker keeps its type; in particular nobody waits
\* but for the event of a call of track_operation().
THEOREM TrackerTyped == TrackSpec => []TrackTypeOK
<1>1. QED
  BY TrackerShapeInit, TrackerShapeStep, PTL DEF TrackSpec, TrackerShape

-----------------------------------------------------------------------------
\* One run of an operation

LEMMA OnceInit == TrackInit => Once
  BY TrackerAssumption
  DEF TrackInit, Once, Claimed, ClaimsFiled, RunRecorded, PerformedOnce, Callers, Operations

LEMMA OnceStep == TrackerShape /\ Once /\ [TrackNext]_trackVars => Once'
<1> SUFFICES ASSUME TrackerShape, Once, [TrackNext]_trackVars PROVE Once'
  OBVIOUS
<1> USE TrackerAssumption
    DEF TrackerShape, TrackTypeOK, TrackersTrack, Once, Claimed, ClaimsFiled, RunRecorded,
        PerformedOnce, Callers, Goto, Section
<1>0. \A t \in Callers : KeyOf[t] \in Operations
  BY DEF Operations
<1>1. ASSUME NEW t \in Callers, Track(t) PROVE Once'
  <2>1. CASE Skip(t) \/ Await(t) \/ Wake(t)
    BY <1>0, <2>1 DEF Skip, Await, Wake, tables, outcomes
  <2>2. CASE Claim(t)
    BY <1>0, <2>2 DEF Claim, outcomes
  <2>3. CASE Ask(t)
    BY <1>0, <2>3 DEF Ask, tables, outcomes
  <2>4. CASE Perform(t)
    BY <1>0, <2>4 DEF Perform, tables
  <2>5. CASE PerformFails(t)
    BY <1>0, <2>5 DEF PerformFails, tables
  <2>6. CASE Record(t)
    BY <1>0, <2>6 DEF Record, outcomes
  <2>7. CASE Release(t)
    BY <1>0, <2>7 DEF Release, outcomes
  <2>8. CASE SetEvent(t)
    BY <1>0, <2>8 DEF SetEvent, outcomes
  <2>9. QED
    BY <1>1, <2>1, <2>2, <2>3, <2>4, <2>5, <2>6, <2>7, <2>8 DEF Track
<1>2. ASSUME NEW t \in Callers, Enter(t) PROVE Once'
  BY <1>2 DEF Enter, tables, outcomes
<1>3. ASSUME NEW t \in Callers, Mark(t) PROVE Once'
  BY <1>0, <1>3 DEF Mark
<1>4. ASSUME NEW t \in Callers, Clear(t) PROVE Once'
  BY <1>0, <1>4 DEF Clear
<1>5. CASE UNCHANGED trackVars
  BY <1>5 DEF trackVars, tables, outcomes
<1>6. QED
  BY <1>1, <1>2, <1>3, <1>4, <1>5 DEF TrackNext

\* However many threads ask for an operation, and whatever is marked or
\* cleared meanwhile, its callback is run by one of them at a time and runs
\* through once between two clears.
THEOREM OperationsRunOnce == TrackSpec => []RunsOnce
<1>1. TrackerShape /\ Once => RunsOnce
  BY DEF TrackerShape, TrackTypeOK, Once, Claimed, PerformedOnce, RunsOnce, Callers
<1>2. QED
  BY <1>1, TrackerShapeInit, TrackerShapeStep, OnceInit, OnceStep, PTL DEF TrackSpec

-----------------------------------------------------------------------------
\* What a caller that returns knows

LEMMA InformedInit == TrackInit => Informed
  BY TrackerAssumption DEF TrackInit, Informed, Callers

LEMMA InformedStep == TrackerShape /\ Informed /\ [TrackNext]_trackVars => Informed'
<1> SUFFICES ASSUME TrackerShape, Informed, [TrackNext]_trackVars PROVE Informed'
  OBVIOUS
<1> USE TrackerAssumption
    DEF TrackerShape, TrackTypeOK, TrackersTrack, Informed, Callers, Goto, Section
<1>1. ASSUME NEW t \in Callers, Track(t) PROVE Informed'
  <2>1. CASE Skip(t) \/ Await(t) \/ Wake(t) \/ Ask(t)
    BY <2>1 DEF Skip, Await, Wake, Ask, tables, outcomes
  <2>2. CASE Claim(t)
    BY <2>2 DEF Claim, outcomes
  <2>3. CASE Perform(t) \/ PerformFails(t)
    BY <2>3 DEF Perform, PerformFails, tables
  <2>4. CASE Record(t) \/ Release(t) \/ SetEvent(t)
    BY <2>4 DEF Record, Release, SetEvent, outcomes
  <2>5. QED
    BY <1>1, <2>1, <2>2, <2>3, <2>4 DEF Track
<1>2. ASSUME NEW t \in Callers, Enter(t) PROVE Informed'
  BY <1>2 DEF Enter, tables, outcomes
<1>3. ASSUME NEW t \in Callers, Mark(t) \/ Clear(t) PROVE Informed'
  BY <1>3 DEF Mark, Clear
<1>4. CASE UNCHANGED trackVars
  BY <1>4 DEF trackVars, tables, outcomes
<1>5. QED
  BY <1>1, <1>2, <1>3, <1>4 DEF TrackNext

\* A call of track_operation() that returns without an exception, after
\* waiting for others, some of which failed, or not, finds the operation done.
THEOREM ReturnsInformed == TrackSpec => []ReturnedIsDone
<1>1. Informed => ReturnedIsDone
  BY DEF Informed, ReturnedIsDone
<1>2. QED
  BY <1>1, TrackerShapeInit, TrackerShapeStep, InformedInit, InformedStep, PTL DEF TrackSpec
=============================================================================
