-------------------------- MODULE OperationTracker --------------------------
(***************************************************************************)
(* track_operation(): an operation runs once per process, whoever asks for *)
(* it first.  The caller that claims it runs the callback without          *)
(* _file_lock; the others wait on the claim's event and look again.        *)
(*                                                                         *)
(* Every caller makes one call: of track_operation() (Trackers), of        *)
(* mark_operation_completed() (Markers) or of clear_operation_tracking()   *)
(* (Clearers).  The callbacks of Asking call is_operation_completed(), as  *)
(* the one that creates the database manager does.                         *)
(***************************************************************************)
EXTENDS Naturals, FiniteSets

CONSTANTS Trackers, Markers, Clearers,
          Asking,
          KeyOf,   \* the operation of each call
          Nobody

Callers == Trackers \cup Markers \cup Clearers
Operations == {KeyOf[t] : t \in Callers}

ASSUME TrackerAssumption ==
    /\ Trackers \cap Markers = {} /\ Clearers \cap (Trackers \cup Markers) = {}
    /\ Asking \subseteq Trackers
    /\ DOMAIN KeyOf = Callers
    /\ Nobody \notin Callers

VARIABLES lock,        \* who has _file_lock, and for which section
          completed,   \* keys of _completed
          inProgress,  \* the caller whose event is in _in_progress
          over,        \* callers whose event is set
          at,          \* where each caller is
          waitsFor,    \* the caller whose event it waits for
          raised,      \* trackers whose callback raised
          performed,   \* trackers whose callback ran through since the last clear
          known        \* operations that were performed or marked at some time

tables == <<completed, inProgress, over>>
outcomes == <<raised, performed, known>>
trackVars == <<lock, tables, at, waitsFor, outcomes>>

TrackInit ==
    /\ lock = Nobody
    /\ completed = {} /\ over = {}
    /\ inProgress = [k \in Operations |-> Nobody]
    /\ at = [t \in Callers |-> IF t \in Trackers THEN "check"
                               ELSE IF t \in Markers THEN "mark" ELSE "clear"]
    /\ waitsFor = [t \in Callers |-> Nobody]
    /\ raised = {} /\ performed = {} /\ known = {}

Goto(t, place) == at' = [at EXCEPT ![t] = place]

\* with _file_lock, which is not reentrant: the section is one step, which
\* releases the lock.
Sections == {"check", "ask", "record", "release", "mark", "clear"}

Enter(t) ==
    /\ at[t] \in Sections
    /\ lock = Nobody
    /\ lock' = <<t, at[t]>>
    /\ UNCHANGED <<tables, at, waitsFor, outcomes>>

Section(t, place) ==
    /\ at[t] = place /\ lock = <<t, place>>
    /\ lock' = Nobody

-----------------------------------------------------------------------------
Skip(t) ==
    /\ KeyOf[t] \in completed
    /\ Section(t, "check")
    /\ Goto(t, "done")
    /\ UNCHANGED <<tables, waitsFor, outcomes>>

\* Faulty variant of Claim: the callback runs inside the lock.
ClaimKeepsLock(t) ==
    /\ KeyOf[t] \notin completed
    /\ inProgress[KeyOf[t]] = Nobody
    /\ lock = <<t, "check">> /\ at[t] = "check"
    /\ inProgress' = [inProgress EXCEPT ![KeyOf[t]] = t]
    /\ Goto(t, IF t \in Asking THEN "ask" ELSE "run")
    /\ UNCHANGED <<lock, completed, over, waitsFor, outcomes>>

Claim(t) ==
    /\ KeyOf[t] \notin completed
    /\ inProgress[KeyOf[t]] = Nobody
    /\ Section(t, "check")
    /\ inProgress' = [inProgress EXCEPT ![KeyOf[t]] = t]
    /\ Goto(t, IF t \in Asking THEN "ask" ELSE "run")
    /\ UNCHANGED <<completed, over, waitsFor, outcomes>>

Await(t) ==
    /\ KeyOf[t] \notin completed
    /\ inProgress[KeyOf[t]] # Nobody
    /\ Section(t, "check")
    /\ waitsFor' = [waitsFor EXCEPT ![t] = inProgress[KeyOf[t]]]
    /\ Goto(t, "wait")
    /\ UNCHANGED <<tables, outcomes>>

\* in_flight.wait() returns and the loop looks again.
Wake(t) ==
    /\ at[t] = "wait" /\ waitsFor[t] \in over
    /\ waitsFor' = [waitsFor EXCEPT ![t] = Nobody]
    /\ Goto(t, "check")
    /\ UNCHANGED <<lock, tables, outcomes>>

\* The callback asks is_operation_completed().
Ask(t) ==
    /\ Section(t, "ask")
    /\ Goto(t, "run")
    /\ UNCHANGED <<tables, waitsFor, outcomes>>

\* The callback returns, or raises.
Perform(t) ==
    /\ at[t] = "run"
    /\ performed' = performed \cup {t}
    /\ known' = known \cup {KeyOf[t]}
    /\ Goto(t, "record")
    /\ UNCHANGED <<lock, tables, waitsFor, raised>>

\* Faulty variant of PerformFails: the operation is recorded all the same.
PerformFailsRecorded(t) ==
    /\ at[t] = "run"
    /\ raised' = raised \cup {t}
    /\ Goto(t, "record")
    /\ UNCHANGED <<lock, tables, waitsFor, performed, known>>

PerformFails(t) ==
    /\ at[t] = "run"
    /\ raised' = raised \cup {t}
    /\ Goto(t, "release")
    /\ UNCHANGED <<lock, tables, waitsFor, performed, known>>

Record(t) ==
    /\ Section(t, "record")
    /\ completed' = completed \cup {KeyOf[t]}
    /\ Goto(t, "release")
    /\ UNCHANGED <<inProgress, over, waitsFor, outcomes>>

\* finally: the claim is taken back, and then, without the lock, the event
\* is set.
Release(t) ==
    /\ Section(t, "release")
    /\ inProgress' = [inProgress EXCEPT ![KeyOf[t]] = Nobody]
    /\ Goto(t, "set")
    /\ UNCHANGED <<completed, over, waitsFor, outcomes>>

SetEvent(t) ==
    /\ at[t] = "set"
    /\ over' = over \cup {t}
    /\ Goto(t, "done")
    /\ UNCHANGED <<lock, completed, inProgress, waitsFor, outcomes>>

-----------------------------------------------------------------------------
\* mark_operation_completed()
Mark(t) ==
    /\ Section(t, "mark")
    /\ completed' = completed \cup {KeyOf[t]}
    /\ known' = known \cup {KeyOf[t]}
    /\ Goto(t, "done")
    /\ UNCHANGED <<inProgress, over, waitsFor, raised, performed>>

\* Faulty variant of Clear: the claims are forgotten too.
ClearClaims(t) ==
    /\ Section(t, "clear")
    /\ completed' = completed \ {KeyOf[t]}
    /\ inProgress' = [inProgress EXCEPT ![KeyOf[t]] = Nobody]
    /\ performed' = {u \in performed : KeyOf[u] # KeyOf[t]}
    /\ Goto(t, "done")
    /\ UNCHANGED <<over, waitsFor, raised, known>>

\* clear_operation_tracking() of an operation: a claim on it stands.
Clear(t) ==
    /\ Section(t, "clear")
    /\ completed' = completed \ {KeyOf[t]}
    /\ performed' = {u \in performed : KeyOf[u] # KeyOf[t]}
    /\ Goto(t, "done")
    /\ UNCHANGED <<inProgress, over, waitsFor, raised, known>>

Track(t) ==
    \/ Skip(t) \/ Claim(t) \/ Await(t) \/ Wake(t) \/ Ask(t) \/ Perform(t)
    \/ PerformFails(t) \/ Record(t) \/ Release(t) \/ SetEvent(t)

TrackNext == \E t \in Callers : Enter(t) \/ Track(t) \/ Mark(t) \/ Clear(t)

\* Threads go on and callbacks return.  The calls have a bounded number of
\* steps, so that it is enough that one of those that can go on does.
TrackSpec == TrackInit /\ [][TrackNext]_trackVars /\ WF_trackVars(TrackNext)

-----------------------------------------------------------------------------
TrackTypeOK ==
    /\ lock \in (Callers \X Sections) \cup {Nobody}
    /\ completed \subseteq Operations
    /\ inProgress \in [Operations -> Trackers \cup {Nobody}]
    /\ at \in [Callers -> {"check", "wait", "ask", "run", "record", "release", "set",
                           "mark", "clear", "done"}]
    /\ waitsFor \in [Callers -> Trackers \cup {Nobody}]
    /\ \A t \in Callers : at[t] = "wait" <=> waitsFor[t] # Nobody
    /\ over \subseteq Trackers /\ raised \subseteq Trackers
    /\ performed \subseteq Trackers
    /\ known \subseteq Operations

\* An operation runs once, whichever calls come together: no two callers are
\* in its callback at a time, and between two clears it runs through at most
\* once, clears in the middle of it and marks by others included.
RunsOnce ==
    \A t, u \in Trackers :
        KeyOf[t] = KeyOf[u] /\ t # u =>
            /\ ~(at[t] \in {"ask", "run", "record"} /\ at[u] \in {"ask", "run", "record"})
            /\ ~(t \in performed /\ u \in performed)

\* Nobody takes a failure for a success: a call of track_operation() that
\* returns, after waiting or not, finds the operation performed or marked.
ReturnedIsDone ==
    \A t \in Trackers : at[t] = "done" /\ t \notin raised => KeyOf[t] \in known

\* Nobody waits for ever: neither for the lock, which a callback that asks
\* the tracker needs too, nor for the event of a claim, failed ones included.
CallsEnd == <>(\A t \in Callers : at[t] = "done")
=============================================================================
