--------------------------- MODULE LoopPrevention ---------------------------
(***************************************************************************)
(* Loop prevention (Utils/message_loop_prevention/).  Routers and handlers *)
(* ask one service, process_message(), whether to go on with a message.    *)
(* It refuses a combination of request and type it has seen, unless the    *)
(* message is a status word or a completion, and a message whose           *)
(* fingerprint is registered.  Looking up and recording are separate       *)
(* sections of the locks of the two libraries.                             *)
(*                                                                         *)
(* A delivery is one activity that carries one message past the guards of  *)
(* its route: unified_router, then the handler; a handler may send what it *)
(* got to the router again.  All guards ask the same service.  An admitted *)
(* message is copied and the copy tagged with a transaction id; the copy   *)
(* is shallow, so the tag goes to the metadata it shares with the original *)
(* and with whoever delivers the original again.  The fingerprint includes *)
(* the tag, and a message without a request id has the tag for one.  All   *)
(* messages here are of one category, the registry consulted.              *)
(***************************************************************************)
EXTENDS Naturals, Sequences, FiniteSets, SequencesExt

CONSTANTS Deliveries,
          Messages,
          Exempt,       \* messages that are status words or completions
          Unstamped,    \* messages without a timestamp of their own
          Unrequested,  \* messages without a request id of their own
          Objects,      \* messages that are objects, not dicts
          NoMessage,
          NoTag,        \* no transaction id
          NoMatch,      \* part of a fingerprint that is never found again
          MaxCache,     \* _max_cache_size of the registry
          MaxPasses     \* bound: guards a delivery passes

\* The transaction ids: each is drawn by a delivery at one of its guards.
Tags == Deliveries \X Nat

ASSUME PreventionAssumption ==
    /\ Exempt \subseteq Messages /\ Unstamped \subseteq Messages
    /\ Unrequested \subseteq Messages /\ Objects \subseteq Messages
    /\ NoMessage \notin Messages
    /\ NoTag \notin Tags /\ NoMatch \notin Tags \cup {NoTag}
    /\ MaxCache \in Nat \ {0, 1}
    /\ MaxPasses \in Nat

VARIABLES seen,      \* _request_type_map: messages with their requests
          expired,   \* those of `seen' older than the expiration time
          registry,  \* fingerprints of the category, the oldest first
          stale,     \* how many of the oldest of them are expired
          at,        \* where each delivery is
          carries,   \* its message
          meta,      \* the metadata of that, known by the delivery it came with
          tag,       \* the transaction id in the metadata
          request,   \* the request id its call works with, NoMatch if none
          print,     \* the fingerprint its call works with
          passes,    \* history: guards it was admitted by
          before,    \* history: deliveries admitted before it arrived
          forgotten  \* history: messages an entry of which was dropped

library == <<seen, expired, registry, stale>>
message == <<carries, meta>>
call == <<request, print>>
history == <<passes, before, forgotten>>
vars == <<library, at, message, tag, call, history>>

Init ==
    /\ seen = {} /\ expired = {}
    /\ registry = << >> /\ stale = 0
    /\ at = [d \in Deliveries |-> "idle"]
    /\ carries = [d \in Deliveries |-> NoMessage]
    /\ meta = [d \in Deliveries |-> d]
    /\ tag = [d \in Deliveries |-> NoTag]
    /\ request = [d \in Deliveries |-> NoMatch]
    /\ print = [d \in Deliveries |-> <<NoMessage, NoMatch>>]
    /\ passes = [d \in Deliveries |-> 0]
    /\ before = [d \in Deliveries |-> {}]
    /\ forgotten = {}

\* _extract_request_id() of the service: a request id is part of the message;
\* without one, the tag of a dict stands for it.
RequestOf(m, t) ==
    IF m \notin Unrequested THEN NoTag
    ELSE IF m \in Objects \/ t = NoTag THEN NoMatch ELSE t

\* Faulty variant of PrintOf: a fingerprint has the time of the call.
PrintTimed(m, t) == <<m, NoMatch>>

\* generate_message_id(): type, request, timestamp and a hash of the content,
\* the tag included.  A message without a timestamp gets the time of the call,
\* one without a request an id made up for the call, and is like no other.
PrintOf(m, t) ==
    IF m \in Unstamped \/ RequestOf(m, t) = NoMatch THEN <<m, NoMatch>> ELSE <<m, t>>

Fingerprints == Messages \X (Tags \cup {NoTag, NoMatch})

\* A fingerprint that will not be found again.
Fresh(f) == f[2] = NoMatch

\* What the tracking library knows a delivery's message by.
Combination(d) == <<carries[d], request[d]>>

MessagesIn(S) == {c[1] : c \in S}

-----------------------------------------------------------------------------
\* A message comes in, new or an object that is already being delivered, and
\* the first guard is asked.
Arrive(d, m) ==
    /\ at[d] = "idle"
    /\ carries' = [carries EXCEPT ![d] = m]
    /\ \E c \in {d} \cup {meta[e] : e \in {f \in Deliveries : carries[f] = m}} :
          /\ meta' = [meta EXCEPT ![d] = c]
          /\ request' = [request EXCEPT ![d] = RequestOf(m, tag[c])]
    /\ at' = [at EXCEPT ![d] = "identify"]
    /\ before' = [before EXCEPT ![d] = {e \in Deliveries : passes[e] > 0}]
    /\ UNCHANGED <<library, tag, print, passes, forgotten>>

\* The fingerprint is computed; a message without a request id skips the
\* tracking library.
Identify(d) ==
    /\ at[d] = "identify"
    /\ print' = [print EXCEPT ![d] = PrintOf(carries[d], tag[meta[d]])]
    /\ at' = [at EXCEPT ![d] = IF request[d] = NoMatch THEN "find" ELSE "look"]
    /\ UNCHANGED <<library, message, tag, request, history>>

\* Faulty variant of Look: the combination is recorded before it is looked
\* up.
LookRecorded(d) ==
    /\ at[d] = "look"
    /\ seen' = seen \cup {Combination(d)}
    /\ at' = [at EXCEPT ![d] =
                IF Combination(d) \in seen' /\ carries[d] \notin Exempt
                THEN "refused" ELSE "record"]
    /\ UNCHANGED <<expired, registry, stale, message, tag, call, history>>

\* has_seen_message(), with its cleanup, which is due or not.
Look(d) ==
    /\ at[d] = "look"
    /\ \E drop \in {{}, expired} :
          /\ seen' = seen \ drop
          /\ expired' = expired \ drop
          /\ forgotten' = forgotten \cup MessagesIn(drop)
    /\ at' = [at EXCEPT ![d] =
                IF Combination(d) \in seen' /\ carries[d] \notin Exempt
                THEN "refused" ELSE "record"]
    /\ UNCHANGED <<registry, stale, message, tag, call, passes, before>>

\* Faulty variant of Record: only the time of the request is recorded.
RecordTime(d) ==
    /\ at[d] = "record"
    /\ expired' = expired \ {Combination(d)}
    /\ at' = [at EXCEPT ![d] = "find"]
    /\ UNCHANGED <<seen, registry, stale, message, tag, call, history>>

\* record_message(), which renews the time of the request.
Record(d) ==
    /\ at[d] = "record"
    /\ seen' = seen \cup {Combination(d)}
    /\ expired' = expired \ {Combination(d)}
    /\ at' = [at EXCEPT ![d] = "find"]
    /\ UNCHANGED <<registry, stale, message, tag, call, history>>

\* is_processed(), with its cleanup.
Find(d) ==
    /\ at[d] = "find"
    /\ \E n \in {0, stale} :
          /\ registry' = SubSeq(registry, n + 1, Len(registry))
          /\ stale' = stale - n
          /\ forgotten' = forgotten \cup MessagesIn(Range(SubSeq(registry, 1, n)))
    /\ at' = [at EXCEPT ![d] =
                IF Contains(registry', print[d]) /\ ~Fresh(print[d])
                THEN "refused" ELSE "mark"]
    /\ UNCHANGED <<seen, expired, message, tag, call, passes, before>>

\* _prune_registry(): the newest four fifths of the limit stay.
Pruned(fs) ==
    IF Len(fs) > MaxCache
    THEN SubSeq(fs, Len(fs) - (MaxCache * 8) \div 10 + 1, Len(fs)) ELSE fs

\* The registry without f, which is in it once at most.
Without(f) ==
    IF Contains(registry, f) /\ ~Fresh(f)
    THEN RemoveAt(registry, CHOOSE i \in DOMAIN registry : registry[i] = f)
    ELSE registry

\* The registry with f as its newest entry.
With(f) == Append(Without(f), f)

\* mark_processed(): the message is admitted.  The copy of a dict that has a
\* transaction id keeps it; an object's is tested for in the wrong place and
\* never found.
Mark(d) ==
    /\ at[d] = "mark"
    /\ LET all == With(print[d])
           dropped == Len(all) - Len(Pruned(all))
       IN  /\ registry' = Pruned(all)
           /\ stale' = IF stale > dropped THEN stale - dropped ELSE 0
           /\ forgotten' = forgotten \cup MessagesIn(Range(SubSeq(all, 1, dropped)))
    /\ passes' = [passes EXCEPT ![d] = @ + 1]
    /\ at' = [at EXCEPT ![d] =
                IF carries[d] \notin Objects /\ tag[meta[d]] # NoTag
                THEN "admitted" ELSE "tag"]
    /\ UNCHANGED <<seen, expired, message, tag, call, before>>

\* The transaction id is written to the metadata, over one that another
\* delivery of the same object may have written since.
Tag(d) ==
    /\ at[d] = "tag"
    /\ tag' = [tag EXCEPT ![meta[d]] = <<d, passes[d]>>]
    /\ at' = [at EXCEPT ![d] = "admitted"]
    /\ UNCHANGED <<library, message, call, history>>

\* The copy goes on to the next guard of the route, or from the last one to
\* the router again.
Forward(d) ==
    /\ at[d] = "admitted"
    /\ passes[d] < MaxPasses
    /\ request' = [request EXCEPT ![d] = RequestOf(carries[d], tag[meta[d]])]
    /\ at' = [at EXCEPT ![d] = "identify"]
    /\ UNCHANGED <<library, message, tag, print, history>>

\* An hour passes between calls.
Age ==
    /\ \A d \in Deliveries : at[d] \in {"idle", "admitted", "refused"}
    /\ seen # {} \/ registry # << >>
    /\ expired' = seen
    /\ stale' = Len(registry)
    /\ UNCHANGED <<seen, registry, at, message, tag, call, history>>

Process(d) == Identify(d) \/ Look(d) \/ Record(d) \/ Find(d) \/ Mark(d) \/ Tag(d)

Next ==
    \/ \E d \in Deliveries : Process(d) \/ Forward(d)
    \/ \E d \in Deliveries, m \in Messages : Arrive(d, m)
    \/ Age

Spec == Init /\ [][Next]_vars

-----------------------------------------------------------------------------
TypeOK ==
    /\ seen \subseteq Fingerprints /\ expired \subseteq seen
    /\ registry \in Seq(Fingerprints)
    /\ Len(registry) <= MaxCache /\ stale \in 0 .. Len(registry)
    /\ at \in [Deliveries -> {"idle", "identify", "look", "record", "find", "mark", "tag",
                              "admitted", "refused"}]
    /\ carries \in [Deliveries -> Messages \cup {NoMessage}]
    /\ meta \in [Deliveries -> Deliveries]
    /\ tag \in [Deliveries -> Tags \cup {NoTag}]
    /\ request \in [Deliveries -> Tags \cup {NoTag, NoMatch}]
    /\ print \in [Deliveries -> Fingerprints \cup {<<NoMessage, NoMatch>>}]
    /\ passes \in [Deliveries -> Nat]
    /\ before \in [Deliveries -> SUBSET Deliveries]
    /\ forgotten \subseteq Messages

\* A message the tracking library stops by the request it came with.
Tracked(m) == m \notin Exempt /\ m \notin Unrequested

\* A delivery no other shares the metadata of its message with.
Alone(d) == \A e \in Deliveries \ {d} : meta[e] # meta[d]

\* A message that its handlers send round and round is stopped: after one
\* guard if the tracking library knows it by its request; after two if it is a
\* stamped dict with metadata of its own, which the tag makes look new once.
\* What was dropped is gone; of others, objects above all, nothing is claimed.
LoopsEnd ==
    \A d \in Deliveries : carries[d] \notin forgotten =>
        /\ Tracked(carries[d]) => passes[d] <= 1
        /\ carries[d] \notin Objects \cup Unstamped /\ Alone(d) => passes[d] <= 2

\* A message delivered again is refused at the first guard if some delivery of
\* it was admitted before the second began, and the library knows it by its
\* request, or by the fingerprint when it comes as an object of its own: the
\* object that was admitted has a tag and looks new.  Only calls that overlap,
\* each looking before the other records, can both be admitted.
DuplicatesOverlap ==
    \A d, e \in Deliveries :
        /\ e \in before[d] /\ carries[d] = carries[e]
        /\ carries[d] \notin forgotten \cup Unrequested
        /\ carries[d] \notin Exempt \/ (carries[d] \notin Unstamped /\ meta[d] = d)
        => passes[d] = 0

\* The first guard never refuses every delivery of a message: one that is
\* refused there leaves one that was admitted, or that will be.
SomeDeliveryProceeds ==
    \A d \in Deliveries : at[d] = "refused" /\ passes[d] = 0 =>
        \E e \in Deliveries \ {d} :
            /\ carries[e] = carries[d]
            /\ passes[e] > 0 \/ at[e] \in {"record", "find", "mark"}
=============================================================================
