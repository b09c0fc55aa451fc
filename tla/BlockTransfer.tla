--------------------------- MODULE BlockTransfer ---------------------------
(***************************************************************************)
(* The block transfers from the remote terminal to the bus controller:      *)
(* RT_socket.py cuts a large message into chunks, each sent over its own    *)
(* connection; BC_socket.py serves every connection on its own thread and   *)
(* queues what it read; the "BC Listener" thread of BC.py takes one message *)
(* at a time and gives it to the aggregator of BC_transfer_aggregator.py.   *)
(*                                                                         *)
(* A chunk is known by its job and its sequence number.  The size rule of   *)
(* _send_chunk() decides whether it keeps its metadata on the way.  The     *)
(* init message goes through _send_message(), which rebuilds its metadata   *)
(* without the transfer flag: what arrives is a message with frames and no  *)
(* flag, like a chunk that lost its metadata.  It is chunk 0 here.          *)
(***************************************************************************)
EXTENDS Integers, SequencesExt

CONSTANTS
  Jobs,        \* calls of _send_large_message() (workers of the RT_sender)
  Requests,    \* request ids
  Frames,      \* the number of data frames each job sends
  Payload,     \* MAX_PAYLOAD_FRAMES_PER_CHUNK
  Flagged,     \* frames that a chunk of 900 bytes holds beside its metadata
  Capacity,    \* MAX_CONCURRENT_CONNECTIONS
  MaxQueued,   \* bound: the length of data_received
  NoRequest

ASSUME TransferAssumption ==
  /\ Frames \in [Jobs -> Nat \ {0}]
  /\ Payload \in Nat \ {0}
  /\ Flagged \in Nat
  /\ Capacity \in Nat \ {0}
  /\ MaxQueued \in Nat \ {0}
  /\ NoRequest \notin Requests

\* A full chunk is always above 900 bytes with its metadata.
ASSUME FullChunksBare == Flagged < Payload

VARIABLES
  pc,          \* where each job is
  req,         \* its request_id
  next,        \* the sequence number of its next chunk, 0 for the init message
  acked,       \* requests in acknowledged_requests for less than five seconds
  wire,        \* connections being served, each with its one message
  received,    \* BC_Listener.data_received
  pending,     \* BlockTransferAggregator.pending_transfers: chunks per request
  routed,      \* the chunks of the messages routed so far, per request
  disturbed    \* a message was refused, overtaken, given up or expired

vars == <<pc, req, next, acked, wire, received, pending, routed, disturbed>>

Chunks(j) == (Frames[j] + Payload - 1) \div Payload
Size(j, i) == IF i < Chunks(j) THEN Payload ELSE Frames[j] - (i - 1) * Payload

Message(j, kind, i) == [job |-> j, request |-> req[j], kind |-> kind, seq |-> i]
ChunkOf(m) == [job |-> m.job, seq |-> m.seq]

ChunkSet == {c \in [job : Jobs, seq : Nat] : c.seq \in 0..Chunks(c.job)}

MessageSet ==
  {m \in [job : Jobs, request : Requests, kind : {"data", "bare", "complete"}, seq : Nat] :
     m.seq \in 0..Chunks(m.job)}

TypeOK ==
  /\ pc \in [Jobs -> {"idle", "init", "data", "complete", "sent", "failed"}]
  /\ req \in [Jobs -> Requests \cup {NoRequest}]
  /\ next \in [Jobs -> Nat] /\ \A j \in Jobs : next[j] \in 0..Chunks(j) + 1
  /\ acked \subseteq Requests
  /\ wire \in Seq(MessageSet) /\ Len(wire) <= Capacity
  /\ received \in Seq(MessageSet) /\ Len(received) <= MaxQueued
  /\ DOMAIN pending \subseteq Requests /\ pending \in [DOMAIN pending -> Seq(ChunkSet)]
  /\ routed \in [Requests -> Seq(ChunkSet)]
  /\ disturbed \in BOOLEAN

Init ==
  /\ pc = [j \in Jobs |-> "idle"]
  /\ req = [j \in Jobs |-> NoRequest]
  /\ next = [j \in Jobs |-> 0]
  /\ acked = {}
  /\ wire = <<>>
  /\ received = <<>>
  /\ pending = <<>>
  /\ routed = [r \in Requests |-> <<>>]
  /\ disturbed = FALSE

Goto(j, label) == pc' = [pc EXCEPT ![j] = label]

-----------------------------------------------------------------------------
\* _send_large_message()

\* A request acknowledged less than five seconds ago gets no second init message.
Begin(j, r) ==
  /\ pc[j] = "idle"
  /\ req' = [req EXCEPT ![j] = r]
  /\ IF r \in acked THEN Goto(j, "data") /\ next' = [next EXCEPT ![j] = 1]
                    ELSE Goto(j, "init") /\ UNCHANGED next
  /\ UNCHANGED <<acked, wire, received, pending, routed, disturbed>>

\* The message is written to a connection of its own.  Beyond Capacity the
\* listener closes the connection unread, which the sender does not notice.
Transmit(m) ==
  IF Len(wire) < Capacity
    THEN wire' = Append(wire, m) /\ UNCHANGED disturbed
    ELSE disturbed' = TRUE /\ UNCHANGED wire

\* _send_message() keeps message_type, command_type, command_name, the modes and
\* the request id of the metadata, and not is_transfer_init.
InitKind == "bare"

SendInit(j) ==
  /\ pc[j] = "init"
  /\ Transmit(Message(j, InitKind, 0))
  /\ acked' = acked \cup {req[j]}
  /\ next' = [next EXCEPT ![j] = 1]
  /\ Goto(j, "data")
  /\ UNCHANGED <<req, received, pending, routed>>

\* _send_chunk(): above 900 bytes the chunk goes without any metadata.
ChunkKind(j, i) == IF Size(j, i) <= Flagged THEN "data" ELSE "bare"

SendChunk(j) ==
  /\ pc[j] = "data"
  /\ Transmit(Message(j, ChunkKind(j, next[j]), next[j]))
  /\ next' = [next EXCEPT ![j] = @ + 1]
  /\ Goto(j, IF next[j] = Chunks(j) THEN "complete" ELSE "data")
  /\ UNCHANGED <<req, acked, received, pending, routed>>

SendComplete(j) ==
  /\ pc[j] = "complete"
  /\ Transmit(Message(j, "complete", 0))
  /\ Goto(j, "sent")
  /\ UNCHANGED <<req, next, acked, received, pending, routed>>

\* transmit() returns False, or the deadline of the transfer has passed.
GiveUp(j) ==
  /\ pc[j] \in {"init", "data", "complete"}
  /\ Goto(j, "failed")
  /\ disturbed' = TRUE
  /\ UNCHANGED <<req, next, acked, wire, received, pending, routed>>

AckExpires(r) ==
  /\ r \in acked
  /\ acked' = acked \ {r}
  /\ UNCHANGED <<pc, req, next, wire, received, pending, routed, disturbed>>

-----------------------------------------------------------------------------
\* BC_Listener

\* The thread of one connection has read its message.  A job sends its messages
\* ten milliseconds apart, yet a thread may be overtaken by a later one.
Receive(i) ==
  /\ i \in 1..Len(wire)
  /\ Len(received) < MaxQueued
  /\ received' = Append(received, wire[i])
  /\ wire' = RemoveAt(wire, i)
  /\ disturbed' = (disturbed \/ \E k \in 1..(i - 1) : wire[k].job = wire[i].job)
  /\ UNCHANGED <<pc, req, next, acked, pending, routed>>

-----------------------------------------------------------------------------
\* register_message() and _finalize_transfer()

\* The transfers p without r, and with r's chunks.
Without(p, r)      == [q \in DOMAIN p \ {r} |-> p[q]]
With(p, r, chunks) == [q \in DOMAIN p \cup {r} |-> IF q = r THEN chunks ELSE p[q]]

Collected(p, r) == IF r \in DOMAIN p THEN p[r] ELSE <<>>

\* Faulty variant of Finalize: the transfer is not deleted.
FinalizeKeeps(p, r, chunks) ==
  /\ routed' = [routed EXCEPT ![r] = @ \o chunks]
  /\ pending' = With(p, r, chunks)

\* The chunks are routed as one message, in the order of their arrival.
Finalize(p, r, chunks) ==
  /\ routed' = [routed EXCEPT ![r] = @ \o chunks]
  /\ pending' = Without(p, r)

Collect(p, r, chunks) == pending' = With(p, r, chunks) /\ UNCHANGED routed

\* The last sequence number finalizes, whatever is still missing.
RegisterData(p, m) ==
  LET chunks == Append(Collected(p, m.request), ChunkOf(m)) IN
  /\ m.kind = "data"
  /\ IF m.seq = Chunks(m.job) THEN Finalize(p, m.request, chunks)
                              ELSE Collect(p, m.request, chunks)

\* Faulty variant of RegisterBare: it takes three messages.
RegisterBareLate(p, m) ==
  LET chunks == Append(Collected(p, m.request), ChunkOf(m)) IN
  /\ m.kind = "bare"
  /\ IF Len(chunks) > 2 THEN Finalize(p, m.request, chunks)
                        ELSE Collect(p, m.request, chunks)

\* A message without flags, an init message too, finalizes if it is not the
\* first: "we likely have all required data".
RegisterBare(p, m) ==
  LET chunks == Append(Collected(p, m.request), ChunkOf(m)) IN
  /\ m.kind = "bare"
  /\ IF Len(chunks) > 1 THEN Finalize(p, m.request, chunks)
                        ELSE Collect(p, m.request, chunks)

\* Faulty variant of RegisterComplete: the completion is only remembered.
RegisterCompleteKeeps(p, m) ==
  /\ m.kind = "complete"
  /\ pending' = p /\ UNCHANGED routed

\* A completion finalizes what is pending; without that it passes through.
RegisterComplete(p, m) ==
  /\ m.kind = "complete"
  /\ IF m.request \in DOMAIN p THEN Finalize(p, m.request, p[m.request])
                               ELSE pending' = p /\ UNCHANGED routed

\* Transfers whose last message is more than five seconds old are dropped when
\* some message arrives, and the last look was more than ten seconds ago.
Expire(gone) == [r \in DOMAIN pending \ gone |-> pending[r]]

\* Faulty variant of Process: the newest message is taken first.
ProcessNewest ==
  LET m == received[Len(received)] IN
  /\ received # <<>>
  /\ received' = SubSeq(received, 1, Len(received) - 1)
  /\ \/ RegisterData(pending, m) \/ RegisterBare(pending, m) \/ RegisterComplete(pending, m)
  /\ UNCHANGED <<pc, req, next, acked, wire, disturbed>>

\* The oldest message in data_received is registered, and removed.
Process ==
  /\ received # <<>>
  /\ received' = Tail(received)
  /\ \E gone \in SUBSET DOMAIN pending :
       LET p == Expire(gone)
           m == Head(received)
       IN /\ disturbed' = (disturbed \/ gone # {})
          /\ \/ RegisterData(p, m) \/ RegisterBare(p, m) \/ RegisterComplete(p, m)
  /\ UNCHANGED <<pc, req, next, acked, wire>>

-----------------------------------------------------------------------------
Send(j) == SendInit(j) \/ SendChunk(j) \/ SendComplete(j) \/ GiveUp(j)

Next ==
  \/ \E j \in Jobs : Send(j) \/ \E r \in Requests : Begin(j, r)
  \/ \E r \in Requests : AckExpires(r)
  \/ \E i \in 1..Len(wire) : Receive(i)
  \/ Process

\* The senders, the connection threads and the thread of the bus controller run
\* on; nothing forces a transfer to begin or an acknowledgement to expire.
Fairness ==
  /\ \A j \in Jobs : WF_vars(Send(j))
  /\ WF_vars(\E i \in 1..Len(wire) : Receive(i))
  /\ WF_vars(Process)

Spec     == Init /\ [][Next]_vars
FairSpec == Spec /\ Fairness

-----------------------------------------------------------------------------
\* Properties

IsChunk(m) == m.kind \in {"data", "bare"}

\* The messages on their way: received, and on a connection.
Line == received \o wire

\* The places in it of a request's chunks.
On(r) == {i \in 1..Len(Line) : IsChunk(Line[i]) /\ Line[i].request = r}

\* The chunks of a request that the aggregator has seen: routed, and collected.
Handled(r) == routed[r] \o Collected(pending, r)

\* No other transfer uses j's request, and nothing went wrong on the bus.
Undisturbed(j) ==
  /\ req[j] # NoRequest /\ ~disturbed
  /\ \A k \in Jobs \ {j} : req[k] # req[j]

\* However the bus loses, delays and reorders messages, and whichever transfers
\* share a request: no chunk is routed twice, or routed and still collected.
ChunksOnce ==
  \A r \in Requests :
    /\ IsInjective(Handled(r))
    /\ \A i \in On(r) :
         /\ \A k \in 1..Len(Handled(r)) : Handled(r)[k] # ChunkOf(Line[i])
         /\ \A k \in On(r) : ChunkOf(Line[k]) = ChunkOf(Line[i]) => k = i

\* On an undisturbed bus the aggregator neither loses nor reorders a chunk,
\* although it cuts the transfer into several messages, the first of them with
\* the init message as its first data: what it has seen are the first chunks,
\* and exactly the others are on their way, in order.
NothingLost ==
  \A j \in Jobs : Undisturbed(j) =>
    LET seen == Handled(req[j]) IN
    /\ Len(seen) <= next[j]
    /\ \A i \in 1..Len(seen) : seen[i] = [job |-> j, seq |-> i - 1]
    /\ \A i \in On(req[j]) : Line[i].job = j /\ Line[i].seq \in Len(seen) .. next[j] - 1
    /\ \A s \in Len(seen) .. next[j] - 1 : \E i \in On(req[j]) : Line[i].seq = s
    /\ \A i, k \in On(req[j]) : i < k => Line[i].seq < Line[k].seq

\* A request never holds more than one message back, be it a chunk or an init
\* message, however its transfers are broken off, expire and begin again, so the
\* memory of the aggregator is bounded by the requests in use.  (Chunks of full
\* size carry no metadata.)
OneChunkHeldBack == \A r \in DOMAIN pending : Len(pending[r]) <= 1

\* A transfer sent to the end on an undisturbed bus leaves nothing behind, even
\* when its cuts leave its last chunk over: then the completion routes it.
TransfersSettle ==
  \A j \in Jobs :
    pc[j] = "sent" ~> \/ ~Undisturbed(j)
                      \/ On(req[j]) = {} /\ req[j] \notin DOMAIN pending
=============================================================================
