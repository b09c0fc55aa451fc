------------------------ MODULE BusController_proofs ------------------------
(***************************************************************************)
(* The bus controller's side of the bus, for any number of transfers,      *)
(* requests, frames and connections.                                       *)
(*                                                                         *)
(* Block transfers: no chunk is routed twice, an undisturbed transfer      *)
(* loses and reorders nothing, and the aggregator holds at most one chunk  *)
(* of a request back.                                                      *)
(*                                                                         *)
(* The listener: a stop that returned leaves nobody receiving.             *)
(***************************************************************************)
EXTENDS BlockTransfer, Listener, SequenceTheorems, TLAPS

\* Where a job is and what it has sent.
Stages ==
  \A j \in Jobs :
    /\ pc[j] = "idle" <=> req[j] = NoRequest
    /\ pc[j] \in {"idle", "init"} => next[j] = 0
    /\ pc[j] = "data" => next[j] \in 1..Chunks(j)

\* A request is acknowledged for the sake of a job.
Acknowledged == \A r \in acked : \E j \in Jobs : req[j] = r

\* A message carries the request of its job; a chunk was sent, and it kept its
\* metadata only as the last one.
SentOnce(m) ==
  /\ req[m.job] = m.request
  /\ IsChunk(m) => m.seq < next[m.job]
  /\ m.kind = "data" => m.seq = Chunks(m.job)

LineSent == \A i \in 1..Len(Line) : SentOnce(Line[i])

\* So it is for the chunks that the aggregator has seen.
HandledSent ==
  \A r \in Requests : \A i \in 1..Len(Handled(r)) :
    LET c == Handled(r)[i] IN req[c.job] = r /\ c.seq < next[c.job]

-----------------------------------------------------------------------------
\* Types

LEMMA QuotientPositive ==
  ASSUME NEW x \in Nat, NEW p \in Nat \ {0}, x >= p
  PROVE  x \div p \in Nat \ {0}
  OBVIOUS

LEMMA ChunksPositive == \A j \in Jobs : Chunks(j) \in Nat \ {0}
<1> SUFFICES ASSUME NEW j \in Jobs PROVE Chunks(j) \in Nat \ {0}
  OBVIOUS
<1> DEFINE x == Frames[j] + Payload - 1
<1>1. x \in Nat /\ Payload \in Nat \ {0} /\ x >= Payload
  BY TransferAssumption
<1>2. Chunks(j) = x \div Payload
  BY DEF Chunks
<1> HIDE DEF x
<1>3. x \div Payload \in Nat \ {0}
  BY <1>1, QuotientPositive
<1>4. QED
  BY <1>2, <1>3

LEMMA RemoveTyped ==
  ASSUME NEW S, NEW s \in Seq(S), NEW i \in 1..Len(s)
  PROVE  /\ RemoveAt(s, i) \in Seq(S)
         /\ Len(RemoveAt(s, i)) = Len(s) - 1
         /\ \A k \in 1..Len(s) - 1 :
              RemoveAt(s, i)[k] = IF k < i THEN s[k] ELSE s[k + 1]
<1> DEFINE a == SubSeq(s, 1, i - 1)
           b == SubSeq(s, i + 1, Len(s))
<1>1. \A k \in 1..Len(s) : s[k] \in S
  OBVIOUS
<1>2. a \in Seq(S) /\ Len(a) = i - 1 /\ \A k \in 1..i - 1 : a[k] = s[k]
  BY <1>1, SubSeqProperties
<1>3. b \in Seq(S) /\ Len(b) = Len(s) - i /\ \A k \in 1..Len(s) - i : b[k] = s[i + k]
  BY <1>1, SubSeqProperties
<1>4. RemoveAt(s, i) = a \o b
  BY DEF RemoveAt
<1> HIDE DEF a, b
<1>5. /\ a \o b \in Seq(S)
      /\ Len(a \o b) = Len(a) + Len(b)
      /\ \A k \in 1..Len(a) + Len(b) : (a \o b)[k] = IF k <= Len(a) THEN a[k] ELSE b[k - Len(a)]
  BY <1>2, <1>3, ConcatProperties
<1>6. Len(s) \in Nat
  OBVIOUS
<1>7. ASSUME NEW k \in 1..Len(s) - 1
      PROVE  (a \o b)[k] = IF k < i THEN s[k] ELSE s[k + 1]
  <2>1. CASE k < i
    BY <1>2, <1>3, <1>5, <1>6, <2>1
  <2>2. CASE ~(k < i)
    <3>1. k - (i - 1) \in 1..Len(s) - i /\ i + (k - (i - 1)) = k + 1
      BY <1>6, <2>2
    <3>2. (a \o b)[k] = b[k - (i - 1)]
      BY <1>2, <1>3, <1>5, <1>6, <2>2
    <3>3. b[k - (i - 1)] = s[k + 1]
      BY <1>3, <3>1
    <3>4. QED
      BY <2>2, <3>2, <3>3
  <2>3. QED
    BY <2>1, <2>2
<1>8. QED
  BY <1>2, <1>3, <1>4, <1>5, <1>6, <1>7

LEMMA MessageTyped ==
  ASSUME NEW j \in Jobs, req[j] \in Requests, NEW kind, NEW i,
         kind \in {"data", "bare", "complete"}, i \in 0..Chunks(j)
  PROVE  Message(j, kind, i) \in MessageSet
<1>1. Chunks(j) \in Nat
  BY ChunksPositive
<1>2. i \in Nat
  BY <1>1
<1>3. QED
  BY <1>2 DEF Message, MessageSet

LEMMA MessagesJoin ==
  ASSUME NEW u \in Seq(MessageSet), NEW v \in Seq(MessageSet)
  PROVE  /\ u \o v \in Seq(MessageSet) /\ Len(u \o v) = Len(u) + Len(v)
         /\ \A k \in 1..Len(u) : (u \o v)[k] = u[k]
         /\ \A d \in 1..Len(v) : (u \o v)[Len(u) + d] = v[d]
  OBVIOUS

\* What Transmit() does to the messages on their way: it appends m, or the
\* listener refuses it.
LEMMA Transmitted ==
  ASSUME TypeOK, NEW m \in MessageSet, Transmit(m), received' = received
  PROVE  /\ wire' \in Seq(MessageSet) /\ Len(wire') <= Capacity
         /\ disturbed' \in BOOLEAN /\ (disturbed => disturbed')
         /\ \/ Line' = Line /\ disturbed'
            \/ /\ Len(Line') = Len(Line) + 1
               /\ \A i \in 1..Len(Line) : Line'[i] = Line[i]
               /\ Line'[Len(Line) + 1] = m
<1> USE TransferAssumption
<1>1. wire \in Seq(MessageSet) /\ received \in Seq(MessageSet) /\ Len(wire) <= Capacity
      /\ disturbed \in BOOLEAN
  BY DEF TypeOK
<1>2. CASE Len(wire) < Capacity
  <2>1. wire' = Append(wire, m) /\ disturbed' = disturbed
    BY <1>2 DEF Transmit
  <2>2. /\ wire' \in Seq(MessageSet) /\ Len(wire') = Len(wire) + 1
        /\ \A i \in 1..Len(wire) : wire'[i] = wire[i]
        /\ wire'[Len(wire) + 1] = m
    BY <1>1, <2>1, AppendProperties
  <2>3. /\ Len(Line) = Len(received) + Len(wire)
        /\ \A k \in 1..Len(received) : Line[k] = received[k]
        /\ \A d \in 1..Len(wire) : Line[Len(received) + d] = wire[d]
    BY <1>1, MessagesJoin DEF Line
  <2>4. /\ Len(Line') = Len(received) + Len(wire')
        /\ \A k \in 1..Len(received) : Line'[k] = received[k]
        /\ \A d \in 1..Len(wire') : Line'[Len(received) + d] = wire'[d]
    <3>1. /\ Len(received \o wire') = Len(received) + Len(wire')
          /\ \A k \in 1..Len(received) : (received \o wire')[k] = received[k]
          /\ \A d \in 1..Len(wire') : (received \o wire')[Len(received) + d] = wire'[d]
      BY <1>1, <2>2, MessagesJoin
    <3>2. Line' = received \o wire'
      BY DEF Line
    <3>3. QED
      BY <3>1, <3>2
  <2>5. Len(received) \in Nat /\ Len(wire) \in Nat
    BY <1>1
  <2>6. ASSUME NEW i \in 1..Len(Line) PROVE Line'[i] = Line[i]
    <3>1. CASE i <= Len(received)
      BY <2>3, <2>4, <2>5, <3>1
    <3>2. CASE ~(i <= Len(received))
      <4>1. PICK d \in 1..Len(wire) : i = Len(received) + d
        <5>1. i - Len(received) \in 1..Len(wire) /\ i = Len(received) + (i - Len(received))
          BY <2>3, <2>5, <3>2
        <5>2. QED
          BY <5>1
      <4>2. d \in 1..Len(wire')
        BY <2>2, <2>5
      <4>3. Line[i] = wire[d] /\ Line'[i] = wire'[d]
        BY <2>3, <2>4, <4>1, <4>2
      <4>4. QED
        BY <2>2, <4>3
    <3>3. QED
      BY <3>1, <3>2
  <2>7. Line'[Len(Line) + 1] = m
    <3>1. Len(wire) + 1 \in 1..Len(wire')
      BY <2>2, <2>5
    <3>2. Line'[Len(received) + (Len(wire) + 1)] = m
      BY <2>2, <2>4, <3>1
    <3>3. Len(received) + (Len(wire) + 1) = Len(Line) + 1
      BY <2>3, <2>5
    <3>4. QED
      BY <3>2, <3>3
  <2>8. Len(Line') = Len(Line) + 1
    BY <2>2, <2>3, <2>4, <2>5
  <2>9. Len(wire') <= Capacity
    BY <1>2, <2>2, <2>5
  <2>10. QED
    BY <1>1, <2>1, <2>2, <2>6, <2>7, <2>8, <2>9
<1>3. CASE ~(Len(wire) < Capacity)
  BY <1>1, <1>3 DEF Transmit, Line
<1>4. QED
  BY <1>2, <1>3

\* What Receive() does to them: it permutes them, and on an undisturbed bus the
\* messages of a job keep their order.
Permutes(f) ==
  /\ f \in [1..Len(Line) -> 1..Len(Line)]
  /\ Len(Line') = Len(Line)
  /\ \A k \in 1..Len(Line) : Line'[k] = Line[f[k]]
  /\ \A k, l \in 1..Len(Line) : f[k] = f[l] => k = l
  /\ \A k \in 1..Len(Line) : \E l \in 1..Len(Line) : f[l] = k
  /\ ~disturbed' => \A k, l \in 1..Len(Line) :
                       k < l /\ Line'[k].job = Line'[l].job => f[k] < f[l]

LEMMA Permuted ==
  ASSUME TypeOK, NEW i \in 1..Len(wire), Receive(i)
  PROVE  /\ wire' \in Seq(MessageSet) /\ Len(wire') <= Capacity
         /\ received' \in Seq(MessageSet) /\ Len(received') <= MaxQueued
         /\ disturbed' \in BOOLEAN /\ (disturbed => disturbed')
         /\ \E f : Permutes(f)
<1> USE TransferAssumption
<1> DEFINE n == Len(received)
           o(k) == IF k = n + 1 THEN n + i ELSE IF n + 1 < k /\ k <= n + i THEN k - 1 ELSE k
           f == [k \in 1..Len(Line) |-> o(k)]
<1>1. /\ wire \in Seq(MessageSet) /\ received \in Seq(MessageSet) /\ disturbed \in BOOLEAN
      /\ Len(wire) <= Capacity /\ n < MaxQueued /\ n \in Nat /\ Len(wire) \in Nat
      /\ wire[i] \in MessageSet
  BY DEF TypeOK, Receive
<1>2. /\ received' = Append(received, wire[i]) /\ wire' = RemoveAt(wire, i)
      /\ disturbed' = (disturbed \/ \E k \in 1..(i - 1) : wire[k].job = wire[i].job)
  BY DEF Receive
<1>3. /\ received' \in Seq(MessageSet) /\ Len(received') = n + 1
      /\ \A k \in 1..n : received'[k] = received[k]
      /\ received'[n + 1] = wire[i]
  BY <1>1, <1>2, AppendProperties
<1>4. /\ wire' \in Seq(MessageSet) /\ Len(wire') = Len(wire) - 1
      /\ \A k \in 1..Len(wire) - 1 : wire'[k] = IF k < i THEN wire[k] ELSE wire[k + 1]
  BY <1>1, <1>2, RemoveTyped
<1>5. /\ Len(Line) = n + Len(wire)
      /\ \A k \in 1..n : Line[k] = received[k]
      /\ \A d \in 1..Len(wire) : Line[n + d] = wire[d]
  BY <1>1, MessagesJoin DEF Line
<1>6. /\ Len(Line') = n + Len(wire)
      /\ \A k \in 1..n : Line'[k] = received[k]
      /\ Line'[n + 1] = wire[i]
      /\ \A d \in 1..Len(wire) - 1 : Line'[n + 1 + d] = IF d < i THEN wire[d] ELSE wire[d + 1]
  <2>1. /\ Len(Line') = Len(received') + Len(wire')
        /\ \A k \in 1..Len(received') : Line'[k] = received'[k]
        /\ \A d \in 1..Len(wire') : Line'[Len(received') + d] = wire'[d]
    BY <1>3, <1>4, MessagesJoin DEF Line
  <2>2. QED
    BY <1>1, <1>3, <1>4, <2>1
<1> HIDE DEF n
<1>7. ASSUME NEW k \in 1..Len(Line) PROVE o(k) \in 1..Len(Line) /\ Line'[k] = Line[o(k)]
  <2>1. CASE k <= n
    <3>1. o(k) = k /\ k \in 1..n
      BY <1>1, <1>5, <2>1
    <3>2. QED
      BY <1>5, <1>6, <3>1
  <2>2. CASE k = n + 1
    <3>1. o(k) = n + i /\ n + i \in 1..Len(Line)
      BY <1>1, <1>5, <2>2
    <3>2. QED
      BY <1>5, <1>6, <2>2, <3>1
  <2>3. CASE n + 1 < k
    <3>1. PICK d \in 1..Len(wire) - 1 : k = n + 1 + d
      <4>1. k - (n + 1) \in 1..Len(wire) - 1 /\ k = n + 1 + (k - (n + 1))
        BY <1>1, <1>5, <2>3
      <4>2. QED
        BY <4>1
    <3>2. Line'[k] = IF d < i THEN wire[d] ELSE wire[d + 1]
      BY <1>6, <3>1
    <3>3. CASE d < i
      <4>1. o(k) = n + d /\ d \in 1..Len(wire)
        BY <1>1, <3>1, <3>3
      <4>2. QED
        BY <1>1, <1>5, <3>2, <3>3, <4>1
    <3>4. CASE ~(d < i)
      <4>1. o(k) = n + (d + 1) /\ d + 1 \in 1..Len(wire)
        BY <1>1, <3>1, <3>4
      <4>2. Line[n + (d + 1)] = wire[d + 1]
        BY <1>5, <4>1
      <4>3. n + (d + 1) \in 1..Len(Line)
        BY <1>1, <1>5, <4>1
      <4>4. Line'[k] = wire[d + 1]
        BY <3>2, <3>4
      <4>5. QED
        BY <4>1, <4>2, <4>3, <4>4
    <3>5. QED
      BY <3>3, <3>4
  <2>4. QED
    BY <1>1, <1>5, <2>1, <2>2, <2>3
<1>8. \A k, l \in 1..Len(Line) : o(k) = o(l) => k = l
  BY <1>1, <1>5
<1>9. ASSUME NEW k \in 1..Len(Line) PROVE \E l \in 1..Len(Line) : o(l) = k
  <2>1. CASE k = n + i
    <3>1. n + 1 \in 1..Len(Line) /\ o(n + 1) = k
      BY <1>1, <1>5, <2>1
    <3>2. QED
      BY <3>1
  <2>2. CASE n < k /\ k < n + i
    <3>1. k + 1 \in 1..Len(Line) /\ o(k + 1) = k
      BY <1>1, <1>5, <2>2
    <3>2. QED
      BY <3>1
  <2>3. CASE k <= n \/ n + i < k
    <3>1. o(k) = k
      BY <1>1, <1>5, <2>3
    <3>2. QED
      BY <3>1
  <2>4. QED
    BY <1>1, <1>5, <2>1, <2>2, <2>3
<1>10. ASSUME ~disturbed', NEW k \in 1..Len(Line), NEW l \in 1..Len(Line), k < l,
              Line'[k].job = Line'[l].job
       PROVE  o(k) < o(l)
  <2>1. CASE k = n + 1 /\ l <= n + i
    <3>1. PICK d \in 1..i - 1 : l = n + 1 + d
      <4>1. l - (n + 1) \in 1..i - 1 /\ l = n + 1 + (l - (n + 1))
        BY <1>1, <1>5, <1>10, <2>1
      <4>2. QED
        BY <4>1
    <3>2. d \in 1..Len(wire) - 1 /\ d < i
      BY <1>1, <3>1
    <3>3. Line'[k] = wire[i] /\ Line'[l] = wire[d]
      BY <1>6, <2>1, <3>1, <3>2
    <3>4. QED
      BY <1>2, <1>10, <3>1, <3>3
  <2>2. CASE ~(k = n + 1 /\ l <= n + i)
    BY <1>1, <1>5, <1>10, <2>2
  <2>3. QED
    BY <2>1, <2>2
<1> HIDE DEF o
<1>11. Permutes(f)
  <2>1. Len(Line') = Len(Line)
    BY <1>5, <1>6
  <2>2. QED
    BY <1>7, <1>8, <1>9, <1>10, <2>1 DEF Permutes
<1>12. disturbed' \in BOOLEAN /\ (disturbed => disturbed')
  BY <1>2
<1>13. Len(wire') <= Capacity /\ Len(received') <= MaxQueued
  BY <1>1, <1>3, <1>4
<1>14. QED
  BY <1>3, <1>4, <1>11, <1>12, <1>13

-----------------------------------------------------------------------------
\* The aggregator

Transfers(p) == DOMAIN p \subseteq Requests /\ p \in [DOMAIN p -> Seq(ChunkSet)]

LEMMA AppendLast ==
  ASSUME NEW s \in Seq(ChunkSet), NEW t \in Seq(ChunkSet), NEW c \in ChunkSet
  PROVE  s \o Append(t, c) = Append(s \o t, c)
<1>1. << c >> \in Seq(ChunkSet) /\ s \o t \in Seq(ChunkSet)
  BY ConcatProperties
<1>2. Append(t, c) = t \o << c >> /\ Append(s \o t, c) = (s \o t) \o << c >>
  BY <1>1, AppendIsConcat
<1>3. QED
  BY <1>1, <1>2, ConcatAssociative

LEMMA CollectedTyped ==
  ASSUME NEW p, Transfers(p), NEW r PROVE Collected(p, r) \in Seq(ChunkSet)
<1>1. << >> \in Seq(ChunkSet)
  BY EmptySeq
<1>2. QED
  BY <1>1 DEF Transfers, Collected

\* Whether a transfer is routed or kept, r's chunks follow what was routed.
LEMMA Filed ==
  ASSUME TypeOK, NEW p, Transfers(p), NEW r \in Requests, NEW chunks \in Seq(ChunkSet),
         Finalize(p, r, chunks) \/ Collect(p, r, chunks)
  PROVE  /\ Transfers(pending') /\ routed' \in [Requests -> Seq(ChunkSet)]
         /\ \A q \in Requests :
              Handled(q)' = routed[q] \o (IF q = r THEN chunks ELSE Collected(p, q))
<1>1. routed \in [Requests -> Seq(ChunkSet)]
  BY DEF TypeOK
<1>2. CASE Finalize(p, r, chunks)
  <2>1. routed' = [routed EXCEPT ![r] = routed[r] \o chunks] /\ pending' = Without(p, r)
    BY <1>2 DEF Finalize
  <2>2. routed[r] \o chunks \in Seq(ChunkSet) /\ (routed[r] \o chunks) \o << >> = routed[r] \o chunks
    <3>1. routed[r] \o chunks \in Seq(ChunkSet)
      BY <1>1, ConcatProperties
    <3>2. QED
      BY <3>1, ConcatEmptySeq
  <2>3. routed' \in [Requests -> Seq(ChunkSet)]
    BY <1>1, <2>1, <2>2
  <2>4. Transfers(pending')
    BY <2>1 DEF Transfers, Without
  <2>5. \A q \in Requests : Collected(pending', q) = IF q = r THEN << >> ELSE Collected(p, q)
    BY <2>1 DEF Without, Collected
  <2>6. \A q \in Requests : routed'[q] = IF q = r THEN routed[r] \o chunks ELSE routed[q]
    BY <1>1, <2>1
  <2>7. \A q \in Requests : Handled(q)' = routed'[q] \o Collected(pending', q)
    BY DEF Handled
  <2>8. QED
    BY <2>2, <2>3, <2>4, <2>5, <2>6, <2>7
<1>3. CASE Collect(p, r, chunks)
  <2>1. routed' = routed /\ pending' = With(p, r, chunks)
    BY <1>3 DEF Collect
  <2>2. Transfers(pending')
    BY <2>1 DEF Transfers, With
  <2>3. \A q \in Requests : Collected(pending', q) = IF q = r THEN chunks ELSE Collected(p, q)
    BY <2>1 DEF With, Collected
  <2>4. \A q \in Requests : Handled(q)' = routed'[q] \o Collected(pending', q)
    BY DEF Handled
  <2>5. QED
    BY <1>1, <2>1, <2>2, <2>3, <2>4
<1>4. QED
  BY <1>2, <1>3

\* What Process() does: the head of the messages on their way is gone, and its
\* chunk, if it is one, follows what its request has kept, which is all that was
\* there unless the transfer expired.
Kept(q, h) ==
  /\ h \in Seq(ChunkSet) /\ Len(h) <= Len(Handled(q))
  /\ \A i \in 1..Len(h) : h[i] = Handled(q)[i]
  /\ LET m == Line[1] IN
     /\ ~disturbed' => h = Handled(q)
     /\ Handled(q)' = IF IsChunk(m) /\ m.request = q THEN Append(h, ChunkOf(m)) ELSE h

LEMMA Registered ==
  ASSUME TypeOK, Process
  PROVE  /\ received' \in Seq(MessageSet) /\ Len(received') <= MaxQueued
         /\ Transfers(pending') /\ routed' \in [Requests -> Seq(ChunkSet)]
         /\ disturbed' \in BOOLEAN /\ (disturbed => disturbed')
         /\ Line[1] \in MessageSet /\ Len(Line) > 0 /\ Len(Line') = Len(Line) - 1
         /\ \A i \in 1..Len(Line') : Line'[i] = Line[i + 1]
         /\ \A q \in Requests : \E h : Kept(q, h)
<1> DEFINE m == Head(received)
           r == m.request
<1> USE TransferAssumption
<1>1. PICK gone \in SUBSET DOMAIN pending :
        /\ disturbed' = (disturbed \/ gone # {})
        /\ \/ RegisterData(Expire(gone), m) \/ RegisterBare(Expire(gone), m)
           \/ RegisterComplete(Expire(gone), m)
  BY DEF Process
<1> DEFINE p == Expire(gone)
           was(q) == routed[q] \o Collected(p, q)
<1>2. /\ received # << >> /\ received' = Tail(received) /\ wire' = wire
      /\ received \in Seq(MessageSet) /\ wire \in Seq(MessageSet) /\ Len(received) <= MaxQueued
      /\ disturbed \in BOOLEAN /\ routed \in [Requests -> Seq(ChunkSet)] /\ Transfers(pending)
  BY DEF Process, TypeOK, Transfers
<1>3. /\ m \in MessageSet /\ received' \in Seq(MessageSet) /\ Len(received') = Len(received) - 1
      /\ \A i \in 1..Len(received') : received'[i] = received[i + 1]
      /\ m = received[1] /\ Len(received) \in Nat \ {0} /\ Len(wire) \in Nat
  BY <1>2, HeadTailProperties
<1>4. /\ Len(Line) = Len(received) + Len(wire)
      /\ \A i \in 1..Len(received) : Line[i] = received[i]
      /\ \A d \in 1..Len(wire) : Line[Len(received) + d] = wire[d]
  BY <1>2, MessagesJoin DEF Line
<1>5. /\ Len(Line') = Len(received') + Len(wire)
      /\ \A i \in 1..Len(received') : Line'[i] = received'[i]
      /\ \A d \in 1..Len(wire) : Line'[Len(received') + d] = wire[d]
  <2>1. Line' = received' \o wire
    BY <1>2 DEF Line
  <2>2. QED
    BY <1>2, <1>3, <2>1, MessagesJoin
<1>6. Line[1] = m /\ Len(Line) > 0 /\ Len(Line') = Len(Line) - 1
  BY <1>3, <1>4, <1>5
<1>7. ASSUME NEW i \in 1..Len(Line') PROVE Line'[i] = Line[i + 1]
  <2>1. CASE i <= Len(received')
    <3>1. i + 1 \in 1..Len(received) /\ i \in 1..Len(received')
      BY <1>3, <1>5, <2>1
    <3>2. QED
      BY <1>3, <1>4, <1>5, <3>1
  <2>2. CASE ~(i <= Len(received'))
    <3>1. PICK d \in 1..Len(wire) : i = Len(received') + d
      <4>1. i - Len(received') \in 1..Len(wire) /\ i = Len(received') + (i - Len(received'))
        BY <1>3, <1>5, <2>2
      <4>2. QED
        BY <4>1
    <3>2. i + 1 = Len(received) + d
      BY <1>3, <3>1
    <3>3. QED
      BY <1>4, <1>5, <3>1, <3>2
  <2>3. QED
    BY <2>1, <2>2
<1>8. disturbed' \in BOOLEAN /\ (disturbed => disturbed') /\ (~disturbed' => gone = {})
  BY <1>1, <1>2
<1>9. Transfers(p) /\ (gone = {} => p = pending)
  BY <1>2 DEF Transfers, Expire
<1>10. r \in Requests /\ ChunkOf(m) = [job |-> m.job, seq |-> m.seq]
  BY <1>3 DEF MessageSet, ChunkOf
<1>11. IsChunk(m) => ChunkOf(m) \in ChunkSet
  BY <1>3, ChunksPositive DEF MessageSet, ChunkOf, ChunkSet, IsChunk
<1>12. \A q \in Requests : Collected(p, q) \in Seq(ChunkSet) /\ Collected(pending, q) \in Seq(ChunkSet)
  BY <1>2, <1>9, CollectedTyped
<1>13. /\ Transfers(pending') /\ routed' \in [Requests -> Seq(ChunkSet)]
       /\ \A q \in Requests :
            Handled(q)' = IF q # r THEN was(q)
                          ELSE IF IsChunk(m) THEN Append(was(r), ChunkOf(m)) ELSE was(r)
  <2> HIDE DEF p
  <2> DEFINE Goal(now) ==
        /\ Transfers(pending') /\ routed' \in [Requests -> Seq(ChunkSet)]
        /\ \A q \in Requests : Handled(q)' = IF q = r THEN now ELSE was(q)
  <2>0. ASSUME NEW chunks \in Seq(ChunkSet), Finalize(p, r, chunks) \/ Collect(p, r, chunks)
        PROVE  Goal(routed[r] \o chunks)
    <3>1. /\ Transfers(pending') /\ routed' \in [Requests -> Seq(ChunkSet)]
          /\ \A q \in Requests :
               Handled(q)' = routed[q] \o (IF q = r THEN chunks ELSE Collected(p, q))
      BY <1>9, <1>10, <2>0, Filed
    <3>2. QED
      BY <3>1
  <2> HIDE DEF Goal
  <2>2. CASE RegisterData(p, m) \/ RegisterBare(p, m)
    <3> DEFINE chunks == Append(Collected(p, r), ChunkOf(m))
    <3>1. IsChunk(m) /\ (Finalize(p, r, chunks) \/ Collect(p, r, chunks))
      BY <2>2 DEF RegisterData, RegisterBare, IsChunk
    <3>2. chunks \in Seq(ChunkSet)
      BY <1>10, <1>11, <1>12, <3>1, AppendProperties
    <3>3. routed[r] \o chunks = Append(was(r), ChunkOf(m))
      <4>1. /\ routed[r] \in Seq(ChunkSet) /\ Collected(p, r) \in Seq(ChunkSet)
            /\ ChunkOf(m) \in ChunkSet
        BY <1>2, <1>10, <1>11, <1>12, <3>1
      <4> HIDE DEF m
      <4>2. QED
        BY <4>1, AppendLast
    <3> HIDE DEF chunks
    <3>4. Goal(routed[r] \o chunks)
      BY <2>0, <3>1, <3>2
    <3>5. Goal(Append(was(r), ChunkOf(m)))
      BY <3>3, <3>4
    <3>6. QED
      BY <3>1, <3>5 DEF Goal
  <2>3. CASE RegisterComplete(p, m)
    <3>1. m.kind = "complete"
      BY <2>3 DEF RegisterComplete
    <3>2. CASE r \in DOMAIN p
      <4>1. Finalize(p, r, Collected(p, r))
        BY <2>3, <3>2 DEF RegisterComplete, Collected
      <4>2. Goal(was(r))
        BY <1>10, <1>12, <2>0, <4>1
      <4>3. QED
        BY <3>1, <4>2 DEF IsChunk, Goal
    <3>3. CASE r \notin DOMAIN p
      <4>1. pending' = p /\ routed' = routed
        BY <2>3, <3>3 DEF RegisterComplete
      <4>2. \A q \in Requests : Handled(q)' = was(q)
        BY <4>1 DEF Handled
      <4>3. QED
        BY <1>2, <1>9, <3>1, <4>1, <4>2 DEF IsChunk
    <3>4. QED
      BY <3>2, <3>3
  <2>4. QED
    BY <1>1, <2>2, <2>3 DEF p
<1>14. ASSUME NEW q \in Requests PROVE \E h : Kept(q, h)
  <2> DEFINE h == was(q)
  <2>1. \/ Collected(p, q) = << >> /\ gone # {}
        \/ Collected(p, q) = Collected(pending, q)
    BY DEF Expire, Collected
  <2>2. routed[q] \in Seq(ChunkSet) /\ routed[q] \o << >> = routed[q]
    <3>1. routed[q] \in Seq(ChunkSet)
      BY <1>2
    <3>2. QED
      BY <3>1, ConcatEmptySeq
  <2>3. h \in {routed[q], Handled(q)}
    BY <2>1, <2>2 DEF Handled
  <2>4. /\ Handled(q) \in Seq(ChunkSet) /\ Len(routed[q]) <= Len(Handled(q))
        /\ \A i \in 1..Len(routed[q]) : Handled(q)[i] = routed[q][i]
    <3>1. Collected(pending, q) \in Seq(ChunkSet)
      BY <1>12
    <3>2. QED
      BY <2>2, <3>1, ConcatProperties DEF Handled
  <2>5. /\ h \in Seq(ChunkSet) /\ Len(h) <= Len(Handled(q))
        /\ \A i \in 1..Len(h) : h[i] = Handled(q)[i]
    <3> HIDE DEF h
    <3>1. QED
      BY <2>2, <2>3, <2>4
  <2>6. ~disturbed' => h = Handled(q)
    BY <1>8, <1>9 DEF Handled
  <2>7. Handled(q)' = IF IsChunk(m) /\ m.request = q THEN Append(h, ChunkOf(m)) ELSE h
    <3> HIDE DEF p
    <3>1. CASE q # r
      BY <1>13, <3>1
    <3>2. CASE q = r /\ IsChunk(m)
      BY <1>13, <3>2 DEF IsChunk
    <3>3. CASE q = r /\ ~IsChunk(m)
      BY <1>13, <3>3
    <3>4. QED
      BY <3>1, <3>2, <3>3
  <2> HIDE DEF h
  <2>8. Kept(q, h)
    BY <1>6, <2>5, <2>6, <2>7 DEF Kept
  <2>9. QED
    BY <2>8
<1>15. Len(received') <= MaxQueued
  BY <1>2, <1>3
<1>16. QED
  BY <1>3, <1>6, <1>7, <1>8, <1>13, <1>14, <1>15

-----------------------------------------------------------------------------
\* Types and stages

Typed == TypeOK /\ Stages /\ Acknowledged

LEMMA TypeInit == Init => Typed
<1> SUFFICES ASSUME Init PROVE Typed
  OBVIOUS
<1>1. << >> \in Seq(MessageSet) /\ << >> \in Seq(ChunkSet) /\ Len(<< >>) = 0
  BY EmptySeq
<1>2. \A j \in Jobs : 0 \in 0..Chunks(j) + 1
  BY ChunksPositive
<1>3. DOMAIN pending = {} /\ pending \in [DOMAIN pending -> Seq(ChunkSet)]
  BY <1>1 DEF Init
<1>4. Stages /\ Acknowledged
  BY TransferAssumption DEF Init, Stages, Acknowledged
<1>5. /\ pc \in [Jobs -> {"idle", "init", "data", "complete", "sent", "failed"}]
      /\ req \in [Jobs -> Requests \cup {NoRequest}]
      /\ next \in [Jobs -> Nat] /\ \A j \in Jobs : next[j] \in 0..Chunks(j) + 1
  BY <1>2 DEF Init
<1>6. /\ wire \in Seq(MessageSet) /\ Len(wire) <= Capacity
      /\ received \in Seq(MessageSet) /\ Len(received) <= MaxQueued
      /\ routed \in [Requests -> Seq(ChunkSet)] /\ acked \subseteq Requests
  BY <1>1, TransferAssumption DEF Init
<1>7. disturbed \in BOOLEAN
  BY DEF Init
<1>8. QED
  BY <1>3, <1>4, <1>5, <1>6, <1>7 DEF Typed, TypeOK

\* A job that sends has its request, and what it sends is a message.
LEMMA Sending ==
  ASSUME Typed, NEW j \in Jobs, SendInit(j) \/ SendChunk(j) \/ SendComplete(j)
  PROVE  /\ req[j] \in Requests /\ next[j] \in Nat /\ Chunks(j) \in Nat \ {0}
         /\ \/ /\ SendInit(j) /\ pc[j] = "init" /\ next[j] = 0
               /\ Message(j, InitKind, 0) \in MessageSet
               /\ Transmit(Message(j, InitKind, 0)) /\ received' = received
            \/ /\ SendChunk(j) /\ pc[j] = "data" /\ next[j] \in 1..Chunks(j)
               /\ Message(j, ChunkKind(j, next[j]), next[j]) \in MessageSet
               /\ Transmit(Message(j, ChunkKind(j, next[j]), next[j])) /\ received' = received
            \/ /\ SendComplete(j) /\ pc[j] = "complete" /\ Message(j, "complete", 0) \in MessageSet
               /\ Transmit(Message(j, "complete", 0)) /\ received' = received
<1>1. /\ pc[j] # "idle" /\ req[j] \in Requests /\ next[j] \in Nat /\ Chunks(j) \in Nat \ {0}
      /\ pc[j] = "data" => next[j] \in 1..Chunks(j)
      /\ pc[j] = "init" => next[j] = 0
  BY ChunksPositive DEF Typed, TypeOK, Stages, SendInit, SendChunk, SendComplete
<1>2. 0 \in 0..Chunks(j) /\ (pc[j] = "data" => next[j] \in 0..Chunks(j))
  BY <1>1
<1>3. CASE SendInit(j)
  BY <1>1, <1>2, <1>3, MessageTyped DEF SendInit, InitKind
<1>4. CASE SendChunk(j)
  <2>1. pc[j] = "data" /\ ChunkKind(j, next[j]) \in {"data", "bare", "complete"}
    BY <1>4 DEF SendChunk, ChunkKind
  <2>2. Message(j, ChunkKind(j, next[j]), next[j]) \in MessageSet
    BY <1>1, <1>2, <2>1, MessageTyped
  <2>3. Transmit(Message(j, ChunkKind(j, next[j]), next[j])) /\ received' = received
    BY <1>4 DEF SendChunk
  <2>4. QED
    BY <1>1, <1>4, <2>1, <2>2, <2>3
<1>5. CASE SendComplete(j)
  BY <1>1, <1>2, <1>5, MessageTyped DEF SendComplete
<1>6. QED
  BY <1>3, <1>4, <1>5

\* A job moves on to the chunk k, or to none, with a request.
LEMMA Advance ==
  ASSUME Typed, NEW j \in Jobs, req[j] \in Requests, req' = req,
         NEW label \in {"data", "complete", "sent", "failed"}, Goto(j, label),
         NEW k \in 0..Chunks(j) + 1, next' = [next EXCEPT ![j] = k],
         label = "data" => k \in 1..Chunks(j)
  PROVE  /\ pc' \in [Jobs -> {"idle", "init", "data", "complete", "sent", "failed"}]
         /\ next' \in [Jobs -> Nat] /\ \A l \in Jobs : next'[l] \in 0..Chunks(l) + 1
         /\ Stages'
<1>1. Chunks(j) \in Nat /\ k \in Nat
  BY ChunksPositive
<1>2. /\ pc \in [Jobs -> {"idle", "init", "data", "complete", "sent", "failed"}]
      /\ next \in [Jobs -> Nat] /\ \A l \in Jobs : next[l] \in 0..Chunks(l) + 1
      /\ NoRequest \notin Requests
  BY TransferAssumption DEF Typed, TypeOK
<1>3. /\ pc' = [pc EXCEPT ![j] = label] /\ pc'[j] = label /\ next'[j] = k
      /\ \A l \in Jobs \ {j} : pc'[l] = pc[l] /\ next'[l] = next[l]
  BY <1>2 DEF Goto
<1>4. next' \in [Jobs -> Nat] /\ \A l \in Jobs : next'[l] \in 0..Chunks(l) + 1
  BY <1>1, <1>2, <1>3
<1>5. pc' \in [Jobs -> {"idle", "init", "data", "complete", "sent", "failed"}]
  BY <1>2, <1>3
<1>6. Stages'
  BY <1>2, <1>3 DEF Typed, Stages, Chunks
<1>7. QED
  BY <1>4, <1>5, <1>6

LEMMA TypeStep == Typed /\ [Next]_vars => Typed'
<1> SUFFICES ASSUME Typed, [Next]_vars PROVE Typed'
  OBVIOUS
<1> USE TransferAssumption
<1>0. \A j \in Jobs : Chunks(j) \in Nat \ {0}
  BY ChunksPositive
<1>1. ASSUME NEW j \in Jobs, SendInit(j) \/ SendChunk(j) \/ SendComplete(j) PROVE Typed'
  <2>1. PICK m \in MessageSet : Transmit(m) /\ received' = received
    BY <1>1, Sending
  <2>2. TypeOK /\ Acknowledged
    BY DEF Typed
  <2>3. wire' \in Seq(MessageSet) /\ Len(wire') <= Capacity /\ disturbed' \in BOOLEAN
    BY <2>1, <2>2, Transmitted
  <2>4. req[j] \in Requests /\ next[j] \in 0..Chunks(j) + 1 /\ Chunks(j) \in Nat \ {0}
    BY <1>1, <2>2, Sending DEF TypeOK
  <2>5. /\ pc' \in [Jobs -> {"idle", "init", "data", "complete", "sent", "failed"}]
        /\ next' \in [Jobs -> Nat] /\ \A l \in Jobs : next'[l] \in 0..Chunks(l) + 1
        /\ Stages'
    <3>1. CASE SendInit(j)
      <4>1. /\ Goto(j, "data") /\ next' = [next EXCEPT ![j] = 1] /\ req' = req
            /\ 1 \in 1..Chunks(j) /\ 1 \in 0..Chunks(j) + 1
        BY <2>4, <3>1 DEF SendInit
      <4>2. QED
        BY <2>4, <4>1, Advance
    <3>2. CASE SendChunk(j)
      <4> DEFINE label == IF next[j] = Chunks(j) THEN "complete" ELSE "data"
      <4>1. pc[j] = "data" /\ Goto(j, label) /\ next' = [next EXCEPT ![j] = next[j] + 1] /\ req' = req
        BY <3>2 DEF SendChunk
      <4>2. next[j] \in 1..Chunks(j)
        BY <4>1 DEF Typed, Stages
      <4>3. next[j] + 1 \in 0..Chunks(j) + 1 /\ (label = "data" => next[j] + 1 \in 1..Chunks(j))
        BY <2>4, <4>2
      <4>4. label \in {"data", "complete", "sent", "failed"}
        OBVIOUS
      <4> HIDE DEF label
      <4>5. QED
        BY <2>4, <4>1, <4>3, <4>4, Advance
    <3>3. CASE SendComplete(j)
      <4>1. Goto(j, "sent") /\ next' = [next EXCEPT ![j] = next[j]] /\ req' = req
        BY <2>2, <3>3 DEF SendComplete, TypeOK
      <4>2. QED
        BY <2>4, <4>1, Advance
    <3>4. QED
      BY <1>1, <3>1, <3>2, <3>3
  <2>6. /\ req' = req /\ received' = received /\ pending' = pending /\ routed' = routed
        /\ acked' \subseteq acked \cup {req[j]}
    BY <1>1 DEF SendInit, SendChunk, SendComplete
  <2>7. TypeOK'
    BY <2>2, <2>3, <2>4, <2>5, <2>6 DEF TypeOK
  <2>8. Acknowledged'
    BY <2>2, <2>6 DEF Acknowledged
  <2>9. QED
    BY <2>5, <2>7, <2>8 DEF Typed
<1>2. ASSUME NEW j \in Jobs, GiveUp(j) PROVE Typed'
  <2>1. /\ pc[j] # "idle" /\ Goto(j, "failed") /\ disturbed' = TRUE
        /\ UNCHANGED <<req, next, acked, wire, received, pending, routed>>
    BY <1>2 DEF GiveUp
  <2>2. /\ req[j] \in Requests /\ next[j] \in 0..Chunks(j) + 1 /\ next' = [next EXCEPT ![j] = next[j]]
    BY <2>1 DEF Typed, TypeOK, Stages
  <2>3. /\ pc' \in [Jobs -> {"idle", "init", "data", "complete", "sent", "failed"}] /\ Stages'
    BY <2>1, <2>2, Advance
  <2>4. QED
    BY <2>1, <2>3 DEF Typed, TypeOK, Acknowledged
<1>3. ASSUME NEW j \in Jobs, NEW r \in Requests, Begin(j, r) PROVE Typed'
  <2>1. /\ pc[j] = "idle" /\ req' = [req EXCEPT ![j] = r] /\ next[j] = 0 /\ req[j] = NoRequest
        /\ UNCHANGED <<acked, wire, received, pending, routed, disturbed>>
        /\ \/ pc' = [pc EXCEPT ![j] = "data"] /\ next' = [next EXCEPT ![j] = 1]
           \/ pc' = [pc EXCEPT ![j] = "init"] /\ next' = [next EXCEPT ![j] = 0]
    BY <1>3 DEF Begin, Goto, Typed, TypeOK, Stages
  <2>2. /\ pc' \in [Jobs -> {"idle", "init", "data", "complete", "sent", "failed"}]
        /\ req' \in [Jobs -> Requests \cup {NoRequest}]
    BY <2>1 DEF Typed, TypeOK
  <2>3. next' \in [Jobs -> Nat] /\ \A l \in Jobs : next'[l] \in 0..Chunks(l) + 1
    <3>1. PICK k \in {0, 1} : next' = [next EXCEPT ![j] = k]
      BY <2>1
    <3>2. k \in Nat /\ k \in 0..Chunks(j) + 1
      BY <1>0
    <3>3. \A l \in Jobs : next'[l] = IF l = j THEN k ELSE next[l]
      BY <3>1 DEF Typed, TypeOK
    <3>4. next' \in [Jobs -> Nat]
      BY <3>1, <3>2 DEF Typed, TypeOK
    <3>5. QED
      BY <3>2, <3>3, <3>4 DEF Typed, TypeOK
  <2>4. TypeOK'
    BY <2>1, <2>2, <2>3 DEF Typed, TypeOK
  <2>5. Stages'
    <3>1. \A k \in Jobs \ {j} : pc'[k] = pc[k] /\ next'[k] = next[k] /\ req'[k] = req[k]
      BY <2>1 DEF Typed, TypeOK
    <3>2. /\ req'[j] = r /\ r # NoRequest
          /\ \/ pc'[j] = "data" /\ next'[j] = 1
             \/ pc'[j] = "init" /\ next'[j] = 0
      BY <2>1 DEF Typed, TypeOK
    <3>3. 1 \in 1..Chunks(j)
      BY <1>0
    <3>4. QED
      BY <3>1, <3>2, <3>3 DEF Typed, Stages, Chunks
  <2>6. Acknowledged'
    BY <2>1 DEF Typed, TypeOK, Acknowledged
  <2>7. QED
    BY <2>4, <2>5, <2>6 DEF Typed
<1>4. ASSUME NEW r \in Requests, AckExpires(r) PROVE Typed'
  BY <1>4 DEF AckExpires, Typed, TypeOK, Stages, Acknowledged
<1>5. ASSUME NEW i \in 1..Len(wire), Receive(i) PROVE Typed'
  <2>1. /\ wire' \in Seq(MessageSet) /\ Len(wire') <= Capacity
        /\ received' \in Seq(MessageSet) /\ Len(received') <= MaxQueued
        /\ disturbed' \in BOOLEAN
    BY <1>5, Permuted DEF Typed
  <2>2. UNCHANGED <<pc, req, next, acked, pending, routed>>
    BY <1>5 DEF Receive
  <2>3. QED
    BY <2>1, <2>2 DEF Typed, TypeOK, Stages, Acknowledged
<1>6. CASE Process
  <2>1. /\ received' \in Seq(MessageSet) /\ Len(received') <= MaxQueued
        /\ Transfers(pending') /\ routed' \in [Requests -> Seq(ChunkSet)]
        /\ disturbed' \in BOOLEAN
    BY <1>6, Registered DEF Typed
  <2>2. UNCHANGED <<pc, req, next, acked, wire>>
    BY <1>6 DEF Process
  <2>3. QED
    BY <2>1, <2>2 DEF Typed, TypeOK, Stages, Acknowledged, Transfers
<1>7. CASE UNCHANGED vars
  BY <1>7 DEF vars, Typed, TypeOK, Stages, Acknowledged
<1>8. QED
  BY <1>1, <1>2, <1>3, <1>4, <1>5, <1>6, <1>7 DEF Next, Send

\* Every variable of the transfers keeps its type; in particular no job numbers
\* a chunk beyond the last one.
THEOREM TransfersTyped == Spec => []TypeOK
<1>1. QED
  BY TypeInit, TypeStep, PTL DEF Spec, Typed

-----------------------------------------------------------------------------
\* What was sent

LEMMA LineTyped ==
  ASSUME TypeOK
  PROVE  /\ Len(Line) \in Nat /\ \A i \in 1..Len(Line) : Line[i] \in MessageSet
         /\ \A r \in Requests :
              /\ Handled(r) \in Seq(ChunkSet) /\ Len(Handled(r)) \in Nat
              /\ \A i \in 1..Len(Handled(r)) : Handled(r)[i] \in ChunkSet
<1>1. Line \in Seq(MessageSet)
  BY ConcatProperties DEF TypeOK, Line
<1>2. ASSUME NEW r \in Requests PROVE Handled(r) \in Seq(ChunkSet)
  <2>1. routed[r] \in Seq(ChunkSet) /\ Collected(pending, r) \in Seq(ChunkSet)
    BY CollectedTyped DEF TypeOK, Transfers
  <2>2. QED
    BY <2>1, ConcatProperties DEF Handled
<1>3. QED
  BY <1>1, <1>2

\* A chunk with metadata is the last of its job: the others are too large.
LEMMA DataIsLast ==
  ASSUME NEW j \in Jobs, NEW i \in 1..Chunks(j), ChunkKind(j, i) = "data"
  PROVE  i = Chunks(j)
<1>1. Chunks(j) \in Nat /\ Payload \in Nat /\ Flagged \in Nat
  BY ChunksPositive, TransferAssumption
<1>2. QED
  BY <1>1, FullChunksBare DEF ChunkKind, Size

\* What a step of a job adds to the messages on their way.
Sends(j, m) ==
  /\ m \in MessageSet /\ m.job = j /\ m.request = req[j]
  /\ \/ Line' = Line /\ disturbed'
     \/ /\ Len(Line') = Len(Line) + 1
        /\ \A i \in 1..Len(Line) : Line'[i] = Line[i]
        /\ Line'[Len(Line) + 1] = m
  /\ disturbed => disturbed'
  /\ req' = req /\ routed' = routed /\ pending' = pending
  /\ \/ /\ IsChunk(m) /\ m.seq = next[j]
        /\ next' = [next EXCEPT ![j] = next[j] + 1]
        /\ m.kind = "data" => m.seq = Chunks(j)
     \/ ~IsChunk(m) /\ next' = next

LEMMA JobSends ==
  ASSUME Typed, NEW j \in Jobs, SendInit(j) \/ SendChunk(j) \/ SendComplete(j)
  PROVE  \E m : Sends(j, m)
<1>0. TypeOK
  BY DEF Typed
<1>1. CASE SendInit(j)
  <2> DEFINE m == Message(j, InitKind, 0)
  <2>1. next[j] = 0 /\ m \in MessageSet /\ Transmit(m) /\ received' = received
    <3>1. pc[j] = "init"
      BY <1>1 DEF SendInit
    <3>2. QED
      BY <1>1, <3>1, Sending
  <2>2. m.job = j /\ m.request = req[j] /\ m.kind = "bare" /\ m.seq = 0 /\ IsChunk(m)
    BY DEF Message, IsChunk, InitKind
  <2> HIDE DEF m
  <2>3. /\ disturbed => disturbed'
        /\ \/ Line' = Line /\ disturbed'
           \/ /\ Len(Line') = Len(Line) + 1
              /\ \A i \in 1..Len(Line) : Line'[i] = Line[i]
              /\ Line'[Len(Line) + 1] = m
    BY <1>0, <2>1, Transmitted
  <2>4. Sends(j, m)
    BY <1>1, <2>1, <2>2, <2>3 DEF Sends, SendInit
  <2>5. QED
    BY <2>4
<1>2. CASE SendChunk(j)
  <2> DEFINE m == Message(j, ChunkKind(j, next[j]), next[j])
  <2>1. /\ pc[j] = "data" /\ m \in MessageSet /\ Transmit(m) /\ received' = received
        /\ next[j] \in 1..Chunks(j)
    <3>1. pc[j] = "data"
      BY <1>2 DEF SendChunk
    <3>2. QED
      BY <1>2, <3>1, Sending
  <2>2. /\ m.job = j /\ m.request = req[j] /\ m.seq = next[j] /\ IsChunk(m)
        /\ m.kind = ChunkKind(j, next[j])
    BY DEF Message, IsChunk, ChunkKind
  <2>3. m.kind = "data" => m.seq = Chunks(j)
    BY <2>1, <2>2, DataIsLast
  <2> HIDE DEF m
  <2>4. /\ disturbed => disturbed'
        /\ \/ Line' = Line /\ disturbed'
           \/ /\ Len(Line') = Len(Line) + 1
              /\ \A i \in 1..Len(Line) : Line'[i] = Line[i]
              /\ Line'[Len(Line) + 1] = m
    BY <1>0, <2>1, Transmitted
  <2>5. Sends(j, m)
    BY <1>2, <2>1, <2>2, <2>3, <2>4 DEF Sends, SendChunk
  <2>6. QED
    BY <2>5
<1>3. CASE SendComplete(j)
  <2> DEFINE m == Message(j, "complete", 0)
  <2>1. pc[j] = "complete" /\ m \in MessageSet /\ Transmit(m) /\ received' = received
    <3>1. pc[j] = "complete"
      BY <1>3 DEF SendComplete
    <3>2. QED
      BY <1>3, <3>1, Sending
  <2>2. m.job = j /\ m.request = req[j] /\ ~IsChunk(m)
    BY DEF Message, IsChunk
  <2> HIDE DEF m
  <2>3. /\ disturbed => disturbed'
        /\ \/ Line' = Line /\ disturbed'
           \/ /\ Len(Line') = Len(Line) + 1
              /\ \A i \in 1..Len(Line) : Line'[i] = Line[i]
              /\ Line'[Len(Line) + 1] = m
    BY <1>0, <2>1, Transmitted
  <2>4. Sends(j, m)
    BY <1>3, <2>1, <2>2, <2>3 DEF Sends, SendComplete
  <2>5. QED
    BY <2>4
<1>4. QED
  BY <1>1, <1>2, <1>3

\* What the other steps do to the messages on their way, and to what the
\* aggregator has seen.
Begins(j, r) ==
  /\ pc[j] = "idle" /\ req' = [req EXCEPT ![j] = r] /\ disturbed' = disturbed
  /\ \/ next' = next
     \/ next' = [next EXCEPT ![j] = 1] /\ \E k \in Jobs : req[k] = r
  /\ Line' = Line /\ routed' = routed /\ pending' = pending

Rests ==
  /\ req' = req /\ next' = next /\ (disturbed => disturbed')
  /\ Line' = Line /\ routed' = routed /\ pending' = pending

Moves(f) ==
  /\ req' = req /\ next' = next /\ (disturbed => disturbed')
  /\ Permutes(f) /\ routed' = routed /\ pending' = pending

Takes ==
  /\ req' = req /\ next' = next /\ (disturbed => disturbed')
  /\ Line[1] \in MessageSet /\ Len(Line) > 0 /\ Len(Line') = Len(Line) - 1
  /\ \A i \in 1..Len(Line') : Line'[i] = Line[i + 1]
  /\ \A q \in Requests : \E h : Kept(q, h)

LEMMA Steps ==
  ASSUME Typed, [Next]_vars
  PROVE  \/ \E j \in Jobs : \E m : Sends(j, m)
         \/ \E j \in Jobs, r \in Requests : Begins(j, r)
         \/ Rests \/ Takes \/ \E f : Moves(f)
<1>0. TypeOK
  BY DEF Typed
<1>1. ASSUME NEW j \in Jobs, SendInit(j) \/ SendChunk(j) \/ SendComplete(j)
      PROVE  \E m : Sends(j, m)
  BY <1>1, JobSends
<1>2. ASSUME NEW j \in Jobs, GiveUp(j) PROVE Rests
  BY <1>2 DEF GiveUp, Rests, Line
<1>3. ASSUME NEW j \in Jobs, NEW r \in Requests, Begin(j, r) PROVE Begins(j, r)
  BY <1>3 DEF Begin, Begins, Line, Typed, Acknowledged
<1>4. ASSUME NEW r \in Requests, AckExpires(r) PROVE Rests
  BY <1>4 DEF AckExpires, Rests, Line
<1>5. ASSUME NEW i \in 1..Len(wire), Receive(i) PROVE \E f : Moves(f)
  <2>1. PICK f : Permutes(f) /\ (disturbed => disturbed')
    BY <1>0, <1>5, Permuted
  <2>2. Moves(f)
    BY <1>5, <2>1 DEF Receive, Moves
  <2>3. QED
    BY <2>2
<1>6. CASE Process
  BY <1>0, <1>6, Registered DEF Process, Takes
<1>7. CASE UNCHANGED vars
  BY <1>7 DEF vars, Rests, Line
<1>8. QED
  BY <1>1, <1>2, <1>3, <1>4, <1>5, <1>6, <1>7 DEF Next, Send

Sent == LineSent /\ HandledSent

LEMMA SentStep ==
  ASSUME Typed, Sent, [Next]_vars
  PROVE  Sent'
<1>0. TypeOK
  BY DEF Typed
<1>1. /\ Len(Line) \in Nat /\ \A i \in 1..Len(Line) : Line[i] \in MessageSet /\ SentOnce(Line[i])
      /\ \A r \in Requests : Len(Handled(r)) \in Nat /\ \A i \in 1..Len(Handled(r)) :
            LET c == Handled(r)[i] IN c \in ChunkSet /\ req[c.job] = r /\ c.seq < next[c.job]
  BY <1>0, LineTyped DEF Sent, LineSent, HandledSent
<1>2. /\ req \in [Jobs -> Requests \cup {NoRequest}] /\ next \in [Jobs -> Nat]
      /\ NoRequest \notin Requests
      /\ \A j \in Jobs : pc[j] = "idle" => req[j] = NoRequest /\ next[j] = 0
  BY TransferAssumption DEF Typed, TypeOK, Stages
<1>3. \A m \in MessageSet : m.job \in Jobs /\ m.request \in Requests /\ m.seq \in Nat
  BY DEF MessageSet
<1>4. \A c \in ChunkSet : c.job \in Jobs /\ c.seq \in Nat
  BY DEF ChunkSet
<1>5. ASSUME \A j \in Jobs : next'[j] \in Nat /\ next[j] <= next'[j] /\ (req[j] # NoRequest => req'[j] = req[j])
      PROVE  /\ \A m \in MessageSet : SentOnce(m) => SentOnce(m)'
             /\ \A r \in Requests, c \in ChunkSet :
                  req[c.job] = r /\ c.seq < next[c.job] => req'[c.job] = r /\ c.seq < next'[c.job]
  BY <1>2, <1>3, <1>4, <1>5 DEF SentOnce
<1>6. CASE \E j \in Jobs : \E m : Sends(j, m)
  <2>0. PICK j \in Jobs : \E m : Sends(j, m)
    BY <1>6
  <2>1. PICK m : Sends(j, m)
    BY <2>0
  <2>2. \A k \in Jobs : next'[k] \in Nat /\ next[k] <= next'[k] /\ (req[k] # NoRequest => req'[k] = req[k])
    BY <1>2, <2>1 DEF Sends
  <2>3. SentOnce(m)'
    BY <1>2, <2>1 DEF Sends, SentOnce, IsChunk
  <2>4. LineSent'
    BY <1>1, <1>5, <2>1, <2>2, <2>3 DEF Sends, LineSent
  <2>5. \A r \in Requests : Handled(r)' = Handled(r)
    BY <2>1 DEF Sends, Handled
  <2>6. HandledSent'
    BY <1>1, <1>5, <2>2, <2>5 DEF HandledSent
  <2>7. QED
    BY <2>4, <2>6 DEF Sent
<1>7. CASE Rests \/ \E j \in Jobs, r \in Requests : Begins(j, r)
  <2>1. \A k \in Jobs : next'[k] \in Nat /\ next[k] <= next'[k] /\ (req[k] # NoRequest => req'[k] = req[k])
    BY <1>2, <1>7 DEF Rests, Begins
  <2>2. Line' = Line /\ \A r \in Requests : Handled(r)' = Handled(r)
    BY <1>7 DEF Rests, Begins, Handled
  <2>3. QED
    BY <1>1, <1>5, <2>1, <2>2 DEF Sent, LineSent, HandledSent
<1>8. CASE \E f : Moves(f)
  <2>1. PICK f : Moves(f)
    BY <1>8
  <2>2. \A k \in Jobs : next'[k] \in Nat /\ next[k] <= next'[k] /\ (req[k] # NoRequest => req'[k] = req[k])
    BY <1>2, <2>1 DEF Moves
  <2>3. LineSent'
    BY <1>1, <1>5, <2>1, <2>2 DEF Moves, Permutes, LineSent
  <2>4. \A r \in Requests : Handled(r)' = Handled(r)
    BY <2>1 DEF Moves, Handled
  <2>5. HandledSent'
    BY <1>1, <1>5, <2>2, <2>4 DEF HandledSent
  <2>6. QED
    BY <2>3, <2>5 DEF Sent
<1>9. CASE Takes
  <2>1. \A k \in Jobs : next'[k] \in Nat /\ next[k] <= next'[k] /\ (req[k] # NoRequest => req'[k] = req[k])
    BY <1>2, <1>9 DEF Takes
  <2>2. LineSent'
    BY <1>1, <1>5, <1>9, <2>1 DEF Takes, LineSent
  <2>3. ASSUME NEW q \in Requests, NEW i \in 1..Len(Handled(q)')
        PROVE  LET c == Handled(q)'[i] IN req'[c.job] = q /\ c.seq < next'[c.job]
    <3>1. PICK h : Kept(q, h)
      BY <1>9 DEF Takes
    <3>2. /\ h \in Seq(ChunkSet) /\ Len(h) \in Nat /\ Len(h) <= Len(Handled(q))
          /\ \A k \in 1..Len(h) : h[k] = Handled(q)[k]
      BY <3>1 DEF Kept
    <3>3. \A k \in 1..Len(h) : req[h[k].job] = q /\ h[k].seq < next[h[k].job]
      BY <1>1, <3>2
    <3>4. req' = req /\ next' = next
      BY <1>9 DEF Takes
    <3>5. CASE Handled(q)' = h
      BY <3>3, <3>4, <3>5
    <3>6. CASE Handled(q)' # h
      <4> DEFINE m == Line[1]
                 c == ChunkOf(m)
      <4>1. m \in MessageSet /\ SentOnce(m) /\ IsChunk(m) /\ m.request = q
        BY <1>1, <1>9, <3>1, <3>6 DEF Kept, Takes
      <4>2. c \in ChunkSet /\ c.job = m.job /\ c.seq = m.seq
        BY <4>1, ChunksPositive DEF MessageSet, ChunkOf, ChunkSet, IsChunk
      <4>3. Handled(q)' = Append(h, c)
        BY <3>1, <3>6 DEF Kept
      <4>4. req[c.job] = q /\ c.seq < next[c.job]
        BY <4>1, <4>2 DEF SentOnce
      <4> HIDE DEF m, c
      <4>5. /\ Len(Handled(q)') = Len(h) + 1 /\ Handled(q)'[Len(h) + 1] = c
            /\ \A k \in 1..Len(h) : Handled(q)'[k] = h[k]
        BY <3>2, <4>2, <4>3, AppendProperties
      <4>6. CASE i = Len(h) + 1
        BY <3>4, <4>4, <4>5, <4>6
      <4>7. CASE i \in 1..Len(h)
        BY <3>3, <3>4, <4>5, <4>7
      <4>8. QED
        BY <3>2, <4>5, <4>6, <4>7
    <3>7. QED
      BY <3>5, <3>6
  <2>4. HandledSent'
    BY <2>3 DEF HandledSent
  <2>5. QED
    BY <2>2, <2>4 DEF Sent
<1>10. QED
  BY <1>6, <1>7, <1>8, <1>9, Steps

LEMMA SentInit == Init => Sent
<1> SUFFICES ASSUME Init PROVE Sent
  OBVIOUS
<1>1. Len(Line) = 0
  BY DEF Init, Line
<1>2. \A r \in Requests : Len(Handled(r)) = 0
  BY DEF Init, Handled, Collected
<1>3. QED
  BY <1>1, <1>2 DEF Sent, LineSent, HandledSent

-----------------------------------------------------------------------------
\* What is held back

LEMMA HeldStep == Typed /\ Sent /\ OneChunkHeldBack /\ [Next]_vars => OneChunkHeldBack'
<1> SUFFICES ASSUME Typed, Sent, OneChunkHeldBack, [Next]_vars PROVE OneChunkHeldBack'
  OBVIOUS
<1>0. TypeOK
  BY DEF Typed
<1>1. ASSUME pending' = pending PROVE OneChunkHeldBack'
  BY <1>1 DEF OneChunkHeldBack
<1>2. CASE Process
  <2> DEFINE m == Head(received)
             r == m.request
  <2>1. PICK gone \in SUBSET DOMAIN pending :
          \/ RegisterData(Expire(gone), m) \/ RegisterBare(Expire(gone), m)
          \/ RegisterComplete(Expire(gone), m)
    BY <1>2 DEF Process
  <2> DEFINE p == Expire(gone)
             chunks == Append(Collected(p, r), ChunkOf(m))
  <2>2. /\ Transfers(p) /\ \A q \in DOMAIN p : q \in DOMAIN pending /\ p[q] = pending[q]
    BY <1>0 DEF Expire, TypeOK, Transfers
  <2>3. \A q \in DOMAIN p : Len(p[q]) <= 1
    BY <2>2 DEF OneChunkHeldBack
  <2>4. m \in MessageSet /\ m = Line[1] /\ Len(Line) > 0
    <3>1. received \in Seq(MessageSet) /\ wire \in Seq(MessageSet) /\ received # << >>
      BY <1>0, <1>2 DEF TypeOK, Process
    <3>2. m \in MessageSet /\ m = received[1] /\ Len(received) \in Nat \ {0} /\ Len(wire) \in Nat
      BY <3>1, HeadTailProperties
    <3>3. QED
      BY <3>1, <3>2, MessagesJoin DEF Line
  <2>5. m.kind = "data" => m.seq = Chunks(m.job)
    BY <2>4 DEF Sent, LineSent, SentOnce
  <2>6. ASSUME NEW s, Collect(p, r, s), Len(s) <= 1 PROVE OneChunkHeldBack'
    BY <2>3, <2>6 DEF Collect, With, OneChunkHeldBack
  <2>7. ASSUME NEW s, Finalize(p, r, s) PROVE OneChunkHeldBack'
    BY <2>3, <2>7 DEF Finalize, Without, OneChunkHeldBack
  <2>9. CASE RegisterData(p, m)
    <3>1. Finalize(p, r, chunks)
      BY <2>5, <2>9 DEF RegisterData
    <3>2. QED
      BY <2>7, <3>1
  <2>10. CASE RegisterBare(p, m)
    <3>1. chunks \in Seq(ChunkSet)
      <4>1. ChunkOf(m) \in ChunkSet
        BY <2>4, <2>10, ChunksPositive DEF RegisterBare, MessageSet, ChunkOf, ChunkSet
      <4>2. Collected(p, r) \in Seq(ChunkSet)
        BY <2>2, CollectedTyped
      <4>3. QED
        BY <4>1, <4>2, AppendProperties
    <3>2. \/ Finalize(p, r, chunks)
          \/ Collect(p, r, chunks) /\ ~(Len(chunks) > 1)
      BY <2>10 DEF RegisterBare
    <3>3. Len(chunks) \in Nat
      BY <3>1
    <3> HIDE DEF chunks
    <3>4. QED
      BY <2>6, <2>7, <3>2, <3>3
  <2>11. CASE RegisterComplete(p, m)
    BY <2>3, <2>7, <2>11 DEF RegisterComplete, OneChunkHeldBack
  <2>12. QED
    BY <2>1, <2>9, <2>10, <2>11
<1>3. CASE ~Process
  <2>1. pending' = pending
    BY <1>3 DEF Next, Send, SendInit, SendChunk, SendComplete, GiveUp, Begin, AckExpires,
       Receive, vars
  <2>2. QED
    BY <1>1, <2>1
<1>4. QED
  BY <1>2, <1>3

\* However the transfers of a request are broken off, expire and begin again,
\* the aggregator holds at most one of its messages back.
THEOREM OneHeldBack == Spec => []OneChunkHeldBack
<1>1. Init => OneChunkHeldBack
  BY DEF Init, OneChunkHeldBack
<1>2. Typed /\ Sent /\ [Next]_vars => Sent'
  BY SentStep
<1>3. QED
  BY <1>1, <1>2, TypeInit, TypeStep, SentInit, HeldStep, PTL DEF Spec

-----------------------------------------------------------------------------
\* No chunk twice

LEMMA OnceInit == Init => ChunksOnce
<1> SUFFICES ASSUME Init PROVE ChunksOnce
  OBVIOUS
<1>1. Len(Line) = 0
  BY DEF Init, Line
<1>2. \A r \in Requests : Handled(r) = << >>
  BY DEF Init, Handled, Collected
<1>3. QED
  BY <1>1, <1>2 DEF ChunksOnce, On, IsInjective

LEMMA OnceStep == Typed /\ Sent /\ ChunksOnce /\ [Next]_vars => ChunksOnce'
<1> SUFFICES ASSUME Typed, Sent, ChunksOnce, [Next]_vars, NEW q \in Requests
             PROVE  /\ IsInjective(Handled(q)')
                    /\ \A i \in On(q)' :
                         /\ \A k \in 1..Len(Handled(q)') : Handled(q)'[k] # ChunkOf(Line'[i])
                         /\ \A k \in On(q)' : ChunkOf(Line'[k]) = ChunkOf(Line'[i]) => k = i
  BY DEF ChunksOnce
<1>0. TypeOK
  BY DEF Typed
<1> DEFINE H == Handled(q)
           n == Len(Line)
           Chunk(i) == i \in 1..n /\ IsChunk(Line[i]) /\ Line[i].request = q
           ChunkNext(i) == i \in 1..Len(Line') /\ IsChunk(Line'[i]) /\ Line'[i].request = q
<1>1. n \in Nat /\ H \in Seq(ChunkSet) /\ Len(H) \in Nat /\ DOMAIN H = 1..Len(H)
  BY <1>0, LineTyped
<1>2. /\ \A a, b \in 1..Len(H) : H[a] = H[b] => a = b
      /\ \A i : Chunk(i) =>
           /\ \A k \in 1..Len(H) : H[k] # ChunkOf(Line[i])
           /\ \A k : Chunk(k) /\ ChunkOf(Line[k]) = ChunkOf(Line[i]) => k = i
  BY <1>1 DEF ChunksOnce, On, IsInjective
<1>3. SUFFICES /\ \A a, b \in DOMAIN (Handled(q)') : Handled(q)'[a] = Handled(q)'[b] => a = b
               /\ \A i : ChunkNext(i) =>
                    /\ \A k \in 1..Len(Handled(q)') : Handled(q)'[k] # ChunkOf(Line'[i])
                    /\ \A k : ChunkNext(k) /\ ChunkOf(Line'[k]) = ChunkOf(Line'[i]) => k = i
  BY DEF On, IsInjective
<1> HIDE DEF n
<1>4. CASE \E j \in Jobs : \E m : Sends(j, m)
  <2>1. PICK j \in Jobs : \E m : Sends(j, m)
    BY <1>4
  <2>2. PICK m : Sends(j, m)
    BY <2>1
  <2>3. Handled(q)' = H
    BY <2>2 DEF Sends, Handled
  <2>4. CASE Line' = Line
    BY <1>1, <1>2, <2>3, <2>4 DEF n
  <2>5. CASE Line' # Line
    <3>1. /\ Len(Line') = n + 1 /\ Line'[n + 1] = m /\ \A i \in 1..n : Line'[i] = Line[i]
          /\ m.job = j /\ (IsChunk(m) => m.seq = next[j] /\ next[j] \in Nat)
      BY <2>2, <2>5 DEF Sends, n, IsChunk, Typed, TypeOK
    <3>2. \A i : Chunk(i) /\ Line[i].job = j => Line[i].seq < next[j]
      BY DEF n, Sent, LineSent, SentOnce
    <3>3. \A k \in 1..Len(H) : H[k].job = j => H[k].seq < next[j]
      BY DEF Sent, HandledSent
    <3>4. \A k \in 1..Len(H) : H[k] \in ChunkSet
      BY <1>1
    <3>5. IsChunk(m) =>
            /\ \A k \in 1..Len(H) : H[k] # ChunkOf(m)
            /\ \A k : Chunk(k) => ChunkOf(Line[k]) # ChunkOf(m)
      BY <3>1, <3>2, <3>3 DEF ChunkOf
    <3>6. \A i : ChunkNext(i) => \/ Chunk(i) /\ Line'[i] = Line[i]
                                 \/ i = n + 1 /\ Line'[i] = m /\ IsChunk(m)
      BY <1>1, <3>1
    <3> HIDE DEF Chunk, ChunkNext
    <3>7. QED
      BY <1>1, <1>2, <2>3, <3>5, <3>6
  <2>6. QED
    BY <2>4, <2>5
<1>5. CASE Rests \/ \E j \in Jobs, r \in Requests : Begins(j, r)
  <2>1. Line' = Line /\ Handled(q)' = H
    BY <1>5 DEF Rests, Begins, Handled
  <2>2. QED
    BY <1>1, <1>2, <2>1 DEF n
<1>6. CASE \E f : Moves(f)
  <2>1. PICK f : Moves(f)
    BY <1>6
  <2>2. Handled(q)' = H
    BY <2>1 DEF Moves, Handled
  <2>3. \A i : ChunkNext(i) => Chunk(f[i]) /\ Line'[i] = Line[f[i]]
    BY <2>1 DEF Moves, Permutes, n
  <2>4. \A i, k : ChunkNext(i) /\ ChunkNext(k) /\ f[i] = f[k] => i = k
    BY <2>1 DEF Moves, Permutes, n
  <2> HIDE DEF Chunk, ChunkNext
  <2>5. QED
    BY <1>1, <1>2, <2>2, <2>3, <2>4
<1>7. CASE Takes
  <2>1. PICK h : Kept(q, h)
    BY <1>7 DEF Takes
  <2>2. /\ h \in Seq(ChunkSet) /\ Len(h) \in Nat /\ Len(h) <= Len(H) /\ DOMAIN h = 1..Len(h)
        /\ \A k \in 1..Len(h) : h[k] = H[k]
    BY <2>1 DEF Kept
  <2>3. /\ Len(Line') = n - 1 /\ n > 0 /\ \A i \in 1..n - 1 : Line'[i] = Line[i + 1]
        /\ Line[1] \in MessageSet
    BY <1>7 DEF Takes, n
  <2>4. \A i : ChunkNext(i) => Chunk(i + 1) /\ Line'[i] = Line[i + 1] /\ i \in Nat /\ i + 1 # 1
    BY <1>1, <2>3
  <2>5. /\ \A a, b \in 1..Len(h) : h[a] = h[b] => a = b
        /\ \A i : ChunkNext(i) =>
             /\ \A k \in 1..Len(h) : h[k] # ChunkOf(Line'[i])
             /\ \A k : ChunkNext(k) /\ ChunkOf(Line'[k]) = ChunkOf(Line'[i]) => k = i
    <3> HIDE DEF Chunk, ChunkNext
    <3>1. \A k \in 1..Len(h) : k \in 1..Len(H)
      BY <1>1, <2>2
    <3>2. \A a, b \in 1..Len(h) : h[a] = h[b] => a = b
      BY <1>2, <2>2, <3>1
    <3>3. ASSUME NEW i, ChunkNext(i), NEW k \in 1..Len(h) PROVE h[k] # ChunkOf(Line'[i])
      BY <1>2, <2>2, <2>4, <3>1, <3>3
    <3>4. ASSUME NEW i, ChunkNext(i), NEW k, ChunkNext(k), ChunkOf(Line'[k]) = ChunkOf(Line'[i])
          PROVE  k = i
      <4>1. k + 1 = i + 1 /\ k \in Nat /\ i \in Nat
        BY <1>2, <2>4, <3>4
      <4>2. QED
        BY <4>1
    <3>5. QED
      BY <3>2, <3>3, <3>4
  <2>6. CASE Handled(q)' = h
    BY <2>2, <2>5, <2>6
  <2>7. CASE Handled(q)' # h
    <3> DEFINE c == ChunkOf(Line[1])
    <3>1. Handled(q)' = Append(h, c) /\ IsChunk(Line[1]) /\ Line[1].request = q
      BY <2>1, <2>7 DEF Kept
    <3>2. Chunk(1)
      BY <1>1, <2>3, <3>1
    <3>3. c \in ChunkSet
      BY <2>3, <3>1, ChunksPositive DEF MessageSet, ChunkOf, ChunkSet, IsChunk
    <3> HIDE DEF Chunk, ChunkNext
    <3>4. \A k \in 1..Len(h) : h[k] # c
      BY <1>1, <1>2, <2>2, <3>2
    <3>5. \A i : ChunkNext(i) => ChunkOf(Line'[i]) # c
      BY <1>2, <2>4, <3>2
    <3> HIDE DEF c
    <3>6. /\ DOMAIN (Handled(q)') = 1..Len(h) + 1 /\ Len(Handled(q)') = Len(h) + 1
          /\ Handled(q)'[Len(h) + 1] = c /\ \A k \in 1..Len(h) : Handled(q)'[k] = h[k]
      BY <2>2, <3>1, <3>3, AppendProperties
    <3>7. \A k \in 1..Len(h) + 1 : k \in 1..Len(h) \/ k = Len(h) + 1
      BY <2>2
    <3>8. QED
      BY <2>5, <3>4, <3>5, <3>6, <3>7
  <2>8. QED
    BY <2>6, <2>7
<1>8. QED
  BY <1>4, <1>5, <1>6, <1>7, Steps

\* However the bus loses, delays and reorders messages, and whichever transfers
\* share a request, no chunk is routed twice, or routed and still collected.
THEOREM ChunksRoutedOnce == Spec => []ChunksOnce
<1>1. Typed /\ Sent /\ [Next]_vars => Sent'
  BY SentStep
<1>2. QED
  BY <1>1, TypeInit, TypeStep, SentInit, OnceInit, OnceStep, PTL DEF Spec

-----------------------------------------------------------------------------
\* Nothing lost

\* A place of a chunk of r on its way.
Chunk(r, i) == i \in 1..Len(Line) /\ IsChunk(Line[i]) /\ Line[i].request = r

\* What the aggregator has seen of j are its first chunks, and the others are on
\* their way in order.
InOrder(j) ==
  LET seen == Handled(req[j]) IN
  /\ Len(seen) <= next[j]
  /\ \A i \in 1..Len(seen) : seen[i] = [job |-> j, seq |-> i - 1]
  /\ \A i : Chunk(req[j], i) => Line[i].job = j /\ Line[i].seq \in Len(seen) .. next[j] - 1
  /\ \A s \in Len(seen) .. next[j] - 1 : \E i : Chunk(req[j], i) /\ Line[i].seq = s
  /\ \A i, k : Chunk(req[j], i) /\ Chunk(req[j], k) /\ i < k => Line[i].seq < Line[k].seq

Lossless == \A j \in Jobs : Undisturbed(j) => InOrder(j)

LEMMA LosslessMeans == Lossless => NothingLost
<1> SUFFICES ASSUME Lossless, NEW j \in Jobs, Undisturbed(j), NEW r, r = req[j]
             PROVE  LET seen == Handled(r) IN
                    /\ Len(seen) <= next[j]
                    /\ \A i \in 1..Len(seen) : seen[i] = [job |-> j, seq |-> i - 1]
                    /\ \A i \in On(r) : Line[i].job = j /\ Line[i].seq \in Len(seen) .. next[j] - 1
                    /\ \A s \in Len(seen) .. next[j] - 1 : \E i \in On(r) : Line[i].seq = s
                    /\ \A i, k \in On(r) : i < k => Line[i].seq < Line[k].seq
  BY DEF NothingLost
<1>1. InOrder(j)
  BY DEF Lossless
<1>2. \A i : i \in On(r) <=> Chunk(r, i)
  BY DEF On, Chunk
<1>3. QED
  BY <1>1, <1>2 DEF InOrder

LEMMA LosslessInit == Init => Lossless
  BY DEF Init, Lossless, Undisturbed

\* A job sends.
LEMMA LosslessSend ==
  ASSUME Typed, Lossless, NEW j \in Jobs, Undisturbed(j)', NEW k \in Jobs, NEW m, Sends(k, m)
  PROVE  InOrder(j)'
<1> DEFINE r == req[j]
           H == Handled(r)
           n == Len(Line)
<1>0. TypeOK
  BY DEF Typed
<1>1. /\ req' = req /\ Handled(r)' = H /\ Undisturbed(j)
      /\ Len(Line') = n + 1 /\ Line'[n + 1] = m /\ \A i \in 1..n : Line'[i] = Line[i]
  BY DEF Sends, Undisturbed, Handled
<1>2. /\ n \in Nat /\ r \in Requests /\ Len(H) \in Nat /\ next[j] \in Nat
      /\ \A l \in Jobs : l # j => req[l] # r
  BY <1>0, <1>1, LineTyped DEF TypeOK, Undisturbed
<1>3. InOrder(j)
  BY <1>1 DEF Lossless
<1>4. m.job = k /\ m.request = req[k]
  BY DEF Sends
<1>5. \A i : Chunk(r, i)' <=> Chunk(r, i) \/ (i = n + 1 /\ k = j /\ IsChunk(m))
  <2>1. \A i : i \in 1..n + 1 <=> i \in 1..n \/ i = n + 1
    BY <1>2
  <2>2. ~ (n + 1 \in 1..n)
    BY <1>2
  <2>3. m.request = r <=> k = j
    BY <1>2, <1>4
  <2>4. QED
    BY <1>1, <2>1, <2>2, <2>3 DEF Chunk
<1>6. SUFFICES /\ Len(H) <= next'[j]
               /\ \A i : Chunk(r, i)' => Line'[i].job = j /\ Line'[i].seq \in Len(H) .. next'[j] - 1
               /\ \A s \in Len(H) .. next'[j] - 1 : \E i : Chunk(r, i)' /\ Line'[i].seq = s
               /\ \A i, l : Chunk(r, i)' /\ Chunk(r, l)' /\ i < l => Line'[i].seq < Line'[l].seq
  BY <1>1, <1>3 DEF InOrder
<1>7. /\ Len(H) <= next[j]
      /\ \A i : Chunk(r, i) => /\ i \in 1..n /\ Line'[i] = Line[i]
                               /\ Line[i].job = j /\ Line[i].seq \in Len(H) .. next[j] - 1
      /\ \A s \in Len(H) .. next[j] - 1 : \E i : Chunk(r, i) /\ Line[i].seq = s
      /\ \A i, l : Chunk(r, i) /\ Chunk(r, l) /\ i < l => Line[i].seq < Line[l].seq
  BY <1>1, <1>3 DEF InOrder, Chunk
<1> HIDE DEF H, n, r
<1>8. \A i \in 1..n + 1 : i \in 1..n \/ i = n + 1
  BY <1>2
<1>9. CASE k = j /\ IsChunk(m)
  <2>1. m.seq = next[j] /\ next'[j] = next[j] + 1
    BY <1>0, <1>9 DEF Sends, TypeOK
  <2>2. \A i : Chunk(r, i)' <=> Chunk(r, i) \/ i = n + 1
    BY <1>5, <1>9
  <2>3. ASSUME NEW i, Chunk(r, i)' PROVE Line'[i].job = j /\ Line'[i].seq \in Len(H) .. next[j]
    <3>1. CASE i = n + 1
      BY <1>1, <1>2, <1>4, <1>7, <1>9, <2>1, <3>1 DEF n
    <3>2. CASE Chunk(r, i)
      BY <1>2, <1>7, <3>2
    <3>3. QED
      BY <2>2, <2>3, <3>1, <3>2
  <2>4. ASSUME NEW s \in Len(H) .. next[j] PROVE \E i : Chunk(r, i)' /\ Line'[i].seq = s
    <3>1. CASE s = next[j]
      BY <1>1, <2>1, <2>2, <3>1 DEF n
    <3>2. CASE s # next[j]
      <4>1. s \in Len(H) .. next[j] - 1
        BY <1>2, <3>2
      <4>2. QED
        BY <1>7, <2>2, <4>1
    <3>3. QED
      BY <3>1, <3>2
  <2>5. ASSUME NEW i, NEW l, Chunk(r, i)', Chunk(r, l)', i < l PROVE Line'[i].seq < Line'[l].seq
    <3>1. Chunk(r, i)
      BY <1>2, <1>7, <2>2, <2>5
    <3>2. CASE Chunk(r, l)
      BY <1>7, <2>5, <3>1, <3>2
    <3>3. CASE l = n + 1
      BY <1>1, <1>2, <1>7, <2>1, <3>1, <3>3 DEF n
    <3>4. QED
      BY <2>2, <2>5, <3>2, <3>3
  <2>6. QED
    BY <1>2, <1>7, <2>1, <2>3, <2>4, <2>5
<1>10. CASE ~(k = j /\ IsChunk(m))
  <2>1. next'[j] = next[j]
    BY <1>0, <1>10 DEF Sends, TypeOK
  <2>2. \A i : Chunk(r, i)' <=> Chunk(r, i)
    BY <1>5, <1>10
  <2>3. QED
    BY <1>7, <2>1, <2>2
<1>11. QED
  BY <1>9, <1>10

\* A job begins, another or j itself, of whose request nothing was seen before.
LEMMA LosslessBegin ==
  ASSUME Typed, Sent, Lossless, NEW j \in Jobs, Undisturbed(j)',
         NEW k \in Jobs, NEW q \in Requests, Begins(k, q)
  PROVE  InOrder(j)'
<1>0. TypeOK /\ pc[k] = "idle" /\ req[k] = NoRequest /\ next[k] = 0
  BY DEF Typed, Stages, Begins
<1>1. /\ Line' = Line /\ \A r \in Requests : Handled(r)' = Handled(r)
      /\ \A r, i : Chunk(r, i) => i \in 1..Len(Line) /\ Line[i].request = r
      /\ ~disturbed
  BY DEF Begins, Handled, Chunk, Undisturbed
<1>2. /\ req \in [Jobs -> Requests \cup {NoRequest}] /\ req' = [req EXCEPT ![k] = q]
      /\ NoRequest \notin Requests
      /\ req'[j] \in Requests /\ \A l \in Jobs : l # j => req'[l] # req'[j]
  BY <1>0, TransferAssumption DEF TypeOK, Undisturbed, Begins
<1>3. /\ Len(Line) \in Nat
      /\ \A i \in 1..Len(Line) : Line[i].job \in Jobs /\ Line[i].request \in Requests
                                /\ req[Line[i].job] = Line[i].request
  BY <1>0, LineTyped DEF Sent, LineSent, SentOnce, MessageSet
<1>4. CASE k # j
  <2>1. Undisturbed(j) /\ req'[j] = req[j]
    BY <1>0, <1>1, <1>2, <1>4 DEF Undisturbed
  <2>2. InOrder(j)
    BY <2>1 DEF Lossless
  <2>3. Handled(req[j])' = Handled(req[j])
    BY <2>1 DEF Begins, Handled
  <2>4. \A i : Chunk(req[j], i)' <=> Chunk(req[j], i)
    BY <1>1, <2>1 DEF Chunk
  <2>5. next'[j] = next[j]
    BY <1>0, <1>4 DEF Begins, TypeOK
  <2>6. QED
    BY <1>1, <2>1, <2>2, <2>3, <2>4, <2>5 DEF InOrder
<1>5. CASE k = j
  <2>1. req'[j] = q
    BY <1>2, <1>5
  <2>2. \A l \in Jobs : req[l] # q
    BY <1>0, <1>2, <1>5, <2>1
  <2>3. Len(Handled(q)) = 0
    <3>1. /\ Len(Handled(q)) \in Nat
          /\ \A i \in 1..Len(Handled(q)) : Handled(q)[i].job \in Jobs /\ req[Handled(q)[i].job] = q
      BY <1>0, LineTyped DEF Sent, HandledSent, ChunkSet
    <3>2. ~ (1 \in 1..Len(Handled(q)))
      BY <2>2, <3>1
    <3>3. QED
      BY <3>1, <3>2
  <2>4. \A i : ~Chunk(q, i)
    BY <1>1, <1>3, <2>2
  <2>5. Handled(req[j])' = Handled(q)
    BY <2>1 DEF Begins, Handled
  <2>6. \A i : ~Chunk(req[j], i)'
    BY <1>1, <2>1, <2>4 DEF Chunk
  <2>7. next'[j] = 0
    BY <1>0, <1>5, <2>2 DEF Begins
  <2>8. QED
    BY <1>1, <2>3, <2>5, <2>6, <2>7 DEF InOrder
<1>6. QED
  BY <1>4, <1>5

\* A thread has read its message, no earlier one of the same job being left.
LEMMA LosslessMove ==
  ASSUME Typed, Lossless, NEW j \in Jobs, Undisturbed(j)', NEW f, Moves(f)
  PROVE  InOrder(j)'
<1> DEFINE r == req[j]
           H == Handled(r)
           n == Len(Line)
<1>0. TypeOK
  BY DEF Typed
<1>1. /\ req' = req /\ next' = next /\ Handled(r)' = H /\ Undisturbed(j) /\ ~disturbed'
  BY DEF Moves, Undisturbed, Handled
<1>2. InOrder(j) /\ n \in Nat
  BY <1>0, <1>1, LineTyped DEF Lossless
<1>3. /\ f \in [1..n -> 1..n] /\ Len(Line') = n
      /\ \A i \in 1..n : Line'[i] = Line[f[i]]
      /\ \A i \in 1..n : \E l \in 1..n : f[l] = i
      /\ \A i, l \in 1..n : i < l /\ Line'[i].job = Line'[l].job => f[i] < f[l]
  BY <1>1 DEF Moves, Permutes
<1>4. \A i : Chunk(r, i)' <=> i \in 1..n /\ Chunk(r, f[i])
  BY <1>1, <1>3 DEF Chunk
<1>5. \A i : Chunk(r, i) => i \in 1..n /\ IsChunk(Line[i])
  BY DEF Chunk
<1>6. /\ Len(H) <= next[j]
      /\ \A i \in 1..Len(H) : H[i] = [job |-> j, seq |-> i - 1]
      /\ \A i : Chunk(r, i) => Line[i].job = j /\ Line[i].seq \in Len(H) .. next[j] - 1
      /\ \A s \in Len(H) .. next[j] - 1 : \E i : Chunk(r, i) /\ Line[i].seq = s
      /\ \A i, l : Chunk(r, i) /\ Chunk(r, l) /\ i < l => Line[i].seq < Line[l].seq
  BY <1>2 DEF InOrder
<1>7. SUFFICES /\ \A i : Chunk(r, i)' => Line'[i].job = j /\ Line'[i].seq \in Len(H) .. next[j] - 1
               /\ \A s \in Len(H) .. next[j] - 1 : \E i : Chunk(r, i)' /\ Line'[i].seq = s
               /\ \A i, l : Chunk(r, i)' /\ Chunk(r, l)' /\ i < l => Line'[i].seq < Line'[l].seq
  BY <1>1, <1>3, <1>6 DEF InOrder
<1> HIDE DEF H, n, r
<1>8. ASSUME NEW i, Chunk(r, i)'
      PROVE  /\ i \in 1..n /\ f[i] \in 1..n /\ Line'[i] = Line[f[i]] /\ Chunk(r, f[i])
             /\ Line'[i].job = j /\ Line'[i].seq \in Len(H) .. next[j] - 1
  <2>1. i \in 1..n /\ Chunk(r, f[i])
    BY <1>4, <1>8
  <2>2. f[i] \in 1..n /\ Line'[i] = Line[f[i]]
    BY <1>3, <2>1
  <2>3. Line[f[i]].job = j /\ Line[f[i]].seq \in Len(H) .. next[j] - 1
    BY <1>6, <2>1
  <2>4. QED
    BY <2>1, <2>2, <2>3
<1>9. ASSUME NEW s \in Len(H) .. next[j] - 1 PROVE \E i : Chunk(r, i)' /\ Line'[i].seq = s
  <2>1. PICK i : Chunk(r, i) /\ Line[i].seq = s
    BY <1>6
  <2>2. PICK l \in 1..n : f[l] = i
    BY <1>3, <1>5, <2>1
  <2>3. QED
    BY <1>3, <1>4, <2>1, <2>2
<1>10. ASSUME NEW i, NEW l, Chunk(r, i)', Chunk(r, l)', i < l PROVE Line'[i].seq < Line'[l].seq
  <2>1. /\ i \in 1..n /\ l \in 1..n /\ Line'[i].job = Line'[l].job
        /\ Chunk(r, f[i]) /\ Chunk(r, f[l]) /\ Line'[i] = Line[f[i]] /\ Line'[l] = Line[f[l]]
    BY <1>8, <1>10
  <2>2. f[i] < f[l]
    BY <1>3, <1>10, <2>1
  <2>3. Line[f[i]].seq < Line[f[l]].seq
    BY <1>6, <2>1, <2>2
  <2>4. QED
    BY <2>1, <2>3
<1>11. QED
  BY <1>8, <1>9, <1>10

\* The aggregator takes the first message.
LEMMA LosslessTake ==
  ASSUME Typed, Lossless, NEW j \in Jobs, Undisturbed(j)', Takes
  PROVE  InOrder(j)'
<1> DEFINE r == req[j]
           H == Handled(r)
           n == Len(Line)
           m == Line[1]
<1>0. TypeOK
  BY DEF Typed
<1>1. req' = req /\ next' = next /\ Undisturbed(j) /\ ~disturbed'
  BY DEF Takes, Undisturbed
<1>2. /\ InOrder(j) /\ n \in Nat /\ r \in Requests /\ Len(H) \in Nat /\ H \in Seq(ChunkSet)
      /\ next[j] \in Nat
  BY <1>0, <1>1, LineTyped DEF Lossless, Undisturbed, TypeOK
<1>3. /\ n > 0 /\ Len(Line') = n - 1 /\ \A i \in 1..n - 1 : Line'[i] = Line[i + 1]
      /\ m \in MessageSet /\ m.job \in Jobs
  BY DEF Takes, MessageSet
<1>4. PICK h : Kept(r, h)
  BY <1>2 DEF Takes
<1>5. \A i : Chunk(r, i)' <=> i \in 1..n - 1 /\ Chunk(r, i + 1)
  <2>1. \A i \in 1..n - 1 : i + 1 \in 1..n
    BY <1>2
  <2>2. QED
    BY <1>1, <1>3, <2>1 DEF Chunk
<1>6. \A i : Chunk(r, i) => /\ i \in 1..n /\ IsChunk(Line[i])
                            /\ i = 1 \/ (i - 1 \in 1..n - 1 /\ (i - 1) + 1 = i /\ Chunk(r, i - 1)')
  <2>1. ASSUME NEW i, Chunk(r, i), i # 1
        PROVE  i - 1 \in 1..n - 1 /\ (i - 1) + 1 = i /\ Chunk(r, i - 1)'
    <3>1. i \in 1..n
      BY <2>1 DEF Chunk
    <3>2. i - 1 \in 1..n - 1 /\ (i - 1) + 1 = i
      BY <1>2, <2>1, <3>1
    <3>3. QED
      BY <1>5, <2>1, <3>2
  <2>2. QED
    BY <2>1 DEF Chunk
<1>7. /\ Len(H) <= next[j]
      /\ \A i \in 1..Len(H) : H[i] = [job |-> j, seq |-> i - 1]
      /\ \A i : Chunk(r, i) => Line[i].job = j /\ Line[i].seq \in Len(H) .. next[j] - 1
      /\ \A s \in Len(H) .. next[j] - 1 : \E i : Chunk(r, i) /\ Line[i].seq = s
      /\ \A i, l : Chunk(r, i) /\ Chunk(r, l) /\ i < l => Line[i].seq < Line[l].seq
  BY <1>2 DEF InOrder
<1>8. /\ Len(h) = Len(H) /\ Len(h) \in Nat /\ h \in Seq(ChunkSet)
      /\ \A i \in 1..Len(H) : h[i] = [job |-> j, seq |-> i - 1]
      /\ Handled(r)' = IF IsChunk(m) /\ m.request = r THEN Append(h, ChunkOf(m)) ELSE h
  <2>1. /\ h \in Seq(ChunkSet) /\ h = H
        /\ Handled(r)' = IF IsChunk(m) /\ m.request = r THEN Append(h, ChunkOf(m)) ELSE h
    BY <1>1, <1>4 DEF Kept
  <2>2. QED
    BY <1>2, <1>7, <2>1
<1>9. SUFFICES /\ Len(Handled(r)') <= next[j]
               /\ \A i \in 1..Len(Handled(r)') : Handled(r)'[i] = [job |-> j, seq |-> i - 1]
               /\ \A i : Chunk(r, i)' => /\ Line'[i].job = j
                                        /\ Line'[i].seq \in Len(Handled(r)') .. next[j] - 1
               /\ \A s \in Len(Handled(r)') .. next[j] - 1 : \E i : Chunk(r, i)' /\ Line'[i].seq = s
               /\ \A i, l : Chunk(r, i)' /\ Chunk(r, l)' /\ i < l => Line'[i].seq < Line'[l].seq
  BY <1>1, <1>3 DEF InOrder
<1> HIDE DEF H, n, r
<1>10. ASSUME NEW i, Chunk(r, i)'
       PROVE  /\ i \in 1..n - 1 /\ i + 1 \in 1..n /\ i + 1 > 1
              /\ Chunk(r, i + 1) /\ Line'[i] = Line[i + 1] /\ Line'[i].job = j
  BY <1>2, <1>3, <1>5, <1>7, <1>10 DEF n
<1>11. ASSUME NEW i, NEW l, Chunk(r, i)', Chunk(r, l)', i < l PROVE Line'[i].seq < Line'[l].seq
  <2>1. i + 1 < l + 1
    BY <1>2, <1>10, <1>11
  <2>2. QED
    BY <1>7, <1>10, <1>11, <2>1
<1>12. CASE ~Chunk(r, 1)
  <2>1. Handled(r)' = h
    <3>1. 1 \in 1..n
      BY <1>2, <1>3 DEF n
    <3>2. QED
      BY <1>8, <1>12, <3>1 DEF Chunk, n
  <2>2. ASSUME NEW s \in Len(H) .. next[j] - 1 PROVE \E i : Chunk(r, i)' /\ Line'[i].seq = s
    <3>1. PICK i : Chunk(r, i) /\ Line[i].seq = s
      BY <1>7
    <3>2. i - 1 \in 1..n - 1 /\ (i - 1) + 1 = i /\ Chunk(r, i - 1)'
      BY <1>6, <1>12, <3>1
    <3>3. Line'[i - 1].seq = s
      BY <1>10, <3>1, <3>2
    <3>4. QED
      BY <3>2, <3>3
  <2>3. \A i : Chunk(r, i)' => Line'[i].seq \in Len(H) .. next[j] - 1
    BY <1>7, <1>10
  <2>4. QED
    BY <1>7, <1>8, <1>10, <1>11, <2>1, <2>2, <2>3
<1>13. CASE Chunk(r, 1)
  <2>1. IsChunk(m) /\ m.request = r /\ m.job = j /\ m.seq \in Len(H) .. next[j] - 1
    BY <1>7, <1>13 DEF Chunk
  <2>2. m.seq = Len(H)
    <3>1. PICK i : Chunk(r, i) /\ Line[i].seq = Len(H)
      <4>1. Len(H) \in Len(H) .. next[j] - 1
        BY <1>2, <2>1
      <4>2. QED
        BY <1>7, <4>1
    <3>2. CASE i = 1
      BY <3>1, <3>2
    <3>3. CASE i # 1
      <4>1. 1 < i
        BY <1>2, <1>6, <3>1, <3>3
      <4>2. m.seq < Len(H)
        BY <1>7, <1>13, <3>1, <4>1
      <4>3. QED
        BY <1>2, <2>1, <4>2
    <3>4. QED
      BY <3>2, <3>3
  <2> DEFINE c == [job |-> j, seq |-> Len(H)]
  <2>3. Handled(r)' = Append(h, c) /\ c \in ChunkSet
    <3>1. ChunkOf(m) = c
      BY <2>1, <2>2 DEF ChunkOf
    <3>2. ChunkOf(m) \in ChunkSet
      BY <1>3, <2>1, ChunksPositive DEF MessageSet, ChunkOf, ChunkSet, IsChunk
    <3>3. QED
      BY <1>8, <2>1, <3>1, <3>2
  <2> HIDE DEF m
  <2>4. /\ Len(Handled(r)') = Len(H) + 1
        /\ \A i \in 1..Len(H) : Handled(r)'[i] = [job |-> j, seq |-> i - 1]
        /\ Handled(r)'[Len(H) + 1] = [job |-> j, seq |-> Len(H)]
    <3> HIDE DEF c
    <3>1. /\ Len(Handled(r)') = Len(h) + 1 /\ \A i \in 1..Len(h) : Handled(r)'[i] = h[i]
          /\ Handled(r)'[Len(h) + 1] = c
      BY <1>8, <2>3, AppendProperties
    <3>2. QED
      BY <1>8, <3>1 DEF c
  <2>5. \A i \in 1..Len(H) + 1 : Handled(r)'[i] = [job |-> j, seq |-> i - 1]
    <3>1. \A i \in 1..Len(H) + 1 : i \in 1..Len(H) \/ (i = Len(H) + 1 /\ i - 1 = Len(H))
      BY <1>2
    <3>2. QED
      BY <2>4, <3>1
  <2>6. ASSUME NEW i, Chunk(r, i)' PROVE Line'[i].seq \in Len(H) + 1 .. next[j] - 1
    <3>1. m.seq < Line'[i].seq
      BY <1>7, <1>10, <1>13, <2>6 DEF m
    <3>2. Line'[i].seq \in Len(H) .. next[j] - 1
      BY <1>7, <1>10, <2>6
    <3>3. QED
      BY <1>2, <2>2, <3>1, <3>2
  <2>7. ASSUME NEW s \in Len(H) + 1 .. next[j] - 1 PROVE \E i : Chunk(r, i)' /\ Line'[i].seq = s
    <3>1. s \in Len(H) .. next[j] - 1 /\ s # Len(H)
      BY <1>2
    <3>2. PICK i : Chunk(r, i) /\ Line[i].seq = s
      BY <1>7, <3>1
    <3>3. i # 1
      BY <2>2, <3>1, <3>2 DEF m
    <3>4. i - 1 \in 1..n - 1 /\ (i - 1) + 1 = i /\ Chunk(r, i - 1)'
      BY <1>6, <3>2, <3>3
    <3>5. Line'[i - 1].seq = s
      BY <1>10, <3>2, <3>4
    <3>6. QED
      BY <3>4, <3>5
  <2>8. Len(H) + 1 <= next[j]
    BY <1>2, <2>1, <2>2
  <2>9. QED
    BY <1>10, <1>11, <1>13, <2>4, <2>5, <2>6, <2>7, <2>8
<1>14. QED
  BY <1>12, <1>13

LEMMA LosslessStep == Typed /\ Sent /\ Lossless /\ [Next]_vars => Lossless'
<1> SUFFICES ASSUME Typed, Sent, Lossless, [Next]_vars, NEW j \in Jobs, Undisturbed(j)'
             PROVE  InOrder(j)'
  BY DEF Lossless
<1>1. ASSUME Rests PROVE InOrder(j)'
  <2>1. Undisturbed(j) /\ req' = req
    BY <1>1 DEF Rests, Undisturbed
  <2>2. InOrder(j)
    BY <2>1 DEF Lossless
  <2>3. Handled(req[j])' = Handled(req[j]) /\ \A i : Chunk(req[j], i)' <=> Chunk(req[j], i)
    BY <1>1 DEF Rests, Handled, Chunk
  <2>4. QED
    BY <1>1, <2>2, <2>3 DEF Rests, InOrder
<1>2. QED
  BY <1>1, Steps, LosslessSend, LosslessBegin, LosslessMove, LosslessTake

\* On an undisturbed bus the aggregator neither loses nor reorders a chunk of a
\* transfer whose request nobody else uses, although it cuts the transfer into
\* several messages, the first of them with the init message as its first data.
THEOREM TransfersComplete == Spec => []NothingLost
<1>1. Typed /\ Sent /\ [Next]_vars => Sent'
  BY SentStep
<1>2. QED
  BY <1>1, TypeInit, TypeStep, SentInit, LosslessInit, LosslessStep, LosslessMeans,
     PTL DEF Spec

-----------------------------------------------------------------------------
\* The listener

\* A run of failures that was not given up is short of the limit.
ShortOfLimit == accepting \notin {"close", "dead"} => attempts < GiveUpAfter

\* The worker about to be started is known to the listener already.
InHand ==
    accepting = "start" => \E p \in Peers : taken = <<p>> /\ p \in handlers /\ conn[p] = "added"

\* The listener's thread does not exist before the controller started it.
Unborn ==
    /\ controller \in {"new", "start"} => accepting = "unborn"
    /\ ~listener => controller = "new"

ListenerShape == PlacesTyped /\ ShortOfLimit /\ InHand /\ Unborn

\* A connection that may receive has its worker in the set.
AliveKnown == \A p \in Peers : Alive(p) => p \in handlers

\* After the flag of a stop that met a running listener: the flag stays, and
\* who still receives is to be joined.
StopHolds ==
    reached =>
        /\ stop \notin {"no", "flag"} /\ ~running /\ accepting \notin {"unborn", "begin"}
        /\ stop = "join" => \A p \in Peers : conn[p] = "open" => p \in joining
        /\ stop = "returned" => \A p \in Peers : conn[p] # "open"

-----------------------------------------------------------------------------
\* Types

LEMMA ListenerShapeInit == ListenInit => ListenerShape
<1> SUFFICES ASSUME ListenInit PROVE ListenerShape
  OBVIOUS
<1> USE ListenerAssumption DEF ListenInit
<1>1. << >> \in Seq(Peers)
  BY EmptySeq
<1>2. PlacesTyped
  BY <1>1 DEF PlacesTyped
<1>3. QED
  BY <1>2 DEF ListenerShape, ShortOfLimit, InHand, Unborn

LEMMA ListenerShapeStep == ListenerShape /\ [ListenNext]_listenVars => ListenerShape'
<1> SUFFICES ASSUME ListenerShape, [ListenNext]_listenVars PROVE ListenerShape'
  OBVIOUS
<1> USE ListenerAssumption
    DEF ListenerShape, ShortOfLimit, InHand, Unborn, accept, served, control, stopper
<1>e. << >> \in Seq(Peers)
  BY EmptySeq
<1>1. ASSUME NEW f \in {"none", "bind", "accept"}, Turn(f) PROVE ListenerShape'
  BY <1>1 DEF Turn, PlacesTyped
<1>2. ASSUME NEW p \in Peers, NEW m \in {"whole", "silent"}, Connect(p, m) PROVE ListenerShape'
  <2>1. backlog' \in Seq(Peers)
    BY <1>2, AppendProperties DEF Connect, PlacesTyped
  <2>2. PlacesTyped'
    BY <1>2, <2>1 DEF Connect, PlacesTyped
  <2>3. InHand'
    BY <1>2 DEF Connect, PlacesTyped
  <2>4. QED
    BY <1>2, <2>2, <2>3 DEF Connect
<1>3. CASE BeginListening \/ Top \/ Bind
  BY <1>3 DEF BeginListening, Top, Bind, PlacesTyped
<1>4. CASE BindFails \/ AcceptFails
  <2>1. /\ Fail /\ conn' \in {conn, Lost(conn)} /\ UNCHANGED <<msg, handlers, dataReceived>>
        /\ accepting \in {"bind", "select"}
    BY <1>4 DEF BindFails, AcceptFails
  <2>2. PlacesTyped'
    BY <1>e, <2>1 DEF Fail, Lost, PlacesTyped
  <2>3. QED
    BY <2>1, <2>2 DEF Fail, PlacesTyped
<1>5. CASE Quiet \/ Close
  <2>1. PlacesTyped'
    <3>1. CASE Quiet
      BY <1>e, <3>1 DEF Quiet, PlacesTyped
    <3>2. CASE Close
      <4>1. conn' \in {conn, Lost(conn)}
        BY <3>2 DEF Close
      <4>2. conn' \in [Peers -> {"away", "waiting", "refused", "added", "failed", "ready",
                                 "open", "served"}]
        BY <4>1 DEF Lost, PlacesTyped
      <4>3. QED
        BY <1>e, <3>2, <4>2 DEF Close, PlacesTyped
    <3>3. QED
      BY <1>5, <3>1, <3>2
  <2>2. QED
    BY <1>5, <2>1 DEF Quiet, Close
<1>6. CASE Accept
  <2> DEFINE p == Head(backlog)
             live == {h \in handlers : Alive(h)}
  <2>1. p \in Peers /\ backlog' \in Seq(Peers)
    BY <1>6, HeadTailProperties DEF Accept, PlacesTyped
  <2>2. <<p>> \in Seq(Peers)
    BY <2>1
  <2>3. conn' = [conn EXCEPT ![p] = IF Full(live) THEN "refused" ELSE "added"]
    BY <1>6 DEF Accept
  <2>4. /\ handlers' = IF Full(live) THEN live ELSE live \cup {p}
        /\ taken' = IF Full(live) THEN << >> ELSE <<p>>
        /\ accepting' = IF Full(live) THEN "top" ELSE "start"
        /\ accepting = "select"
        /\ UNCHANGED <<running, exhausted, attempts, socket, msg, dataReceived, control,
                       stopper, fault, processed>>
    BY <1>6 DEF Accept
  <2>5. live \subseteq Peers
    BY DEF PlacesTyped
  <2> HIDE DEF p, live
  <2>6. PlacesTyped'
    BY <1>e, <2>1, <2>2, <2>3, <2>4, <2>5 DEF PlacesTyped
  <2>7. InHand'
    BY <2>1, <2>3, <2>4 DEF PlacesTyped
  <2>8. QED
    BY <2>4, <2>6, <2>7
<1>7. CASE StartWorker \/ StartWorkerFails
  <2>1. PICK p \in Peers : taken = <<p>>
    BY <1>7 DEF StartWorker, StartWorkerFails
  <2>2. taken[1] = p
    BY <2>1
  <2>3. /\ \E c \in {conn, Lost(conn)}, v \in {"ready", "failed"} : conn' = [c EXCEPT ![p] = v]
        /\ accepting = "start"
    BY <1>7, <2>2 DEF StartWorker, StartWorkerFails
  <2>4. conn' \in [Peers -> {"away", "waiting", "refused", "added", "failed", "ready",
                             "open", "served"}]
    BY <2>3 DEF Lost, PlacesTyped
  <2>5. attempts' \in 0 .. GiveUpAfter /\ (accepting' = "top" => attempts' < GiveUpAfter)
    BY <1>7, <2>3 DEF StartWorker, StartWorkerFails, PlacesTyped
  <2>6. CASE StartWorker
    BY <1>e, <2>4, <2>5, <2>6 DEF StartWorker, PlacesTyped
  <2>7. CASE StartWorkerFails
    BY <1>e, <2>4, <2>5, <2>7 DEF StartWorkerFails, PlacesTyped
  <2>8. QED
    BY <1>7, <2>6, <2>7
<1>8. ASSUME NEW p \in Peers, ReceiveMessage(p) PROVE ListenerShape'
  <2>1. dataReceived' \in Seq(Peers)
    BY <1>8, AppendProperties DEF ReceiveMessage, PlacesTyped
  <2>2. PlacesTyped'
    BY <1>8, <2>1 DEF ReceiveMessage, PlacesTyped
  <2>3. QED
    BY <1>8, <2>2 DEF ReceiveMessage, PlacesTyped
<1>9. ASSUME NEW p \in Peers, Look(p) \/ Hangup(p) \/ Tick(p) PROVE ListenerShape'
  <2>1. PlacesTyped'
    BY <1>9 DEF Look, Hangup, Tick, PlacesTyped
  <2>2. QED
    BY <1>9, <2>1 DEF Look, Hangup, Tick, PlacesTyped
<1>10. CASE ProcessReceived
  <2>1. Head(dataReceived) \in Peers /\ dataReceived' \in Seq(Peers)
    BY <1>10, HeadTailProperties DEF ProcessReceived, PlacesTyped
  <2>2. QED
    BY <1>10, <2>1 DEF ProcessReceived, PlacesTyped
<1>11. CASE Create \/ StartThread \/ Leave
  BY <1>11 DEF Create, StartThread, Leave, PlacesTyped
<1>12. CASE StopLoop \/ Stopping \/ JoinTimeout
  BY <1>12 DEF StopLoop, Stopping, StopFlag, Drain, Joined, Join, JoinTimeout, PlacesTyped
<1>13. CASE UNCHANGED listenVars
  BY <1>13 DEF listenVars, PlacesTyped
<1>14. QED
  BY <1>1, <1>2, <1>3, <1>4, <1>5, <1>6, <1>7, <1>8, <1>9, <1>10, <1>11, <1>12, <1>13
  DEF ListenNext, Environment, Accepting, Serving, Controlling

LEMMA ListenerFlagsStep == FlagsTyped /\ [ListenNext]_listenVars => FlagsTyped'
<1> SUFFICES ASSUME FlagsTyped, [ListenNext]_listenVars PROVE FlagsTyped'
  OBVIOUS
<1> USE DEF FlagsTyped, accept, served, control, stopper
<1>1. CASE Environment \/ UNCHANGED listenVars
  BY <1>1 DEF Environment, Turn, Connect, listenVars
<1>2. CASE BeginListening \/ Top \/ Bind \/ Quiet \/ Accept \/ StartWorker \/ Close
  BY <1>2 DEF BeginListening, Top, Bind, Quiet, Accept, StartWorker, Close
<1>3. CASE BindFails \/ AcceptFails \/ StartWorkerFails
  <2>1. exhausted' = (attempts' >= GiveUpAfter)
    BY <1>3 DEF BindFails, AcceptFails, StartWorkerFails, Fail
  <2>2. exhausted' \in BOOLEAN
    BY <2>1
  <2>3. QED
    BY <1>3, <2>2 DEF BindFails, AcceptFails, StartWorkerFails, Fail
<1>4. ASSUME NEW p \in Peers, Serving(p) \/ Tick(p) PROVE FlagsTyped'
  BY <1>4 DEF Serving, Look, ReceiveMessage, Hangup, Tick
<1>5. CASE Controlling
  BY <1>5 DEF Controlling, Create, StartThread, ProcessReceived, Leave
<1>6. CASE StopLoop \/ Drain \/ Joined \/ JoinTimeout
  BY <1>6 DEF StopLoop, Drain, Joined, JoinTimeout
<1>7. CASE StopFlag
  <2>1. reached' = (accepting \notin {"unborn", "begin"})
    BY <1>7 DEF StopFlag
  <2>2. reached' \in BOOLEAN
    BY <2>1
  <2>3. running' \in BOOLEAN
    BY <1>7 DEF StopFlag
  <2>4. QED
    BY <1>7, <2>2, <2>3 DEF StopFlag
<1>8. ASSUME NEW p \in Peers, Join(p) PROVE FlagsTyped'
  BY <1>8 DEF Join
<1>9. QED
  BY <1>1, <1>2, <1>3, <1>4, <1>5, <1>6, <1>7, <1>8 DEF ListenNext, Accepting, Stopping

\* The types of the listener, with its bounds on failures in a row.
THEOREM ListenerTypes == ListenSpec => []ListenTypeOK
<1>1. ListenInit => FlagsTyped
  BY DEF ListenInit, FlagsTyped
<1>2. ListenerShape /\ FlagsTyped => ListenTypeOK
  BY DEF ListenerShape, ListenTypeOK
<1>3. QED
  BY <1>1, <1>2, ListenerShapeInit, ListenerShapeStep, ListenerFlagsStep, PTL DEF ListenSpec

-----------------------------------------------------------------------------
\* A stop

LEMMA StopStep ==
  ListenerShape /\ AliveKnown /\ StopHolds /\ [ListenNext]_listenVars => AliveKnown' /\ StopHolds'
<1> SUFFICES ASSUME ListenerShape, AliveKnown, StopHolds, [ListenNext]_listenVars
             PROVE  AliveKnown' /\ StopHolds'
  OBVIOUS
<1> USE DEF ListenerShape, PlacesTyped, AliveKnown, StopHolds, Alive, accept, served, control,
            stopper
<1>1. CASE Environment
  BY <1>1 DEF Environment, Turn, Connect
<1>2. CASE BeginListening \/ Top \/ Bind \/ Quiet
  BY <1>2 DEF BeginListening, Top, Bind, Quiet
<1>3. CASE BindFails \/ AcceptFails \/ Close
  <2>1. \A p \in Peers : conn'[p] \in {conn[p], "refused"}
    BY <1>3 DEF BindFails, AcceptFails, Close, Lost
  <2>2. /\ accepting \in {"bind", "select", "close"} /\ accepting' \in {"top", "close", "dead"}
        /\ UNCHANGED <<running, handlers, stopper>>
    BY <1>3 DEF BindFails, AcceptFails, Close, Fail
  <2>3. QED
    BY <2>1, <2>2
<1>4. CASE Accept
  <2>1. \A p \in Peers : conn'[p] \in {conn[p], "refused", "added"}
    BY <1>4 DEF Accept
  <2>2. /\ \A p \in Peers : p \in handlers /\ Alive(p) => p \in handlers'
        /\ accepting = "select" /\ accepting' \in {"top", "start"}
        /\ UNCHANGED <<running, stopper>>
    BY <1>4 DEF Accept
  <2>3. QED
    BY <2>1, <2>2
<1>5. CASE StartWorker \/ StartWorkerFails
  <2>1. PICK p \in Peers : taken = <<p>> /\ p \in handlers
    BY <1>5 DEF StartWorker, StartWorkerFails, InHand
  <2>2. taken[1] = p
    BY <2>1
  <2>3. \A q \in Peers : conn'[q] \in {conn[q], "refused", "failed"}
                          \/ (q = p /\ conn'[q] = "ready")
    <3>1. CASE StartWorker
      <4>1. conn' = [conn EXCEPT ![p] = "ready"]
        BY <2>2, <3>1 DEF StartWorker
      <4>2. QED
        BY <4>1
    <3>2. CASE StartWorkerFails
      <4>1. conn' = [Lost(conn) EXCEPT ![p] = "failed"]
        BY <2>2, <3>2 DEF StartWorkerFails
      <4>2. QED
        BY <4>1 DEF Lost
    <3>3. QED
      BY <1>5, <3>1, <3>2
  <2>4. /\ accepting = "start" /\ accepting' \in {"top", "close"}
        /\ UNCHANGED <<running, handlers, stopper>>
    BY <1>5 DEF StartWorker, StartWorkerFails
  <2>5. QED
    BY <2>1, <2>3, <2>4
<1>6. ASSUME NEW p \in Peers, Serving(p) \/ Tick(p) PROVE AliveKnown' /\ StopHolds'
  BY <1>6 DEF Serving, Look, ReceiveMessage, Hangup, Tick
<1>7. CASE Create \/ StartThread \/ Leave
  BY <1>7 DEF Create, StartThread, Leave, Unborn
<1>8. CASE ProcessReceived
  BY <1>8 DEF ProcessReceived
<1>9. CASE StopLoop
  BY <1>9 DEF StopLoop
<1>10. CASE StopFlag
  <2>1. /\ stop' \in {"drain", "returned"}
        /\ stop' = "returned" => ~listener
        /\ listener => ~running'
        /\ reached' => accepting \notin {"unborn", "begin"}
        /\ UNCHANGED <<accept, served, control>>
    BY <1>10 DEF StopFlag
  <2>2. reached' => listener
    BY <2>1 DEF Unborn
  <2>3. QED
    BY <2>1, <2>2
<1>11. CASE Drain \/ Joined \/ JoinTimeout
  BY <1>11 DEF Drain, Joined, JoinTimeout
<1>12. ASSUME NEW p \in Peers, Join(p) PROVE AliveKnown' /\ StopHolds'
  BY <1>12 DEF Join
<1>13. CASE UNCHANGED listenVars
  BY <1>13 DEF listenVars
<1>14. QED
  BY <1>1, <1>2, <1>3, <1>4, <1>5, <1>6, <1>7, <1>8, <1>9, <1>10, <1>11, <1>12, <1>13
  DEF ListenNext, Accepting, Controlling, Stopping

\* When stop() met a running listener, and no join timed out or raised, no
\* connection is left that can receive when it returns, although the accept
\* loop may have created another worker after the drain listed them.
THEOREM StopQuiets == ListenSpec => []QuietAfterStop
<1>1. ListenInit => AliveKnown /\ StopHolds
  BY DEF ListenInit, AliveKnown, StopHolds, Alive
<1>2. StopHolds => QuietAfterStop
  BY DEF StopHolds, QuietAfterStop
<1>3. QED
  BY <1>1, <1>2, ListenerShapeInit, ListenerShapeStep, StopStep, PTL DEF ListenSpec
=============================================================================
