------------------------ MODULE LoopPrevention_proofs ------------------------
(***************************************************************************)
(* Loop prevention, for every number of deliveries and kinds of messages   *)
(* and every size of the registry.                                         *)
(*                                                                         *)
(* All three properties rest on what the two libraries remember: nothing   *)
(* is seen or registered without a delivery that did it (SeenHere,         *)
(* RegisteredHere), and what a delivery did is there until it is forgotten *)
(* (the invariants Recorded, Original and Lonely).                         *)
(***************************************************************************)
EXTENDS LoopPrevention, SequenceTheorems, TLAPS

\* The fingerprint g is in the registry.
Registered(g) == \E i \in 1 .. Len(registry) : registry[i] = g

\* A delivery of m was admitted.
Passed(m) == \E e \in Deliveries : carries[e] = m /\ passes[e] > 0

\* Where a call has its fingerprint.
Identified == {"look", "record", "find", "mark"}

\* A delivery that has not begun has done nothing, and one that has carries a
\* message; who shares metadata carries the message of the delivery the
\* metadata came with; a call works with what it computed of its message.
Settled ==
    \A d \in Deliveries :
        /\ at[d] = "idle" =>
              /\ carries[d] = NoMessage /\ meta[d] = d /\ tag[d] = NoTag
              /\ passes[d] = 0 /\ before[d] = {}
        /\ at[d] # "idle" => carries[d] \in Messages
        /\ at[d] \in {"tag", "admitted"} => passes[d] > 0
        /\ carries[meta[d]] = carries[d] /\ meta[meta[d]] = meta[d]
        /\ at[d] \in Identified => print[d] \in Fingerprints /\ print[d][1] = carries[d]
        /\ at[d] \in {"identify"} \cup Identified /\ carries[d] \notin Unrequested =>
              request[d] = NoTag

\* A tag is that of an admitted message, wherever it is used.
Tagged ==
    \A d \in Deliveries :
        /\ tag[meta[d]] # NoTag => Passed(carries[d])
        /\ at[d] \in Identified =>
              /\ print[d][2] \in Tags => Passed(carries[d])
              /\ carries[d] \notin Unstamped \cup Unrequested => print[d][2] # NoMatch

\* Who a combination was seen from has recorded it, and perhaps been admitted.
SeenHere ==
    \A c \in seen : \E e \in Deliveries :
        carries[e] = c[1] /\ (passes[e] > 0 \/ at[e] \in {"find", "mark"})

\* A fingerprint in the registry is that of a message that was admitted.
RegisteredHere == \A g : Registered(g) => Passed(g[1])

\* A tracked message that went past record_message() has been seen, and no
\* delivery of it that was admitted gets there again.
Recorded ==
    \A d \in Deliveries : Tracked(carries[d]) /\ carries[d] \notin forgotten =>
        /\ passes[d] > 0 \/ at[d] \in {"find", "mark"} => <<carries[d], NoTag>> \in seen
        /\ at[d] \in {"record", "find", "mark"} => passes[d] = 0
        /\ passes[d] <= 1

\* A message recognised by its fingerprint as long as it has no tag.
Printed(m) == m \notin Unstamped /\ m \notin Unrequested

\* If such a message was admitted, its untagged fingerprint is registered.
Original ==
    \A d \in Deliveries :
        Printed(carries[d]) /\ carries[d] \notin forgotten /\ passes[d] > 0
            => Registered(<<carries[d], NoTag>>)

\* A stamped dict with metadata of its own is tagged by its first admission
\* and registered with the tag by its second.
Lonely ==
    \A d \in Deliveries :
        carries[d] \notin Objects \cup Unstamped /\ carries[d] \notin forgotten /\ Alone(d) =>
            /\ passes[d] = 0 => tag[meta[d]] = NoTag
            /\ passes[d] > 0 => at[d] = "tag" \/ tag[meta[d]] # NoTag
            /\ at[d] = "tag" => passes[d] = 1
            /\ passes[d] > 1 => Registered(<<carries[d], tag[meta[d]]>>)
            /\ at[d] \in Identified => print[d] = PrintOf(carries[d], tag[meta[d]])
            /\ at[d] = "mark" => passes[d] <= 1
            /\ passes[d] <= 2

\* A delivery that began when another of its message had been admitted does not
\* get past the lookup if the message is tracked.
AfterTracked ==
    \A d \in Deliveries : \A e \in before[d] :
        /\ passes[e] > 0
        /\ carries[d] = carries[e] /\ Tracked(carries[d]) /\ carries[d] \notin forgotten =>
              passes[d] = 0 /\ at[d] \notin {"record", "find", "mark"}

\* If the object it carries came after that, it is never tagged, and found in
\* the registry whoever carries it.
AfterPrinted ==
    \A d \in Deliveries : \A e \in before[meta[d]] :
        carries[d] = carries[e] /\ Printed(carries[d]) /\ carries[d] \notin forgotten =>
            /\ passes[d] = 0 /\ at[d] # "mark" /\ tag[meta[d]] = NoTag
            /\ at[d] \in Identified => print[d] = <<carries[d], NoTag>>

-----------------------------------------------------------------------------
\* The registry

LEMMA RemoveLemma ==
  ASSUME NEW S, NEW s \in Seq(S), NEW i \in 1 .. Len(s)
  PROVE  /\ RemoveAt(s, i) \in Seq(S) /\ Len(RemoveAt(s, i)) = Len(s) - 1
         /\ \A j \in 1 .. Len(s) - 1 : RemoveAt(s, i)[j] = s[IF j < i THEN j ELSE j + 1]
<1> DEFINE front == SubSeq(s, 1, i - 1)
           rest == SubSeq(s, i + 1, Len(s))
<1>1. Len(s) \in Nat /\ \A j \in 1 .. Len(s) : s[j] \in S
  BY LenProperties, ElementOfSeq
<1>2. /\ front \in Seq(S) /\ Len(front) = i - 1
      /\ \A j \in 1 .. i - 1 : front[j] = s[j]
  BY <1>1, SubSeqProperties
<1>3. /\ rest \in Seq(S) /\ Len(rest) = Len(s) - i
      /\ \A j \in 1 .. Len(s) - i : rest[j] = s[i + j]
  BY <1>1, SubSeqProperties
<1>4. RemoveAt(s, i) = front \o rest
  BY DEF RemoveAt
<1> HIDE DEF front, rest
<1>c. /\ front \o rest \in Seq(S) /\ Len(front \o rest) = Len(front) + Len(rest)
      /\ \A j \in 1 .. Len(front) + Len(rest) :
            (front \o rest)[j] = IF j <= Len(front) THEN front[j] ELSE rest[j - Len(front)]
  BY <1>2, <1>3, ConcatProperties
<1>l. Len(front) + Len(rest) = Len(s) - 1
  BY <1>1, <1>2, <1>3
<1>5. /\ front \o rest \in Seq(S) /\ Len(front \o rest) = Len(s) - 1
      /\ \A j \in 1 .. Len(s) - 1 :
            (front \o rest)[j] = IF j <= i - 1 THEN front[j] ELSE rest[j - (i - 1)]
  BY <1>2, <1>c, <1>l
<1>6. ASSUME NEW j \in 1 .. Len(s) - 1
      PROVE  (front \o rest)[j] = s[IF j < i THEN j ELSE j + 1]
  <2>1. CASE j < i
    BY <1>1, <1>2, <1>5, <2>1
  <2>2. CASE j >= i
    <3>1. j - (i - 1) \in 1 .. Len(s) - i /\ i + (j - (i - 1)) = j + 1
      BY <1>1, <2>2
    <3>2. QED
      BY <1>3, <1>5, <2>2, <3>1
  <2>3. j < i \/ j >= i
    BY <1>1
  <2>4. QED
    BY <2>1, <2>2, <2>3, Zenon
<1>7. QED
  BY <1>4, <1>5, <1>6

\* Splitting a sequence loses nothing.
LEMMA SplitLemma ==
  ASSUME NEW S, NEW s \in Seq(S), NEW n \in 0 .. Len(s)
  PROVE  /\ SubSeq(s, n + 1, Len(s)) \in Seq(S) /\ Len(SubSeq(s, n + 1, Len(s))) = Len(s) - n
         /\ SubSeq(s, 1, n) \in Seq(S) /\ Len(SubSeq(s, 1, n)) = n
         /\ \A j \in 1 .. Len(s) - n : SubSeq(s, n + 1, Len(s))[j] = s[n + j]
         /\ \A j \in 1 .. n : SubSeq(s, 1, n)[j] = s[j]
<1>1. Len(s) \in Nat /\ \A j \in 1 .. Len(s) : s[j] \in S
  BY LenProperties, ElementOfSeq
<1>2. QED
  BY <1>1, SubSeqProperties

\* is_processed() only drops fingerprints, and their messages are forgotten.
LEMMA FindDrops ==
  ASSUME TypeOK, NEW d \in Deliveries, Find(d)
  PROVE  /\ registry' \in Seq(Fingerprints) /\ Len(registry') <= MaxCache
         /\ stale' \in 0 .. Len(registry')
         /\ forgotten \subseteq forgotten' /\ forgotten' \subseteq Messages
         /\ \A g : Registered(g)' => Registered(g)
         /\ \A g : Registered(g) => Registered(g)' \/ g[1] \in forgotten'
<1>1. registry \in Seq(Fingerprints) /\ Len(registry) \in Nat /\ Len(registry) <= MaxCache
      /\ stale \in 0 .. Len(registry) /\ MaxCache \in Nat
  BY LenProperties, PreventionAssumption DEF TypeOK
<1>2. PICK n \in {0, stale} : /\ registry' = SubSeq(registry, n + 1, Len(registry))
                              /\ stale' = stale - n
                              /\ forgotten' = forgotten \cup MessagesIn(Range(SubSeq(registry, 1, n)))
  BY DEF Find
<1>3. n \in 0 .. Len(registry)
  BY <1>1
<1>4. /\ registry' \in Seq(Fingerprints) /\ Len(registry') = Len(registry) - n
      /\ \A j \in 1 .. Len(registry) - n : registry'[j] = registry[n + j]
      /\ SubSeq(registry, 1, n) \in Seq(Fingerprints) /\ Len(SubSeq(registry, 1, n)) = n
      /\ \A j \in 1 .. n : SubSeq(registry, 1, n)[j] = registry[j]
  BY <1>1, <1>2, <1>3, SplitLemma
<1>5. DOMAIN SubSeq(registry, 1, n) = 1 .. n
  BY <1>4, LenProperties
<1>6. \A j \in 1 .. n : registry[j][1] \in forgotten'
  BY <1>2, <1>4, <1>5 DEF MessagesIn, Range
<1>7. MessagesIn(Range(SubSeq(registry, 1, n))) \subseteq Messages
  <2>1. \A j \in 1 .. n : SubSeq(registry, 1, n)[j] \in Fingerprints
    BY <1>4, ElementOfSeq
  <2>2. \A g \in Fingerprints : g[1] \in Messages
    BY DEF Fingerprints
  <2>3. QED
    BY <1>5, <2>1, <2>2 DEF MessagesIn, Range
<1>8. ASSUME NEW g, Registered(g)' PROVE Registered(g)
  <2>1. PICK j \in 1 .. Len(registry') : registry'[j] = g
    BY <1>8 DEF Registered
  <2>2. j \in 1 .. Len(registry) - n /\ n + j \in 1 .. Len(registry)
    BY <1>1, <1>3, <1>4
  <2>3. registry[n + j] = g
    BY <1>4, <2>1, <2>2
  <2>4. QED
    BY <2>2, <2>3 DEF Registered
<1>9. ASSUME NEW g, Registered(g) PROVE Registered(g)' \/ g[1] \in forgotten'
  <2>1. PICK i \in 1 .. Len(registry) : registry[i] = g
    BY <1>9 DEF Registered
  <2>2. CASE i <= n
    BY <1>3, <1>6, <2>1, <2>2
  <2>3. CASE i > n
    <3>1. i - n \in 1 .. Len(registry') /\ registry'[i - n] = g
      BY <1>1, <1>3, <1>4, <2>1, <2>3
    <3>2. QED
      BY <3>1 DEF Registered
  <2>4. QED
    BY <1>3, <2>2, <2>3
<1>10. QED
  BY <1>1, <1>2, <1>3, <1>4, <1>7, <1>8, <1>9 DEF TypeOK

\* mark_processed() registers the fingerprint; what the pruning drops is
\* forgotten.
LEMMA WithLemma ==
  ASSUME TypeOK, NEW f \in Fingerprints
  PROVE  /\ With(f) \in Seq(Fingerprints) /\ Len(With(f)) \in Nat
         /\ Len(registry) <= Len(With(f)) /\ Len(With(f)) <= Len(registry) + 1
         /\ \A g : (\E i \in 1 .. Len(With(f)) : With(f)[i] = g) <=> Registered(g) \/ g = f
<1>1. registry \in Seq(Fingerprints) /\ Len(registry) \in Nat /\ DOMAIN registry = 1 .. Len(registry)
  BY LenProperties DEF TypeOK
<1>2. /\ Without(f) \in Seq(Fingerprints) /\ Len(Without(f)) \in Nat
      /\ Len(registry) <= Len(Without(f)) + 1 /\ Len(Without(f)) <= Len(registry)
      /\ \A j \in 1 .. Len(Without(f)) : Registered(Without(f)[j])
      /\ \A i \in 1 .. Len(registry) :
            registry[i] = f \/ \E j \in 1 .. Len(Without(f)) : Without(f)[j] = registry[i]
  <2>1. CASE Without(f) = registry
    BY <1>1, <2>1 DEF Registered
  <2>2. CASE Without(f) # registry
    <3> DEFINE k == CHOOSE i \in DOMAIN registry : registry[i] = f
    <3>1. Without(f) = RemoveAt(registry, k) /\ \E i \in DOMAIN registry : registry[i] = f
      BY <1>1, <2>2 DEF Without, Contains
    <3>2. k \in 1 .. Len(registry) /\ registry[k] = f
      BY <1>1, <3>1
    <3> HIDE DEF k
    <3>3. /\ Without(f) \in Seq(Fingerprints) /\ Len(Without(f)) = Len(registry) - 1
          /\ \A j \in 1 .. Len(registry) - 1 :
                Without(f)[j] = registry[IF j < k THEN j ELSE j + 1]
      BY <1>1, <3>1, <3>2, RemoveLemma
    <3>4. \A j \in 1 .. Len(Without(f)) : Registered(Without(f)[j])
      BY <1>1, <3>2, <3>3 DEF Registered
    <3>5. ASSUME NEW i \in 1 .. Len(registry), registry[i] # f
          PROVE  \E j \in 1 .. Len(Without(f)) : Without(f)[j] = registry[i]
      <4>1. CASE i < k
        BY <1>1, <3>2, <3>3, <4>1
      <4>2. CASE i > k
        <5>1. i - 1 \in 1 .. Len(Without(f)) /\ Without(f)[i - 1] = registry[i]
          BY <1>1, <3>2, <3>3, <4>2
        <5>2. QED
          BY <5>1
      <4>3. QED
        BY <3>2, <3>5, <4>1, <4>2
    <3>6. QED
      BY <1>1, <3>2, <3>3, <3>4, <3>5
  <2>3. QED
    BY <2>1, <2>2
<1> DEFINE w == Without(f)
<1>3. With(f) = Append(w, f)
  BY DEF With
<1> HIDE DEF w
<1>4. /\ Append(w, f) \in Seq(Fingerprints) /\ Len(Append(w, f)) = Len(w) + 1
      /\ \A i \in 1 .. Len(w) : Append(w, f)[i] = w[i]
      /\ Append(w, f)[Len(w) + 1] = f
  BY <1>2, AppendProperties DEF w
<1>5. ASSUME NEW g
      PROVE  (\E i \in 1 .. Len(With(f)) : With(f)[i] = g) <=> Registered(g) \/ g = f
  <2>1. 1 .. Len(With(f)) = 1 .. Len(w) \cup {Len(w) + 1}
    BY <1>2, <1>3, <1>4 DEF w
  <2>2. (\E i \in 1 .. Len(w) : w[i] = g) => Registered(g)
    BY <1>2 DEF w
  <2>3. Registered(g) => g = f \/ \E i \in 1 .. Len(w) : w[i] = g
    BY <1>2 DEF w, Registered
  <2>4. QED
    BY <1>3, <1>4, <2>1, <2>2, <2>3
<1>6. QED
  BY <1>1, <1>2, <1>3, <1>4, <1>5 DEF w

LEMMA MarkKeeps ==
  ASSUME TypeOK, NEW d \in Deliveries, print[d] \in Fingerprints, Mark(d)
  PROVE  /\ registry' \in Seq(Fingerprints) /\ Len(registry') <= MaxCache
         /\ stale' \in 0 .. Len(registry')
         /\ forgotten \subseteq forgotten' /\ forgotten' \subseteq Messages
         /\ \A g : Registered(g)' => Registered(g) \/ g = print[d]
         /\ \A g : Registered(g) \/ g = print[d] => Registered(g)' \/ g[1] \in forgotten'
<1> DEFINE f == print[d]
           all == With(f)
           dropped == Len(all) - Len(Pruned(all))
<1>1. /\ registry' = Pruned(all)
      /\ stale' = IF stale > dropped THEN stale - dropped ELSE 0
      /\ forgotten' = forgotten \cup MessagesIn(Range(SubSeq(all, 1, dropped)))
  BY DEF Mark
<1>2. f \in Fingerprints
  OBVIOUS
<1> HIDE DEF f
<1>3. /\ all \in Seq(Fingerprints) /\ Len(all) \in Nat
      /\ Len(registry) <= Len(all) /\ Len(all) <= Len(registry) + 1
      /\ \A g : (\E i \in 1 .. Len(all) : all[i] = g) <=> Registered(g) \/ g = f
  BY <1>2, WithLemma
<1>4. Len(registry) \in Nat /\ Len(registry) <= MaxCache /\ stale \in 0 .. Len(registry)
  BY LenProperties DEF TypeOK
<1> HIDE DEF all
<1> DEFINE keep == (MaxCache * 8) \div 10
<1>5. keep \in 0 .. MaxCache /\ MaxCache \in Nat
  BY PreventionAssumption
<1> HIDE DEF keep
<1>6. /\ dropped \in 0 .. Len(all) /\ Len(Pruned(all)) <= MaxCache
      /\ Pruned(all) = SubSeq(all, dropped + 1, Len(all))
  <2>1. CASE Len(all) > MaxCache
    <3>1. Len(all) - keep \in 0 .. Len(all)
      BY <1>3, <1>5, <2>1
    <3>2. Pruned(all) = SubSeq(all, Len(all) - keep + 1, Len(all))
      BY <2>1 DEF Pruned, keep
    <3>3. Len(Pruned(all)) = Len(all) - (Len(all) - keep)
      BY <1>3, <3>1, <3>2, SplitLemma
    <3>4. dropped = Len(all) - keep
      BY <1>3, <1>5, <3>3
    <3> HIDE DEF dropped
    <3>5. Pruned(all) = SubSeq(all, dropped + 1, Len(all))
      BY <3>2, <3>4
    <3>6. Len(Pruned(all)) <= MaxCache
      BY <1>3, <1>5, <3>3
    <3>7. QED
      BY <3>1, <3>4, <3>5, <3>6
  <2>2. CASE ~(Len(all) > MaxCache)
    <3>1. Pruned(all) = all /\ dropped = 0
      BY <1>3, <2>2 DEF Pruned
    <3>2. all = SubSeq(all, 1, Len(all))
      BY <1>3, SubSeqFull
    <3>3. QED
      BY <1>3, <1>5, <2>2, <3>1, <3>2
  <2>3. QED
    BY <2>1, <2>2
<1> HIDE DEF dropped
<1>7. /\ registry' \in Seq(Fingerprints) /\ Len(registry') = Len(all) - dropped
      /\ \A j \in 1 .. Len(all) - dropped : registry'[j] = all[dropped + j]
      /\ SubSeq(all, 1, dropped) \in Seq(Fingerprints)
      /\ Len(SubSeq(all, 1, dropped)) = dropped
      /\ \A j \in 1 .. dropped : SubSeq(all, 1, dropped)[j] = all[j]
  BY <1>1, <1>3, <1>6, SplitLemma
<1>8. DOMAIN SubSeq(all, 1, dropped) = 1 .. dropped
  BY <1>7, LenProperties
<1>9. \A j \in 1 .. dropped : all[j][1] \in forgotten'
  BY <1>1, <1>7, <1>8 DEF MessagesIn, Range
<1>10. MessagesIn(Range(SubSeq(all, 1, dropped))) \subseteq Messages
  <2>1. \A j \in 1 .. dropped : SubSeq(all, 1, dropped)[j] \in Fingerprints
    BY <1>7, ElementOfSeq
  <2>2. \A g \in Fingerprints : g[1] \in Messages
    BY DEF Fingerprints
  <2>3. QED
    BY <1>8, <2>1, <2>2 DEF MessagesIn, Range
<1>11. Len(registry') <= MaxCache
  BY <1>1, <1>6
<1>12. stale' \in 0 .. Len(registry')
  BY <1>1, <1>3, <1>4, <1>6, <1>7
<1>l. Len(registry') = Len(all) - dropped /\ dropped \in 0 .. Len(all) /\ Len(all) \in Nat
  BY <1>3, <1>6, <1>7
<1>13. ASSUME NEW g, Registered(g)' PROVE Registered(g) \/ g = f
  <2>1. PICK j \in 1 .. Len(registry') : registry'[j] = g
    BY <1>13 DEF Registered
  <2>2. dropped + j \in 1 .. Len(all) /\ j \in 1 .. Len(all) - dropped
    BY <1>l
  <2>3. all[dropped + j] = g
    BY <1>7, <2>1
  <2>4. QED
    BY <1>3, <2>2, <2>3
<1>14. ASSUME NEW g, Registered(g) \/ g = f PROVE Registered(g)' \/ g[1] \in forgotten'
  <2>1. PICK i \in 1 .. Len(all) : all[i] = g
    BY <1>3, <1>14
  <2>2. CASE i <= dropped
    BY <1>6, <1>9, <2>1, <2>2
  <2>3. CASE i > dropped
    <3>1. i - dropped \in 1 .. Len(registry') /\ dropped + (i - dropped) = i
      BY <1>l, <2>3
    <3>2. registry'[i - dropped] = g
      BY <1>7, <1>l, <2>1, <3>1
    <3>3. QED
      BY <3>1, <3>2 DEF Registered
  <2>4. QED
    BY <1>l, <2>2, <2>3
<1>15. QED
  BY <1>1, <1>7, <1>10, <1>11, <1>12, <1>13, <1>14 DEF f, TypeOK

-----------------------------------------------------------------------------
\* Types, and what deliveries carry

LEMMA TypeInit == Init => TypeOK /\ Settled /\ Tagged
<1> SUFFICES ASSUME Init PROVE TypeOK /\ Settled /\ Tagged
  OBVIOUS
<1>1. registry \in Seq(Fingerprints) /\ Len(registry) = 0
  BY EmptySeq DEF Init
<1>2. TypeOK
  BY <1>1, PreventionAssumption DEF Init, TypeOK
<1>3. QED
  BY <1>2, PreventionAssumption DEF Init, Settled, Tagged, Identified

\* A fingerprint is one of the kinds the registry holds, and has no part made
\* up for the call if the message is recognised by it.
LEMMA PrintTyped ==
  ASSUME NEW m \in Messages, NEW t \in Tags \cup {NoTag}
  PROVE  /\ PrintOf(m, t) \in Fingerprints /\ PrintOf(m, t)[1] = m
         /\ PrintOf(m, t)[2] \in {t, NoMatch}
         /\ RequestOf(m, t) \in Tags \cup {NoTag, NoMatch}
         /\ m \notin Unrequested => RequestOf(m, t) = NoTag
         /\ Printed(m) => PrintOf(m, t) = <<m, t>>
         /\ m \notin Objects \cup Unstamped /\ t # NoTag => PrintOf(m, t) = <<m, t>>
<1>1. t # NoMatch /\ NoTag # NoMatch
  BY PreventionAssumption
<1>2. QED
  BY <1>1 DEF PrintOf, RequestOf, Fingerprints, Printed

LEMMA TypeStep == TypeOK /\ Settled /\ [Next]_vars => TypeOK' /\ Settled'
<1> SUFFICES ASSUME TypeOK, Settled, [Next]_vars PROVE TypeOK' /\ Settled'
  OBVIOUS
<1> USE PreventionAssumption DEF library, message, call, history, Identified
<1>1. ASSUME NEW d \in Deliveries, NEW m \in Messages, Arrive(d, m) PROVE TypeOK' /\ Settled'
  <2>1. PICK c \in {d} \cup {meta[e] : e \in {f \in Deliveries : carries[f] = m}} :
          /\ meta' = [meta EXCEPT ![d] = c]
          /\ request' = [request EXCEPT ![d] = RequestOf(m, tag[c])]
    BY <1>1 DEF Arrive
  <2>2. /\ at[d] = "idle" /\ at' = [at EXCEPT ![d] = "identify"]
        /\ carries' = [carries EXCEPT ![d] = m]
        /\ before' = [before EXCEPT ![d] = {e \in Deliveries : passes[e] > 0}]
        /\ UNCHANGED <<library, tag, print, passes, forgotten>>
    BY <1>1 DEF Arrive
  <2>3. c \in Deliveries /\ (c # d => carries[c] = m /\ meta[c] = c)
    BY <2>1 DEF TypeOK, Settled
  <2>4. /\ RequestOf(m, tag[c]) \in Tags \cup {NoTag, NoMatch}
        /\ m \notin Unrequested => RequestOf(m, tag[c]) = NoTag
    BY <2>3, PrintTyped DEF TypeOK
  <2>5. TypeOK'
    BY <2>1, <2>2, <2>3, <2>4 DEF TypeOK
  <2>6. ASSUME NEW e \in Deliveries
        PROVE  carries'[meta'[e]] = carries'[e] /\ meta'[meta'[e]] = meta'[e]
    <3>1. CASE e = d
      BY <2>1, <2>2, <2>3, <3>1 DEF TypeOK
    <3>2. CASE e # d
      <4>1. meta[e] # d
        BY <2>2, <3>2 DEF Settled, TypeOK
      <4>2. QED
        BY <2>1, <2>2, <3>2, <4>1 DEF TypeOK, Settled
    <3>3. QED
      BY <3>1, <3>2
  <2>7. QED
    BY <2>1, <2>2, <2>4, <2>5, <2>6 DEF TypeOK, Settled
<1>2. ASSUME NEW d \in Deliveries, Identify(d) PROVE TypeOK' /\ Settled'
  <2>1. carries[d] \in Messages /\ meta[d] \in Deliveries /\ tag[meta[d]] \in Tags \cup {NoTag}
    BY <1>2 DEF Identify, TypeOK, Settled
  <2>2. /\ PrintOf(carries[d], tag[meta[d]]) \in Fingerprints
        /\ PrintOf(carries[d], tag[meta[d]])[1] = carries[d]
    BY <2>1, PrintTyped
  <2>3. QED
    BY <1>2, <2>2 DEF Identify, TypeOK, Settled
<1>3. ASSUME NEW d \in Deliveries, Look(d) PROVE TypeOK' /\ Settled'
  <2>1. MessagesIn(seen) \subseteq Messages
    BY DEF MessagesIn, TypeOK, Fingerprints
  <2>2. forgotten' \subseteq Messages /\ seen' \subseteq seen /\ expired' \subseteq seen'
    BY <1>3, <2>1 DEF Look, TypeOK, MessagesIn
  <2>3. at[d] = "look" /\ \E label \in {"refused", "record"} : at' = [at EXCEPT ![d] = label]
    BY <1>3 DEF Look
  <2>4. UNCHANGED <<registry, stale, message, tag, call, passes, before>>
    BY <1>3 DEF Look
  <2>5. QED
    BY <2>2, <2>3, <2>4 DEF TypeOK, Settled
<1>4. ASSUME NEW d \in Deliveries, Record(d) PROVE TypeOK' /\ Settled'
  <2>1. Combination(d) \in Fingerprints
    BY <1>4 DEF Record, Combination, Fingerprints, TypeOK, Settled
  <2>2. QED
    BY <1>4, <2>1 DEF Record, TypeOK, Settled
<1>5. ASSUME NEW d \in Deliveries, Find(d) PROVE TypeOK' /\ Settled'
  <2>1. /\ registry' \in Seq(Fingerprints) /\ Len(registry') <= MaxCache
        /\ stale' \in 0 .. Len(registry') /\ forgotten' \subseteq Messages
    BY <1>5, FindDrops
  <2>2. at[d] = "find" /\ \E label \in {"refused", "mark"} : at' = [at EXCEPT ![d] = label]
    BY <1>5 DEF Find
  <2>3. UNCHANGED <<seen, expired, message, tag, call, passes, before>>
    BY <1>5 DEF Find
  <2>4. QED
    BY <2>1, <2>2, <2>3 DEF TypeOK, Settled
<1>6. ASSUME NEW d \in Deliveries, Mark(d) PROVE TypeOK' /\ Settled'
  <2>1. print[d] \in Fingerprints
    BY <1>6 DEF Mark, Settled
  <2>2. /\ registry' \in Seq(Fingerprints) /\ Len(registry') <= MaxCache
        /\ stale' \in 0 .. Len(registry') /\ forgotten' \subseteq Messages
    BY <1>6, <2>1, MarkKeeps
  <2>3. /\ passes' = [passes EXCEPT ![d] = @ + 1] /\ at[d] = "mark"
        /\ \E label \in {"admitted", "tag"} : at' = [at EXCEPT ![d] = label]
        /\ UNCHANGED <<seen, expired, message, tag, call, before>>
    BY <1>6 DEF Mark
  <2>4. TypeOK'
    BY <2>2, <2>3 DEF TypeOK
  <2>5. Settled'
    BY <2>3 DEF TypeOK, Settled
  <2>6. QED
    BY <2>4, <2>5
<1>7. ASSUME NEW d \in Deliveries, Tag(d) PROVE TypeOK' /\ Settled'
  <2>1. <<d, passes[d]>> \in Tags /\ meta[d] \in Deliveries
    BY DEF TypeOK, Tags
  <2>2. carries[meta[d]] \in Messages
    BY <1>7 DEF Tag, Settled
  <2>3. at[meta[d]] # "idle"
    BY <2>1, <2>2 DEF Settled
  <2>4. TypeOK'
    BY <1>7, <2>1 DEF Tag, TypeOK
  <2>5. Settled'
    BY <1>7, <2>1, <2>3 DEF Tag, TypeOK, Settled
  <2>6. QED
    BY <2>4, <2>5
<1>8. ASSUME NEW d \in Deliveries, Forward(d) PROVE TypeOK' /\ Settled'
  <2>1. carries[d] \in Messages /\ tag[meta[d]] \in Tags \cup {NoTag}
    BY <1>8 DEF Forward, TypeOK, Settled
  <2>2. /\ RequestOf(carries[d], tag[meta[d]]) \in Tags \cup {NoTag, NoMatch}
        /\ carries[d] \notin Unrequested => RequestOf(carries[d], tag[meta[d]]) = NoTag
    BY <2>1, PrintTyped
  <2>3. QED
    BY <1>8, <2>2 DEF Forward, TypeOK, Settled
<1>9. CASE Age
  <2>1. Len(registry) \in Nat
    BY LenProperties DEF TypeOK
  <2>2. QED
    BY <1>9, <2>1 DEF Age, TypeOK, Settled
<1>10. CASE UNCHANGED vars
  BY <1>10 DEF vars, TypeOK, Settled
<1>11. QED
  BY <1>1, <1>2, <1>3, <1>4, <1>5, <1>6, <1>7, <1>8, <1>9, <1>10 DEF Next, Process

\* A delivery that has begun goes on with its message.
LEMMA Onward ==
  ASSUME TypeOK, Settled, [Next]_vars
  PROVE  /\ \A e \in Deliveries :
              /\ passes[e] \in Nat /\ passes'[e] \in Nat /\ passes[e] <= passes'[e]
              /\ at[e] # "idle" =>
                    /\ at'[e] # "idle" /\ carries'[e] = carries[e] /\ meta'[e] = meta[e]
                    /\ before'[e] = before[e]
         /\ forgotten \subseteq forgotten'
<1> USE DEF library, message, call, history
<1>1. \A e \in Deliveries : passes[e] \in Nat
  BY DEF TypeOK
<1>2. ASSUME NEW d \in Deliveries, NEW m \in Messages, Arrive(d, m)
      PROVE  /\ passes' = passes /\ forgotten' = forgotten
             /\ \A e \in Deliveries : at[e] # "idle" =>
                    /\ at'[e] # "idle" /\ carries'[e] = carries[e] /\ meta'[e] = meta[e]
                    /\ before'[e] = before[e]
  BY <1>2 DEF Arrive, TypeOK
<1>3. ASSUME NEW d \in Deliveries, Process(d) \/ Forward(d)
      PROVE  /\ forgotten \subseteq forgotten' /\ carries' = carries /\ meta' = meta
             /\ before' = before /\ at[d] # "idle"
             /\ \E label \in {"look", "find", "refused", "record", "mark", "tag", "admitted",
                             "identify"} :
                    at' = [at EXCEPT ![d] = label]
             /\ passes' = passes \/ passes' = [passes EXCEPT ![d] = @ + 1]
  BY <1>3 DEF Process, Identify, Look, Record, Find, Mark, Tag, Forward
<1>4. CASE Age \/ UNCHANGED vars
  BY <1>1, <1>4 DEF Age, vars
<1>5. ASSUME NEW d \in Deliveries, NEW m \in Messages, Arrive(d, m)
      PROVE  /\ \A e \in Deliveries :
                  /\ passes[e] \in Nat /\ passes'[e] \in Nat /\ passes[e] <= passes'[e]
                  /\ at[e] # "idle" =>
                        /\ at'[e] # "idle" /\ carries'[e] = carries[e] /\ meta'[e] = meta[e]
                        /\ before'[e] = before[e]
             /\ forgotten \subseteq forgotten'
  BY <1>1, <1>2, <1>5
<1>6. ASSUME NEW d \in Deliveries, Process(d) \/ Forward(d)
      PROVE  /\ \A e \in Deliveries :
                  /\ passes[e] \in Nat /\ passes'[e] \in Nat /\ passes[e] <= passes'[e]
                  /\ at[e] # "idle" =>
                        /\ at'[e] # "idle" /\ carries'[e] = carries[e] /\ meta'[e] = meta[e]
                        /\ before'[e] = before[e]
             /\ forgotten \subseteq forgotten'
  <2>1. \A e \in Deliveries : at[e] # "idle" => at'[e] # "idle"
    BY <1>3, <1>6 DEF TypeOK
  <2>2. \A e \in Deliveries : passes'[e] = passes[e] \/ passes'[e] = passes[e] + 1
    <3>1. passes' = passes \/ passes' = [passes EXCEPT ![d] = @ + 1]
      BY <1>3, <1>6
    <3>2. QED
      BY <3>1 DEF TypeOK
  <2>3. \A e \in Deliveries :
          passes[e] \in Nat /\ passes'[e] \in Nat /\ passes[e] <= passes'[e]
    BY <1>1, <2>2
  <2>4. forgotten \subseteq forgotten' /\ carries' = carries /\ meta' = meta /\ before' = before
    BY <1>3, <1>6
  <2>5. QED
    BY <2>1, <2>3, <2>4
<1>7. QED
  BY <1>4, <1>5, <1>6 DEF Next

\* Only its own steps change what a delivery that has begun is doing.
LEMMA OwnSteps ==
  ASSUME TypeOK, [Next]_vars, NEW d \in Deliveries, at[d] # "idle",
         ~(Process(d) \/ Forward(d))
  PROVE  at'[d] = at[d] /\ passes'[d] = passes[d] /\ print'[d] = print[d]
         /\ request'[d] = request[d]
<1> USE DEF library, message, call, history
<1>1. ASSUME NEW e \in Deliveries, NEW m \in Messages, Arrive(e, m)
      PROVE  at'[d] = at[d] /\ passes'[d] = passes[d] /\ print'[d] = print[d]
             /\ request'[d] = request[d]
  BY <1>1 DEF Arrive, TypeOK
<1>2. ASSUME NEW e \in Deliveries, e # d, Process(e) \/ Forward(e)
      PROVE  at'[d] = at[d] /\ passes'[d] = passes[d] /\ print'[d] = print[d]
             /\ request'[d] = request[d]
  BY <1>2 DEF Process, Identify, Look, Record, Find, Mark, Tag, Forward, TypeOK
<1>3. CASE Age \/ UNCHANGED vars
  BY <1>3 DEF Age, vars
<1>4. QED
  BY <1>1, <1>2, <1>3 DEF Next

\* Only Tag changes a tag.
LEMMA TagSteps ==
  ASSUME TypeOK, [Next]_vars, NEW c \in Deliveries, tag'[c] # tag[c]
  PROVE  \E f \in Deliveries : Tag(f) /\ meta[f] = c /\ tag'[c] \in Tags
<1> USE DEF library, message, call, history
<1>1. PICK f \in Deliveries : Tag(f)
  BY DEF Next, Process, Arrive, Identify, Look, Record, Find, Mark, Forward, Age, vars
<1>2. meta[f] = c
  BY <1>1 DEF Tag, TypeOK
<1>3. tag'[c] = <<f, passes[f]>>
  BY <1>1, <1>2 DEF Tag, TypeOK
<1>4. QED
  BY <1>1, <1>2, <1>3 DEF Tags, TypeOK

\* An admitted message stays one.
LEMMA PassedStays ==
  ASSUME TypeOK, Settled, [Next]_vars, NEW m, Passed(m)
  PROVE  Passed(m)'
<1>1. PICK e \in Deliveries : carries[e] = m /\ passes[e] > 0
  BY DEF Passed
<1>2. carries'[e] = m /\ passes'[e] > 0
  BY <1>1, Onward DEF Settled
<1>3. QED
  BY <1>2 DEF Passed

LEMMA TaggedStep == TypeOK /\ Settled /\ Tagged /\ [Next]_vars => Tagged'
<1> SUFFICES ASSUME TypeOK, Settled, Tagged, [Next]_vars, NEW d \in Deliveries
             PROVE  /\ tag'[meta'[d]] # NoTag => Passed(carries[d])'
                    /\ at'[d] \in Identified =>
                          /\ print'[d][2] \in Tags => Passed(carries[d])'
                          /\ carries'[d] \notin Unstamped \cup Unrequested
                                => print'[d][2] # NoMatch
  BY DEF Tagged, Passed
<1> USE DEF library, message, call, history, Identified
<1>m. \A m : Passed(m) => (\E e \in Deliveries : carries'[e] = m /\ passes'[e] > 0)
  BY PassedStays DEF Passed
<1>1. CASE \E m \in Messages : Arrive(d, m)
  <2>1. PICK m \in Messages : Arrive(d, m)
    BY <1>1
  <2>2. PICK c \in {d} \cup {meta[e] : e \in {f \in Deliveries : carries[f] = m}} :
          meta' = [meta EXCEPT ![d] = c]
    BY <2>1 DEF Arrive
  <2>3. at'[d] = "identify" /\ carries'[d] = m /\ tag' = tag /\ meta'[d] = c /\ at[d] = "idle"
    BY <2>1, <2>2 DEF Arrive, TypeOK
  <2>4. tag[c] # NoTag => Passed(m)
    BY <2>2, <2>3 DEF Settled, Tagged
  <2>5. QED
    BY <1>m, <2>3, <2>4 DEF Passed
<1>2. CASE ~\E m \in Messages : Arrive(d, m)
  <2>1. carries'[d] = carries[d] /\ meta'[d] = meta[d]
    BY <1>2 DEF Next, Process, Arrive, Identify, Look, Record, Find, Mark, Tag, Forward, Age, vars,
             TypeOK
  <2>2. tag'[meta[d]] # NoTag => Passed(carries[d])'
    <3>1. CASE tag'[meta[d]] = tag[meta[d]]
      BY <1>m, <2>1, <3>1 DEF Tagged, Passed
    <3>2. CASE tag'[meta[d]] # tag[meta[d]]
      <4>1. PICK f \in Deliveries : Tag(f) /\ meta[f] = meta[d]
        BY <3>2, TagSteps DEF TypeOK
      <4>2. passes[f] > 0 /\ carries[f] = carries[d]
        BY <4>1 DEF Tag, Settled
      <4>3. QED
        BY <1>m, <2>1, <4>2 DEF Passed
    <3>3. QED
      BY <3>1, <3>2
  <2>3. CASE Identify(d)
    <3> DEFINE t == tag[meta[d]]
    <3>1. carries[d] \in Messages /\ t \in Tags \cup {NoTag}
      BY <2>3 DEF Identify, Settled, TypeOK
    <3>2. print'[d] = PrintOf(carries[d], t)
      BY <2>3 DEF Identify, TypeOK
    <3> HIDE DEF t
    <3>3. /\ print'[d][2] \in {t, NoMatch}
          /\ Printed(carries[d]) => print'[d] = <<carries[d], t>>
      BY <3>1, <3>2, PrintTyped
    <3>4. t # NoMatch /\ NoTag \notin Tags /\ NoMatch \notin Tags
      BY <3>1, PreventionAssumption
    <3>5. t # NoTag => Passed(carries[d])
      BY DEF t, Tagged
    <3>6. QED
      BY <1>m, <2>1, <2>2, <3>3, <3>4, <3>5 DEF Printed, Passed
  <2>4. CASE ~Identify(d)
    <3>1. at'[d] \in Identified => at[d] \in Identified /\ print'[d] = print[d]
      <4>1. CASE Process(d) \/ Forward(d)
        BY <2>4, <4>1 DEF Process, Look, Record, Find, Mark, Tag, Forward, TypeOK
      <4>2. CASE at[d] = "idle"
        BY <1>2, <4>2 DEF Next, Process, Arrive, Identify, Look, Record, Find, Mark, Tag, Forward,
                       Age, vars, TypeOK
      <4>3. QED
        BY <4>1, <4>2, OwnSteps
    <3>2. QED
      BY <1>m, <2>1, <2>2, <3>1 DEF Tagged, Passed
  <2>5. QED
    BY <2>3, <2>4
<1>3. QED
  BY <1>1, <1>2

-----------------------------------------------------------------------------
\* What the libraries hold was done by a delivery

LEMMA HereInit == Init => SeenHere /\ RegisteredHere
  BY EmptySeq DEF Init, SeenHere, RegisteredHere, Registered

\* The registry refuses no one but for an admitted message.
LEMMA FoundPassed ==
  ASSUME TypeOK, Settled, RegisteredHere, NEW d \in Deliveries, Find(d), at'[d] # "mark"
  PROVE  Passed(carries[d])
<1>1. Contains(registry', print[d])
  BY DEF Find, TypeOK
<1>2. Registered(print[d])
  BY <1>1, FindDrops DEF Contains, Registered
<1>3. print[d][1] = carries[d]
  BY DEF Find, Settled, Identified
<1>4. QED
  BY <1>2, <1>3 DEF RegisteredHere

LEMMA HereStep ==
  TypeOK /\ Settled /\ SeenHere /\ RegisteredHere /\ [Next]_vars
    => SeenHere' /\ RegisteredHere'
<1> SUFFICES ASSUME TypeOK, Settled, SeenHere, RegisteredHere, [Next]_vars
             PROVE  SeenHere' /\ RegisteredHere'
  OBVIOUS
<1> USE DEF library, message, call, history
<1>m. \A m : Passed(m) => (\E e \in Deliveries : carries'[e] = m /\ passes'[e] > 0)
  BY PassedStays DEF Passed
<1>1. RegisteredHere'
  <2> SUFFICES ASSUME NEW g, Registered(g)'
               PROVE  \E e \in Deliveries : carries'[e] = g[1] /\ passes'[e] > 0
    BY DEF RegisteredHere, Passed
  <2>1. CASE registry' = registry
    BY <1>m, <2>1 DEF Registered, RegisteredHere
  <2>2. ASSUME NEW d \in Deliveries, Find(d)
        PROVE  \E e \in Deliveries : carries'[e] = g[1] /\ passes'[e] > 0
    BY <1>m, <2>2, FindDrops DEF RegisteredHere
  <2>3. ASSUME NEW d \in Deliveries, Mark(d)
        PROVE  \E e \in Deliveries : carries'[e] = g[1] /\ passes'[e] > 0
    <3>1. print[d] \in Fingerprints /\ print[d][1] = carries[d]
      BY <2>3 DEF Mark, Settled, Identified
    <3>2. Registered(g) \/ g = print[d]
      BY <2>3, <3>1, MarkKeeps
    <3>3. carries'[d] = carries[d] /\ passes'[d] > 0
      BY <2>3 DEF Mark, TypeOK
    <3>4. QED
      BY <1>m, <3>1, <3>2, <3>3 DEF RegisteredHere
  <2>4. registry' = registry \/ \E d \in Deliveries : Find(d) \/ Mark(d)
    BY DEF Next, Process, Arrive, Identify, Look, Record, Tag, Forward, Age, vars
  <2>5. QED
    BY <2>1, <2>2, <2>3, <2>4
<1>2. SeenHere'
  <2> SUFFICES ASSUME NEW c \in seen'
               PROVE  \E e \in Deliveries :
                        carries'[e] = c[1] /\ (passes'[e] > 0 \/ at'[e] \in {"find", "mark"})
    BY DEF SeenHere
  <2>1. CASE c \in seen
    <3>1. PICK e \in Deliveries :
            carries[e] = c[1] /\ (passes[e] > 0 \/ at[e] \in {"find", "mark"})
      BY <2>1 DEF SeenHere
    <3>2. carries'[e] = c[1] /\ (passes[e] > 0 => passes'[e] > 0)
      BY <3>1, Onward DEF Settled
    <3>3. CASE Mark(e)
      BY <3>2, <3>3 DEF Mark, TypeOK
    <3>4. CASE Find(e)
      <4>1. at'[e] = "mark" \/ Passed(carries[e])
        BY <3>4, FoundPassed
      <4>2. QED
        BY <1>m, <3>1, <3>2, <4>1
    <3>5. CASE ~Mark(e) /\ ~Find(e) /\ at[e] \in {"find", "mark"}
      <4>1. ~(Process(e) \/ Forward(e))
        BY <3>5 DEF Process, Identify, Look, Record, Tag, Forward
      <4>2. at'[e] = at[e]
        BY <3>5, <4>1, OwnSteps
      <4>3. QED
        BY <3>2, <3>5, <4>2
    <3>6. QED
      BY <3>1, <3>2, <3>3, <3>4, <3>5
  <2>2. CASE c \notin seen
    <3>1. PICK d \in Deliveries : Record(d)
      BY <2>2 DEF Next, Process, Arrive, Identify, Look, Find, Mark, Tag, Forward, Age, vars
    <3>2. c[1] = carries[d]
      BY <2>2, <3>1 DEF Record, Combination
    <3>3. at'[d] = "find" /\ carries'[d] = carries[d]
      BY <3>1 DEF Record, TypeOK
    <3>4. QED
      BY <3>2, <3>3
  <2>3. QED
    BY <2>1, <2>2
<1>3. QED
  BY <1>1, <1>2

-----------------------------------------------------------------------------
\* What deliveries did is there until it is forgotten

LEMMA RecordedInit == Init => Recorded
  BY DEF Init, Recorded

LEMMA RecordedStep == TypeOK /\ Settled /\ Recorded /\ [Next]_vars => Recorded'
<1> SUFFICES ASSUME TypeOK, Settled, Recorded, [Next]_vars, NEW d \in Deliveries,
                    Tracked(carries'[d]), carries'[d] \notin forgotten'
             PROVE  /\ passes'[d] > 0 \/ at'[d] \in {"find", "mark"} => <<carries'[d], NoTag>> \in seen'
                    /\ at'[d] \in {"record", "find", "mark"} => passes'[d] = 0
                    /\ passes'[d] <= 1
  BY DEF Recorded, Tracked
<1> USE DEF library, message, call, history
<1> DEFINE Goal == /\ passes'[d] > 0 \/ at'[d] \in {"find", "mark"} => <<carries'[d], NoTag>> \in seen'
                   /\ at'[d] \in {"record", "find", "mark"} => passes'[d] = 0
                   /\ passes'[d] <= 1
<1> SUFFICES Goal
  OBVIOUS
\* What was seen of a tracked message stays.
<1>1. \A m : m \notin forgotten' /\ <<m, NoTag>> \in seen => <<m, NoTag>> \in seen'
  <2>1. ASSUME NEW e \in Deliveries, Look(e)
        PROVE  \A m : m \notin forgotten' /\ <<m, NoTag>> \in seen => <<m, NoTag>> \in seen'
    <3>1. PICK drop \in {{}, expired} :
            seen' = seen \ drop /\ forgotten' = forgotten \cup MessagesIn(drop)
      BY <2>1 DEF Look
    <3>2. \A m : <<m, NoTag>> \in drop => m \in MessagesIn(drop)
      <4>1. \A c \in drop : c[1] \in MessagesIn(drop)
        BY DEF MessagesIn
      <4>2. QED
        BY <4>1
    <3>3. QED
      BY <3>1, <3>2
  <2>2. seen \subseteq seen' \/ \E e \in Deliveries : Look(e)
    BY DEF Next, Process, Arrive, Identify, Record, Find, Mark, Tag, Forward, Age, vars
  <2>3. QED
    BY <2>1, <2>2
<1>2. CASE at[d] = "idle"
  <2>1. at'[d] \in {"idle", "identify"} /\ passes'[d] = passes[d]
    BY <1>2 DEF Next, Process, Arrive, Identify, Look, Record, Find, Mark, Tag, Forward, Age, vars,
             TypeOK
  <2>2. QED
    BY <1>2, <2>1 DEF Settled
<1>3. CASE at[d] # "idle"
  <2>1. carries'[d] = carries[d] /\ carries[d] \notin forgotten /\ passes[d] \in Nat
    BY <1>3, Onward
  <2>2. /\ passes[d] > 0 \/ at[d] \in {"find", "mark"} => <<carries[d], NoTag>> \in seen'
        /\ at[d] \in {"record", "find", "mark"} => passes[d] = 0
        /\ passes[d] <= 1
    BY <1>1, <2>1 DEF Recorded
  <2>3. at[d] \in {"identify"} \cup Identified => Combination(d) = <<carries[d], NoTag>>
                                                /\ request[d] # NoMatch
    BY <2>1, PreventionAssumption DEF Settled, Combination, Tracked
  <2>4. CASE Identify(d)
    <3>1. at'[d] = "look" /\ passes' = passes
      BY <2>3, <2>4 DEF Identify, TypeOK
    <3>2. QED
      BY <2>1, <2>2, <3>1
  <2>5. CASE Look(d)
    <3>1. /\ at'[d] \in {"refused", "record"} /\ passes' = passes
          /\ at'[d] = "record" => <<carries[d], NoTag>> \notin seen'
      BY <2>1, <2>3, <2>5 DEF Look, Identified, Tracked, TypeOK
    <3>2. QED
      BY <2>1, <2>2, <3>1
  <2>6. CASE Record(d)
    BY <2>1, <2>2, <2>3, <2>6 DEF Record, Identified, TypeOK
  <2>7. CASE Find(d)
    <3>1. at[d] = "find" /\ at'[d] \in {"refused", "mark"} /\ passes' = passes
      BY <2>7 DEF Find, TypeOK
    <3>2. QED
      BY <2>1, <2>2, <3>1
  <2>8. CASE Mark(d)
    <3>1. at[d] = "mark" /\ at'[d] \in {"admitted", "tag"} /\ passes'[d] = passes[d] + 1
      BY <2>8 DEF Mark, TypeOK
    <3>2. QED
      BY <2>1, <2>2, <3>1
  <2>9. CASE Tag(d) \/ Forward(d)
    <3>1. at'[d] \in {"admitted", "identify"} /\ passes' = passes
      BY <2>9 DEF Tag, Forward, TypeOK
    <3>2. QED
      BY <2>1, <2>2, <3>1
  <2>10. CASE ~(Process(d) \/ Forward(d))
    BY <1>3, <2>1, <2>2, <2>10, OwnSteps
  <2>11. QED
    BY <2>4, <2>5, <2>6, <2>7, <2>8, <2>9, <2>10 DEF Process
<1>4. QED
  BY <1>2, <1>3

\* A fingerprint stays in the registry until its message is forgotten.
LEMMA Keeps ==
  ASSUME TypeOK, Settled, [Next]_vars, NEW g, Registered(g), g[1] \notin forgotten'
  PROVE  \E i \in 1 .. Len(registry') : registry'[i] = g
<1>1. CASE registry' = registry
  BY <1>1 DEF Registered
<1>2. ASSUME NEW d \in Deliveries, Find(d) PROVE Registered(g)'
  BY <1>2, FindDrops
<1>3. ASSUME NEW d \in Deliveries, Mark(d) PROVE Registered(g)'
  <2>1. print[d] \in Fingerprints
    BY <1>3 DEF Mark, Settled, Identified
  <2>2. QED
    BY <1>3, <2>1, MarkKeeps
<1>4. registry' = registry \/ \E d \in Deliveries : Find(d) \/ Mark(d)
  BY DEF Next, Process, Arrive, Identify, Look, Record, Tag, Forward, Age, vars, library
<1>5. QED
  BY <1>1, <1>2, <1>3, <1>4 DEF Registered

\* A delivery that is admitted has its fingerprint registered, or dropped at
\* once.
LEMMA MarkRegisters ==
  ASSUME TypeOK, Settled, NEW d \in Deliveries, Mark(d), carries[d] \notin forgotten'
  PROVE  \E i \in 1 .. Len(registry') : registry'[i] = print[d]
<1>1. print[d] \in Fingerprints /\ print[d][1] = carries[d]
  BY DEF Mark, Settled, Identified
<1>2. QED
  BY <1>1, MarkKeeps DEF Registered

LEMMA OriginalInit == Init => Original
  BY DEF Init, Original

LEMMA OriginalStep ==
  TypeOK /\ Settled /\ Tagged /\ Original /\ [Next]_vars => Original'
<1> SUFFICES ASSUME TypeOK, Settled, Tagged, Original, [Next]_vars, NEW d \in Deliveries,
                    Printed(carries'[d]), carries'[d] \notin forgotten', passes'[d] > 0
             PROVE  \E i \in 1 .. Len(registry') : registry'[i] = <<carries'[d], NoTag>>
  BY DEF Original, Printed, Registered
<1> USE DEF library, message, call, history
<1>1. at[d] # "idle"
  <2>1. at[d] = "idle" => passes'[d] = passes[d]
    BY DEF Next, Process, Arrive, Identify, Look, Record, Find, Mark, Tag, Forward, Age, vars, TypeOK
  <2>2. QED
    BY <2>1 DEF Settled
<1>2. carries'[d] = carries[d] /\ carries[d] \notin forgotten /\ passes[d] \in Nat
  BY <1>1, Onward
<1>3. ASSUME Passed(carries[d])
      PROVE  \E i \in 1 .. Len(registry') : registry'[i] = <<carries[d], NoTag>>
  <2>1. Registered(<<carries[d], NoTag>>)
    BY <1>2, <1>3 DEF Passed, Original
  <2>2. <<carries[d], NoTag>>[1] \notin forgotten'
    BY <1>2
  <2>3. QED
    BY <2>1, <2>2, Keeps
<1>4. CASE passes[d] > 0
  BY <1>2, <1>3, <1>4 DEF Passed
<1>5. CASE ~(passes[d] > 0)
  <2>1. Mark(d)
    BY <1>2, <1>5 DEF Next, Process, Arrive, Identify, Look, Record, Find, Mark, Tag, Forward, Age,
       vars, TypeOK
  <2>2. /\ print[d] = <<carries[d], print[d][2]>>
        /\ print[d][2] \in Tags \cup {NoTag}
    <3>1. print[d] \in Fingerprints /\ print[d][1] = carries[d] /\ print[d][2] # NoMatch
      BY <1>2, <2>1 DEF Mark, Settled, Tagged, Identified, Printed
    <3>2. QED
      BY <3>1 DEF Fingerprints
  <2>3. CASE print[d][2] = NoTag
    BY <1>2, <2>1, <2>2, <2>3, MarkRegisters
  <2>4. CASE print[d][2] \in Tags
    <3>1. Passed(carries[d])
      BY <2>1, <2>4 DEF Mark, Tagged, Identified
    <3>2. QED
      BY <1>2, <1>3, <3>1
  <2>5. QED
    BY <2>2, <2>3, <2>4
<1>6. QED
  BY <1>4, <1>5

LEMMA LonelyInit == Init => Lonely
  BY DEF Init, Lonely, Identified

\* A delivery that shares its metadata with no other did not before.
LEMMA AloneBefore ==
  ASSUME TypeOK, Settled, [Next]_vars, NEW d \in Deliveries, at[d] # "idle",
         \A e \in Deliveries \ {d} : meta'[e] # meta'[d]
  PROVE  Alone(d)
<1> SUFFICES ASSUME NEW e \in Deliveries \ {d}, meta[e] = meta[d] PROVE FALSE
  BY DEF Alone
<1>1. at[e] # "idle"
  <2>1. carries[e] = carries[d] \/ meta[e] # e
    BY DEF Settled
  <2>2. carries[d] \in Messages
    BY DEF Settled
  <2>3. QED
    BY <2>1, <2>2, PreventionAssumption DEF Settled
<1>2. QED
  BY <1>1, Onward

LEMMA LonelyStep == TypeOK /\ Settled /\ Lonely /\ [Next]_vars => Lonely'
<1> SUFFICES ASSUME TypeOK, Settled, Lonely, [Next]_vars, NEW d \in Deliveries,
                    carries'[d] \notin Objects \cup Unstamped, carries'[d] \notin forgotten',
                    \A e \in Deliveries \ {d} : meta'[e] # meta'[d]
             PROVE  /\ passes'[d] = 0 => tag'[meta'[d]] = NoTag
                    /\ passes'[d] > 0 => at'[d] = "tag" \/ tag'[meta'[d]] # NoTag
                    /\ at'[d] = "tag" => passes'[d] = 1
                    /\ passes'[d] > 1 =>
                          \E i \in 1 .. Len(registry') :
                              registry'[i] = <<carries'[d], tag'[meta'[d]]>>
                    /\ at'[d] \in Identified => print'[d] = PrintOf(carries'[d], tag'[meta'[d]])
                    /\ at'[d] = "mark" => passes'[d] <= 1
                    /\ passes'[d] <= 2
  BY DEF Lonely, Alone, Registered, PrintOf, RequestOf
<1> USE DEF library, message, call, history, Identified
<1> DEFINE Goal == /\ passes'[d] = 0 => tag'[meta'[d]] = NoTag
                   /\ passes'[d] > 0 => at'[d] = "tag" \/ tag'[meta'[d]] # NoTag
                   /\ at'[d] = "tag" => passes'[d] = 1
                   /\ passes'[d] > 1 =>
                          \E i \in 1 .. Len(registry') :
                              registry'[i] = <<carries'[d], tag'[meta'[d]]>>
                   /\ at'[d] \in Identified => print'[d] = PrintOf(carries'[d], tag'[meta'[d]])
                   /\ at'[d] = "mark" => passes'[d] <= 1
                   /\ passes'[d] <= 2
<1> SUFFICES Goal
  OBVIOUS
<1>1. CASE \E m \in Messages : Arrive(d, m)
  <2>1. PICK m \in Messages : Arrive(d, m)
    BY <1>1
  <2>2. PICK c \in {d} \cup {meta[e] : e \in {f \in Deliveries : carries[f] = m}} :
          meta' = [meta EXCEPT ![d] = c]
    BY <2>1 DEF Arrive
  <2>3. /\ at[d] = "idle" /\ at'[d] = "identify" /\ passes' = passes /\ tag' = tag
        /\ meta'[d] = c
    BY <2>1, <2>2 DEF Arrive, TypeOK
  <2>4. c = d
    <3>1. SUFFICES ASSUME NEW e \in Deliveries, carries[e] = m, c = meta[e], c # d PROVE FALSE
      BY <2>2
    <3>2. meta[c] = c /\ c \in Deliveries
      BY <3>1 DEF Settled, TypeOK
    <3>3. QED
      BY <2>2, <2>3, <3>1, <3>2 DEF TypeOK
  <2>5. QED
    BY <2>3, <2>4 DEF Settled
<1>2. CASE at[d] = "idle" /\ ~\E m \in Messages : Arrive(d, m)
  <2>1. at'[d] = "idle" /\ passes'[d] = 0 /\ meta'[d] = d
    BY <1>2 DEF Next, Process, Arrive, Identify, Look, Record, Find, Mark, Tag, Forward, Age, vars,
             TypeOK, Settled
  <2>2. tag'[d] = NoTag
    <3>1. tag[d] = NoTag
      BY <1>2 DEF Settled
    <3>2. SUFFICES ASSUME tag'[d] # tag[d] PROVE FALSE
      BY <3>1
    <3>3. PICK f \in Deliveries : Tag(f) /\ meta[f] = d
      BY <3>2, TagSteps
    <3>4. carries[f] = carries[d] /\ carries[f] \in Messages
      BY <3>3 DEF Tag, Settled
    <3>5. QED
      BY <1>2, <3>4, PreventionAssumption DEF Settled
  <2>3. QED
    BY <2>1, <2>2
<1>3. CASE at[d] # "idle"
  <2> DEFINE t == tag[meta[d]]
  <2>1. /\ carries'[d] = carries[d] /\ meta'[d] = meta[d] /\ carries[d] \notin forgotten
        /\ passes[d] \in Nat /\ t \in Tags \cup {NoTag} /\ carries[d] \in Messages
        /\ meta[d] \in Deliveries
    BY <1>3, Onward DEF TypeOK, Settled
  <2>2. Alone(d)
    BY <1>3, AloneBefore
  <2>3. /\ passes[d] = 0 => t = NoTag
        /\ passes[d] > 0 => at[d] = "tag" \/ t # NoTag
        /\ at[d] = "tag" => passes[d] = 1
        /\ passes[d] > 1 => Registered(<<carries[d], t>>)
        /\ at[d] \in Identified => print[d] = PrintOf(carries[d], t)
        /\ at[d] = "mark" => passes[d] <= 1
        /\ passes[d] <= 2
    BY <2>1, <2>2 DEF Lonely
  <2>4. ~Tag(d) => tag'[meta[d]] = t
    BY <2>1, <2>2, TagSteps DEF Alone
  <2> HIDE DEF t
  <2>5. passes[d] > 1 => \E i \in 1 .. Len(registry') : registry'[i] = <<carries[d], t>>
    <3>1. <<carries[d], t>>[1] \notin forgotten'
      BY <2>1
    <3>2. QED
      BY <2>3, <3>1, Keeps
  <2>6. t # NoTag => PrintOf(carries[d], t) = <<carries[d], t>> /\ t # NoMatch
    BY <2>1, PrintTyped, PreventionAssumption
  <2>7. CASE Identify(d)
    <3>1. /\ at[d] = "identify" /\ at'[d] \in {"find", "look"} /\ passes' = passes
          /\ print'[d] = PrintOf(carries[d], t)
      BY <2>7 DEF Identify, TypeOK, t
    <3>2. ~Tag(d)
      BY <3>1 DEF Tag
    <3>3. QED
      BY <2>1, <2>3, <2>4, <2>5, <3>1, <3>2
  <2>8. CASE Look(d) \/ Record(d)
    <3>1. /\ at[d] \in {"look", "record"} /\ at'[d] \in {"refused", "record", "find"}
          /\ passes' = passes /\ print' = print
      BY <2>8 DEF Look, Record, TypeOK
    <3>2. ~Tag(d)
      BY <3>1 DEF Tag
    <3>3. QED
      BY <2>1, <2>3, <2>4, <2>5, <3>1, <3>2
  <2>9. CASE Find(d)
    <3>1. /\ at[d] = "find" /\ at'[d] \in {"refused", "mark"} /\ passes' = passes
          /\ print' = print
          /\ at'[d] = "mark" => ~Contains(registry', print[d]) \/ Fresh(print[d])
      BY <2>9 DEF Find, TypeOK
    <3>2. ~Tag(d)
      BY <3>1 DEF Tag
    <3>3. at'[d] = "mark" => passes[d] <= 1
      <4>1. SUFFICES ASSUME passes[d] > 1, at'[d] = "mark" PROVE FALSE
        BY <2>1
      <4>2. print[d] = <<carries[d], t>> /\ ~Fresh(print[d])
        BY <2>1, <2>3, <2>6, <3>1, <4>1 DEF Fresh
      <4>3. Contains(registry', print[d])
        BY <2>5, <4>1, <4>2 DEF Contains
      <4>4. QED
        BY <3>1, <4>1, <4>2, <4>3
    <3>4. QED
      BY <2>1, <2>3, <2>4, <2>5, <3>1, <3>2, <3>3
  <2>10. CASE Mark(d)
    <3>1. /\ at[d] = "mark" /\ passes'[d] = passes[d] + 1
          /\ at'[d] = IF t # NoTag THEN "admitted" ELSE "tag"
      BY <2>1, <2>10 DEF Mark, TypeOK, t
    <3>2. ~Tag(d)
      BY <3>1 DEF Tag
    <3>3. CASE t = NoTag
      BY <2>1, <2>3, <2>4, <3>1, <3>2, <3>3
    <3>4. CASE t # NoTag
      <4>1. print[d] = <<carries[d], t>>
        BY <2>3, <2>6, <3>1, <3>4
      <4>2. \E i \in 1 .. Len(registry') : registry'[i] = <<carries[d], t>>
        BY <2>1, <2>10, <4>1, MarkRegisters
      <4>3. QED
        BY <2>1, <2>3, <2>4, <3>1, <3>2, <3>4, <4>2
    <3>5. QED
      BY <3>3, <3>4
  <2>11. CASE Tag(d)
    <3>1. /\ at[d] = "tag" /\ at'[d] = "admitted" /\ passes' = passes
          /\ tag'[meta[d]] = <<d, passes[d]>>
      BY <2>1, <2>11 DEF Tag, TypeOK
    <3>2. <<d, passes[d]>> # NoTag
      BY <2>1, PreventionAssumption DEF Tags
    <3>3. QED
      BY <2>1, <2>3, <3>1, <3>2
  <2>12. CASE Forward(d)
    <3>1. at[d] = "admitted" /\ at'[d] = "identify" /\ passes' = passes
      BY <2>12 DEF Forward, TypeOK
    <3>2. ~Tag(d)
      BY <3>1 DEF Tag
    <3>3. QED
      BY <2>1, <2>3, <2>4, <2>5, <3>1, <3>2
  <2>13. CASE ~(Process(d) \/ Forward(d))
    <3>1. at'[d] = at[d] /\ passes'[d] = passes[d] /\ print'[d] = print[d] /\ ~Tag(d)
      BY <1>3, <2>13, OwnSteps DEF Process
    <3>2. QED
      BY <2>1, <2>3, <2>4, <2>5, <3>1
  <2>14. QED
    BY <2>7, <2>8, <2>9, <2>10, <2>11, <2>12, <2>13 DEF Process
<1>4. QED
  BY <1>1, <1>2, <1>3

LEMMA AfterInit == Init => AfterTracked /\ AfterPrinted
  BY DEF Init, AfterTracked, AfterPrinted

LEMMA AfterTrackedStep ==
  TypeOK /\ Settled /\ AfterTracked /\ Recorded' /\ [Next]_vars => AfterTracked'
<1> SUFFICES ASSUME TypeOK, Settled, AfterTracked, Recorded', [Next]_vars,
                    NEW d \in Deliveries, NEW e \in before'[d]
             PROVE  /\ passes'[e] > 0
                    /\ carries'[d] = carries'[e] /\ Tracked(carries'[d])
                       /\ carries'[d] \notin forgotten'
                         => passes'[d] = 0 /\ at'[d] \notin {"record", "find", "mark"}
  BY DEF AfterTracked, Tracked
<1> USE DEF library, message, call, history
<1>1. CASE \E m \in Messages : Arrive(d, m)
  <2>1. /\ before'[d] = {f \in Deliveries : passes[f] > 0} /\ at'[d] = "identify"
        /\ passes' = passes /\ passes[d] = 0
    BY <1>1 DEF Arrive, Settled, TypeOK
  <2>2. QED
    BY <2>1
<1>2. CASE ~\E m \in Messages : Arrive(d, m)
  <2>1. before'[d] = before[d]
    BY <1>2 DEF Next, Process, Arrive, Identify, Look, Record, Find, Mark, Tag, Forward, Age, vars,
             TypeOK
  <2>2. e \in Deliveries /\ passes[e] > 0 /\ at[d] # "idle" /\ at[e] # "idle"
    BY <2>1 DEF AfterTracked, Settled, TypeOK
  <2>3. passes'[e] > 0 /\ carries'[e] = carries[e] /\ carries'[d] = carries[d]
    BY <2>2, Onward
  <2>4. SUFFICES ASSUME carries[d] = carries[e], Tracked(carries[d]), carries[d] \notin forgotten'
                 PROVE  passes'[d] = 0 /\ at'[d] \notin {"record", "find", "mark"}
    BY <2>3
  <2>5. passes[d] = 0 /\ at[d] \notin {"record", "find", "mark"}
    BY <2>1, <2>4, Onward DEF AfterTracked
  <2>6. <<carries[d], NoTag>> \in seen'
    BY <2>2, <2>3, <2>4 DEF Recorded
  <2>7. CASE Identify(d)
    <3>1. request[d] = NoTag
      BY <2>4, <2>7 DEF Identify, Settled, Tracked
    <3>2. at'[d] = "look" /\ passes' = passes
      BY <2>7, <3>1, PreventionAssumption DEF Identify, TypeOK
    <3>3. QED
      BY <2>5, <3>2
  <2>8. CASE Look(d)
    <3>1. Combination(d) = <<carries[d], NoTag>>
      BY <2>4, <2>8 DEF Look, Settled, Tracked, Identified, Combination
    <3>2. at'[d] = "refused" /\ passes' = passes
      BY <2>4, <2>6, <2>8, <3>1 DEF Look, TypeOK, Tracked
    <3>3. QED
      BY <2>5, <3>2
  <2>9. CASE Tag(d) \/ Forward(d)
    BY <2>5, <2>9 DEF Tag, Forward, TypeOK
  <2>10. CASE ~(Identify(d) \/ Look(d) \/ Tag(d) \/ Forward(d))
    <3>1. ~(Process(d) \/ Forward(d))
      BY <2>5, <2>10 DEF Process, Record, Find, Mark
    <3>2. QED
      BY <2>2, <2>5, <3>1, OwnSteps
  <2>11. QED
    BY <2>7, <2>8, <2>9, <2>10
<1>3. QED
  BY <1>1, <1>2

LEMMA AfterPrintedStep ==
  TypeOK /\ Settled /\ AfterTracked /\ AfterPrinted /\ Original /\ [Next]_vars
    => AfterPrinted'
<1> SUFFICES ASSUME TypeOK, Settled, AfterTracked, AfterPrinted, Original, [Next]_vars,
                    NEW d \in Deliveries, NEW e \in before'[meta'[d]],
                    carries'[d] = carries'[e], Printed(carries'[d]), carries'[d] \notin forgotten'
             PROVE  /\ passes'[d] = 0 /\ at'[d] # "mark" /\ tag'[meta'[d]] = NoTag
                    /\ at'[d] \in Identified => print'[d] = <<carries'[d], NoTag>>
  BY DEF AfterPrinted, Printed
<1> USE DEF library, message, call, history, Identified
\* Nobody who has been admitted shares the metadata of such a delivery.
<1>1. ASSUME NEW f \in Deliveries, NEW b \in before[meta[f]], carries[f] = carries[b],
             Printed(carries[f]), carries[f] \notin forgotten'
      PROVE  /\ passes[f] = 0 /\ at[f] # "mark" /\ tag[meta[f]] = NoTag
             /\ at[f] \in Identified => print[f] = <<carries[f], NoTag>>
             /\ tag'[meta[f]] = NoTag
  <2>1. /\ passes[f] = 0 /\ at[f] # "mark" /\ tag[meta[f]] = NoTag
        /\ at[f] \in Identified => print[f] = <<carries[f], NoTag>>
    BY <1>1, Onward DEF AfterPrinted
  <2>2. tag'[meta[f]] = tag[meta[f]]
    <3>1. SUFFICES ASSUME NEW g \in Deliveries, Tag(g), meta[g] = meta[f] PROVE FALSE
      BY TagSteps DEF TypeOK
    <3>2. carries[g] = carries[f] /\ passes[g] > 0
      BY <3>1 DEF Tag, Settled
    <3>3. passes[g] = 0
      BY <1>1, <3>1, <3>2, Onward DEF AfterPrinted
    <3>4. QED
      BY <3>2, <3>3
  <2>3. QED
    BY <2>1, <2>2
<1>2. CASE \E m \in Messages : Arrive(d, m)
  <2>1. PICK m \in Messages : Arrive(d, m)
    BY <1>2
  <2>2. PICK c \in {d} \cup {meta[f] : f \in {g \in Deliveries : carries[g] = m}} :
          meta' = [meta EXCEPT ![d] = c]
    BY <2>1 DEF Arrive
  <2>3. /\ at[d] = "idle" /\ at'[d] = "identify" /\ passes' = passes /\ tag' = tag
        /\ meta'[d] = c /\ carries' = [carries EXCEPT ![d] = m] /\ passes[d] = 0
        /\ before' = [before EXCEPT ![d] = {f \in Deliveries : passes[f] > 0}]
        /\ carries'[d] = m /\ carries[d] = NoMessage /\ m # NoMessage
    BY <2>1, <2>2, PreventionAssumption DEF Arrive, TypeOK, Settled
  <2>4. CASE c = d
    BY <2>3, <2>4 DEF Settled
  <2>5. CASE c # d
    <3>1. c \in Deliveries /\ carries[c] = m /\ meta[c] = c
      BY <2>2, <2>5 DEF Settled, TypeOK
    <3>2. e \in before[c]
      BY <2>3, <2>5, <3>1 DEF TypeOK
    <3>3. passes[e] > 0
      BY <3>1, <3>2 DEF AfterTracked
    <3>4. e # d /\ e \in Deliveries
      BY <2>3, <3>1, <3>2, <3>3 DEF TypeOK
    <3>5. carries[e] = m
      BY <2>3, <3>4 DEF TypeOK
    <3>6. tag[c] = NoTag
      BY <1>1, <2>3, <3>1, <3>2, <3>5
    <3>7. QED
      BY <2>3, <3>6
  <2>6. QED
    BY <2>4, <2>5
<1>3. CASE at[d] = "idle" /\ ~\E m \in Messages : Arrive(d, m)
  <2>1. before'[d] = {} /\ meta'[d] = d
    BY <1>3 DEF Next, Process, Arrive, Identify, Look, Record, Find, Mark, Tag, Forward, Age, vars,
             TypeOK, Settled
  <2>2. QED
    BY <2>1
<1>4. CASE at[d] # "idle"
  <2>1. carries'[d] = carries[d] /\ meta'[d] = meta[d] /\ meta[d] \in Deliveries
        /\ carries[d] \in Messages
    BY <1>4, Onward DEF TypeOK, Settled
  <2>2. at[meta[d]] # "idle"
    BY <2>1, PreventionAssumption DEF Settled
  <2>3. e \in before[meta[d]] /\ e \in Deliveries
    BY <2>1, <2>2, Onward DEF TypeOK
  <2>4. passes[e] > 0 /\ at[e] # "idle"
    BY <2>1, <2>3 DEF AfterTracked, Settled
  <2>5. carries[e] = carries[d]
    BY <2>1, <2>3, <2>4, Onward
  <2>6. /\ passes[d] = 0 /\ at[d] # "mark" /\ tag'[meta[d]] = NoTag /\ tag[meta[d]] = NoTag
        /\ at[d] \in Identified => print[d] = <<carries[d], NoTag>>
    BY <1>1, <2>1, <2>3, <2>5
  <2>7. CASE Identify(d)
    <3>1. print'[d] = PrintOf(carries[d], NoTag) /\ at'[d] \in {"find", "look"}
          /\ passes' = passes
      BY <2>6, <2>7 DEF Identify, TypeOK
    <3>2. PrintOf(carries[d], NoTag) = <<carries[d], NoTag>>
      BY <2>1, PrintTyped
    <3>3. QED
      BY <2>1, <2>6, <3>1, <3>2
  <2>8. CASE Look(d) \/ Record(d)
    <3>1. at[d] \in Identified /\ at'[d] # "mark" /\ passes' = passes /\ print' = print
      BY <2>8 DEF Look, Record, TypeOK
    <3>2. QED
      BY <2>1, <2>6, <3>1
  <2>9. CASE Find(d)
    <3>1. print[d] = <<carries[d], NoTag>> /\ ~Fresh(print[d])
      BY <2>6, <2>9, PreventionAssumption DEF Find, Fresh
    <3>2. \E i \in 1 .. Len(registry') : registry'[i] = print[d]
      <4>1. Registered(<<carries[d], NoTag>>)
        BY <2>1, <2>3, <2>4, <2>5, Onward DEF Original
      <4>2. <<carries[d], NoTag>>[1] \notin forgotten'
        BY <2>1
      <4>3. QED
        BY <3>1, <4>1, <4>2, Keeps
    <3>3. at'[d] = "refused" /\ passes' = passes
      BY <2>9, <3>1, <3>2 DEF Find, Contains, TypeOK
    <3>4. QED
      BY <2>1, <2>6, <3>3
  <2>10. CASE Tag(d) \/ Forward(d)
    <3>1. passes[d] > 0
      BY <2>10 DEF Tag, Forward, Settled
    <3>2. QED
      BY <2>6, <3>1
  <2>11. CASE ~(Identify(d) \/ Look(d) \/ Record(d) \/ Find(d) \/ Tag(d) \/ Forward(d))
    <3>1. ~(Process(d) \/ Forward(d))
      BY <2>6, <2>11 DEF Process, Mark
    <3>2. QED
      BY <1>4, <2>1, <2>6, <3>1, OwnSteps
  <2>12. QED
    BY <2>7, <2>8, <2>9, <2>10, <2>11
<1>5. QED
  BY <1>2, <1>3, <1>4

LEMMA ProceedsStep ==
  TypeOK /\ Settled /\ SeenHere /\ RegisteredHere /\ SomeDeliveryProceeds /\ [Next]_vars
    => SomeDeliveryProceeds'
<1> SUFFICES ASSUME TypeOK, Settled, SeenHere, RegisteredHere, SomeDeliveryProceeds, [Next]_vars,
                    NEW d \in Deliveries, at'[d] = "refused", passes'[d] = 0
             PROVE  \E e \in Deliveries \ {d} :
                      /\ carries'[e] = carries'[d]
                      /\ passes'[e] > 0 \/ at'[e] \in {"record", "find", "mark"}
  BY DEF SomeDeliveryProceeds
<1> USE DEF library, message, call, history
<1>1. Look(d) \/ Find(d) \/ at[d] = "refused"
  BY DEF Next, Process, Arrive, Identify, Look, Record, Find, Mark, Tag, Forward, Age, vars, TypeOK
<1>2. at[d] # "idle" /\ carries'[d] = carries[d] /\ passes[d] = 0
  BY <1>1, Onward DEF Look, Find
\* An admitted delivery of the message stays, and one on its way.
<1>3. ASSUME Passed(carries[d])
      PROVE  \E e \in Deliveries \ {d} :
                      /\ carries'[e] = carries'[d]
                      /\ passes'[e] > 0 \/ at'[e] \in {"record", "find", "mark"}
  <2>1. PICK e \in Deliveries : carries'[e] = carries[d] /\ passes'[e] > 0
    BY <1>3, PassedStays DEF Passed
  <2>2. e # d
    BY <2>1
  <2>3. QED
    BY <1>2, <2>1, <2>2
<1>4. ASSUME NEW e \in Deliveries \ {d}, carries[e] = carries[d], at[e] \in {"record", "find", "mark"}
      PROVE  \E f \in Deliveries \ {d} :
                      /\ carries'[f] = carries'[d]
                      /\ passes'[f] > 0 \/ at'[f] \in {"record", "find", "mark"}
  <2>1. carries'[e] = carries'[d]
    BY <1>2, <1>4, Onward
  <2>2. CASE Find(e) /\ at'[e] # "mark"
    BY <1>3, <1>4, <2>2, FoundPassed
  <2>3. CASE Mark(e)
    <3>1. passes'[e] > 0
      BY <2>3 DEF Mark, TypeOK
    <3>2. QED
      BY <2>1, <3>1
  <2>4. CASE ~Mark(e) /\ ~(Find(e) /\ at'[e] # "mark")
    <3>1. at'[e] \in {"record", "find", "mark"}
      <4>1. CASE Record(e) \/ Find(e)
        BY <2>4, <4>1 DEF Record, TypeOK
      <4>2. CASE ~(Record(e) \/ Find(e))
        <5>1. ~(Process(e) \/ Forward(e))
          BY <1>4, <2>4, <4>2 DEF Process, Identify, Look, Tag, Forward
        <5>2. QED
          BY <1>4, <5>1, OwnSteps
      <4>3. QED
        BY <4>1, <4>2
    <3>2. QED
      BY <2>1, <3>1
  <2>5. QED
    BY <2>2, <2>3, <2>4
<1>5. CASE Look(d)
  <2>1. Combination(d) \in seen /\ at[d] = "look"
    BY <1>5 DEF Look, TypeOK
  <2>2. PICK e \in Deliveries :
          carries[e] = carries[d] /\ (passes[e] > 0 \/ at[e] \in {"find", "mark"})
    BY <2>1 DEF SeenHere, Combination
  <2>3. CASE passes[e] > 0
    BY <1>3, <2>2, <2>3 DEF Passed
  <2>4. CASE at[e] \in {"find", "mark"}
    BY <1>4, <2>1, <2>2, <2>4
  <2>5. QED
    BY <2>2, <2>3, <2>4
<1>6. CASE Find(d)
  <2>1. at'[d] # "mark"
    OBVIOUS
  <2>2. QED
    BY <1>3, <1>6, <2>1, FoundPassed
<1>7. CASE at[d] = "refused"
  <2>1. PICK e \in Deliveries \ {d} :
          carries[e] = carries[d] /\ (passes[e] > 0 \/ at[e] \in {"record", "find", "mark"})
    BY <1>2, <1>7 DEF SomeDeliveryProceeds
  <2>2. QED
    BY <1>3, <1>4, <2>1 DEF Passed
<1>8. QED
  BY <1>1, <1>5, <1>6, <1>7

-----------------------------------------------------------------------------
LEMMA Invariants ==
  Spec => []( /\ TypeOK /\ Settled /\ Tagged /\ SeenHere /\ RegisteredHere /\ Recorded
              /\ Original /\ Lonely /\ AfterTracked /\ AfterPrinted )
  BY TypeInit, TypeStep, TaggedStep, HereInit, HereStep, RecordedInit, RecordedStep,
     OriginalInit, OriginalStep, LonelyInit, LonelyStep, AfterInit, AfterTrackedStep,
     AfterPrintedStep, PTL DEF Spec

\* Every variable of the service keeps its type: the registry stays within its
\* limit.
THEOREM ServiceTyped == Spec => []TypeOK
  BY Invariants, PTL

\* A message that its handlers send round and round is stopped after one guard
\* if the tracking library knows its request, and after two if it is a stamped
\* dict that no other delivery carries.
THEOREM LoopsStop == Spec => []LoopsEnd
<1>1. TypeOK /\ Recorded /\ Lonely => LoopsEnd
  BY DEF Recorded, Lonely, LoopsEnd
<1>2. QED
  BY <1>1, Invariants, PTL

\* Of two deliveries of a message both are admitted only if the second began
\* before the first was admitted, or brings an object the first one tagged.
THEOREM DuplicatesRefused == Spec => []DuplicatesOverlap
<1>1. AfterTracked /\ AfterPrinted => DuplicatesOverlap
  BY DEF AfterTracked, AfterPrinted, DuplicatesOverlap, Tracked, Printed
<1>2. QED
  BY <1>1, Invariants, PTL

\* The first guard never refuses every delivery of a message.
THEOREM OneProceeds == Spec => []SomeDeliveryProceeds
<1>1. Init => SomeDeliveryProceeds
  BY DEF Init, SomeDeliveryProceeds
<1>2. QED
  BY <1>1, Invariants, ProceedsStep, PTL DEF Spec
=============================================================================
