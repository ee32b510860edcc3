---------------------------- MODULE DeliveryProof ----------------------------
(***************************************************************************)
(* What the sessions of a profile deliver.  Notifications never go         *)
(* backwards, whatever the sessions do (SeenInv).  A profile with one      *)
(* session that only listens gets each of them once (ListenerInv).  The    *)
(* commands of a user who waits are executed once, in order (CommandInv);  *)
(* those of a user who does not, never twice or out of order (NumbersInv). *)
(***************************************************************************)
EXTENDS FeedSystemProof

-----------------------------------------------------------------------------
(* Streams *)

\* The stream of a session, by its parts: what was printed (d) or waits to be
\* printed (p), and what is on its way (q).
LEMMA StreamProperties ==
  ASSUME NEW d \in Seq(Payloads), NEW p \in Seq(Payloads), NEW q \in Seq(Packets)
  PROVE  /\ d \o p \in Seq(Payloads)
         /\ (d \o p) \o Numbers(q) \in Seq(Payloads)
         /\ Len((d \o p) \o Numbers(q)) = Len(d \o p) + Len(q)
         /\ Len(d \o p) \in Nat /\ Len(q) \in Nat
         /\ \A i \in 1..Len(d \o p) : ((d \o p) \o Numbers(q))[i] = (d \o p)[i]
         /\ \A i \in 1..Len(q) :
              ((d \o p) \o Numbers(q))[Len(d \o p) + i] = q[i].data
<1>1. d \o p \in Seq(Payloads) /\ Len(d \o p) \in Nat
  BY ConcatProperties, LenProperties
<1>2. Len(q) \in Nat /\ \A i \in 1..Len(q) : q[i].data \in Payloads
  <2>1. \A i \in 1..Len(q) : q[i] \in Packets
    BY ElementOfSeq
  <2> QED
    BY <2>1, LenProperties DEF Packets
<1>3. Numbers(q) \in Seq(Payloads) /\ Len(Numbers(q)) = Len(q)
  BY <1>2 DEF Numbers
<1>4. \A i \in 1..Len(q) : Numbers(q)[i] = q[i].data
  BY DEF Numbers
<1> HIDE DEF Numbers
<1> DEFINE t == d \o p
           r == Numbers(q)
<1>5. t \in Seq(Payloads) /\ r \in Seq(Payloads) /\ Len(r) = Len(q)
  BY <1>1, <1>3
<1> HIDE DEF t, r
<1>6. /\ t \o r \in Seq(Payloads) /\ Len(t \o r) = Len(t) + Len(r)
      /\ \A i \in 1..Len(t) + Len(r) :
           (t \o r)[i] = IF i <= Len(t) THEN t[i] ELSE r[i - Len(t)]
  BY <1>5, ConcatProperties
<1>7. Len(t) \in Nat
  BY <1>5, LenProperties
<1>8. \A i \in 1..Len(t) : (t \o r)[i] = t[i]
  BY <1>2, <1>5, <1>6, <1>7
<1>9. \A i \in 1..Len(q) : (t \o r)[Len(t) + i] = r[i]
  BY <1>2, <1>5, <1>6, <1>7
<1> QED
  BY <1>1, <1>2, <1>4, <1>5, <1>6, <1>7, <1>8, <1>9 DEF t, r

\* Without some elements in the middle a sequence stays in order.
LEMMA DroppedInOrder ==
  ASSUME NEW q \in Seq(Payloads), NEW r \in Seq(Payloads), NEW n \in Nat, NEW k \in Nat,
         n <= Len(r), Len(r) = Len(q) - k,
         \A i \in 1..n : r[i] = q[i],
         \A i \in (n + 1)..Len(r) : r[i] = q[i + k],
         NEW m \in Nat, InOrder(q), UpTo(q, m)
  PROVE  InOrder(r) /\ UpTo(r, m)
<1> DEFINE place(i) == IF i <= n THEN i ELSE i + k
<1>1. Len(q) \in Nat /\ Len(r) \in Nat
  BY LenProperties
<1>2. \A i \in 1..Len(r) : place(i) \in 1..Len(q) /\ r[i] = q[place(i)]
  BY <1>1
<1>3. \A i, j \in 1..Len(r) : i <= j => place(i) <= place(j)
  BY <1>1
<1> HIDE DEF place
<1> QED
  BY <1>2, <1>3 DEF InOrder, UpTo

\* A packet that shows nothing, or the oldest notification of all that were
\* not popped, goes behind the others.
LEMMA AppendedInOrder ==
  ASSUME NEW q \in Seq(Payloads), NEW r \in Seq(Payloads), Len(r) = Len(q) + 1,
         \A i \in 1..Len(q) : r[i] = q[i],
         NEW m \in Nat, m > 0, r[Len(q) + 1] \in {NoData, m},
         InOrder(q), UpTo(q, m)
  PROVE  InOrder(r) /\ UpTo(r, m)
<1>1. Len(q) \in Nat
  BY LenProperties
<1>2. \A i \in 1..Len(r) : i \in 1..Len(q) \/ i = Len(q) + 1
  BY <1>1
<1>3. UpTo(r, m)
  BY <1>1, <1>2 DEF UpTo
<1>4. ASSUME NEW i \in 1..Len(r), NEW j \in 1..Len(r), i <= j, r[i] # NoData, r[j] # NoData
      PROVE  r[i] <= r[j]
  <2>1. CASE j \in 1..Len(q)
    <3>1. i \in 1..Len(q)
      BY <1>1, <1>4, <2>1
    <3> QED
      BY <1>1, <1>4, <2>1, <3>1 DEF InOrder
  <2>2. CASE j = Len(q) + 1
    <3>1. r[j] = m /\ r[i] \in 1..m
      BY <1>1, <1>3, <1>4, <2>2 DEF UpTo
    <3> QED
      BY <3>1
  <2> QED
    BY <1>2, <1>4, <2>1, <2>2
<1> QED
  BY <1>3, <1>4 DEF InOrder

\* What is shown last is the last element of what was taken in.
LEMMA ShownLast ==
  ASSUME NEW d \in Seq(Payloads), NEW p \in Seq(Payloads), NEW x \in Payloads
  PROVE  /\ Len(d \o Append(p, x)) = Len(d \o p) + 1
         /\ \A i \in 1..Len(d \o p) : (d \o Append(p, x))[i] = (d \o p)[i]
         /\ (d \o Append(p, x))[Len(d \o p) + 1] = x
<1>1. /\ Append(p, x) \in Seq(Payloads) /\ Len(Append(p, x)) = Len(p) + 1
      /\ \A i \in 1..Len(p) : Append(p, x)[i] = p[i]
      /\ Append(p, x)[Len(p) + 1] = x
  BY AppendProperties
<1>2. Len(d) \in Nat /\ Len(p) \in Nat
  BY LenProperties
<1>3. /\ Len(d \o p) = Len(d) + Len(p)
      /\ \A i \in 1 .. Len(d) + Len(p) :
           (d \o p)[i] = IF i <= Len(d) THEN d[i] ELSE p[i - Len(d)]
  BY ConcatProperties
<1> DEFINE new == Append(p, x)
<1>4. new \in Seq(Payloads)
  BY <1>1
<1> HIDE DEF new
<1>5. /\ Len(d \o new) = Len(d) + Len(new)
      /\ \A i \in 1 .. Len(d) + Len(new) :
           (d \o new)[i] = IF i <= Len(d) THEN d[i] ELSE new[i - Len(d)]
  BY <1>4, ConcatProperties
<1>6. Len(new) = Len(p) + 1 /\ new[Len(p) + 1] = x /\ \A i \in 1..Len(p) : new[i] = p[i]
  BY <1>1 DEF new
<1>7. \A i \in 1..Len(d \o p) : (d \o new)[i] = (d \o p)[i]
  BY <1>2, <1>3, <1>5, <1>6
<1>8. (d \o new)[Len(d \o p) + 1] = x /\ Len(d \o new) = Len(d \o p) + 1
  BY <1>2, <1>3, <1>5, <1>6
<1> QED
  BY <1>7, <1>8 DEF new

\* Reading drops the first k packets; the first of them may be shown.
LEMMA ReadInOrder ==
  ASSUME NEW d \in Seq(Payloads), NEW p \in Seq(Payloads), NEW q \in Seq(Packets),
         NEW batch \in Batches(q), NEW m \in Nat,
         InOrder((d \o p) \o Numbers(q)), UpTo((d \o p) \o Numbers(q), m)
  PROVE  \A new \in {p, Append(p, Head(batch).data)} :
           /\ InOrder((d \o new) \o Numbers(After(q, batch)))
           /\ UpTo((d \o new) \o Numbers(After(q, batch)), m)
<1> DEFINE rest == After(q, batch)
           k == Len(batch)
           x == Head(batch).data
<1>1. /\ k \in 1..Len(q) /\ rest \in Seq(Packets) /\ Len(rest) = Len(q) - k
      /\ \A i \in 1..Len(rest) : rest[i] = q[i + k]
      /\ q # <<>> /\ Head(batch) \in Packets /\ Head(batch) = Head(q)
  BY BatchProperties
<1>2. Head(q) = q[1] /\ x = q[1].data /\ x \in Payloads /\ 1 \in 1..Len(q)
  <2>1. Head(q) = q[1]
    BY <1>1
  <2> QED
    BY <1>1, <2>1, LenProperties DEF Packets
<1> HIDE DEF rest, k, x
<1>3. /\ d \o p \in Seq(Payloads) /\ Len(d \o p) \in Nat /\ Len(q) \in Nat
      /\ (d \o p) \o Numbers(q) \in Seq(Payloads)
      /\ Len((d \o p) \o Numbers(q)) = Len(d \o p) + Len(q)
      /\ \A i \in 1..Len(d \o p) : ((d \o p) \o Numbers(q))[i] = (d \o p)[i]
      /\ \A i \in 1..Len(q) : ((d \o p) \o Numbers(q))[Len(d \o p) + i] = q[i].data
  BY StreamProperties
<1>4. /\ (d \o p) \o Numbers(rest) \in Seq(Payloads) /\ Len(rest) \in Nat
      /\ Len((d \o p) \o Numbers(rest)) = Len(d \o p) + Len(rest)
      /\ \A i \in 1..Len(d \o p) : ((d \o p) \o Numbers(rest))[i] = (d \o p)[i]
      /\ \A i \in 1..Len(rest) : ((d \o p) \o Numbers(rest))[Len(d \o p) + i] = rest[i].data
  BY <1>1, StreamProperties
<1>5. Append(p, x) \in Seq(Payloads)
  BY <1>2, AppendProperties
<1>6. /\ (d \o Append(p, x)) \o Numbers(rest) \in Seq(Payloads)
      /\ Len((d \o Append(p, x)) \o Numbers(rest)) = Len(d \o Append(p, x)) + Len(rest)
      /\ \A i \in 1..Len(d \o Append(p, x)) :
           ((d \o Append(p, x)) \o Numbers(rest))[i] = (d \o Append(p, x))[i]
      /\ \A i \in 1..Len(rest) :
           ((d \o Append(p, x)) \o Numbers(rest))[Len(d \o Append(p, x)) + i] = rest[i].data
  BY <1>1, <1>5, StreamProperties
<1>7. /\ Len(d \o Append(p, x)) = Len(d \o p) + 1
      /\ \A i \in 1..Len(d \o p) : (d \o Append(p, x))[i] = (d \o p)[i]
      /\ (d \o Append(p, x))[Len(d \o p) + 1] = x
  BY <1>2, ShownLast
<1> DEFINE old == (d \o p) \o Numbers(q)
           n == Len(d \o p)
           same == (d \o p) \o Numbers(rest)
           more == (d \o Append(p, x)) \o Numbers(rest)
<1>8. InOrder(same) /\ UpTo(same, m)
  <2>1. \A i \in (n + 1)..Len(same) : same[i] = old[i + k]
    <3>1. ASSUME NEW i \in (n + 1)..Len(same)
          PROVE  same[i] = old[i + k]
      <4>1. i - n \in 1..Len(rest) /\ i - n + k \in 1..Len(q) /\ n + (i - n) = i
            /\ n + (i - n + k) = i + k
        BY <1>1, <1>3, <1>4
      <4>2. same[n + (i - n)] = rest[i - n].data
        BY <1>4, <4>1
      <4>3. old[n + (i - n + k)] = q[i - n + k].data
        BY <1>3, <4>1
      <4> QED
        BY <1>1, <4>1, <4>2, <4>3
    <3> QED
      BY <3>1
  <2>2. /\ old \in Seq(Payloads) /\ same \in Seq(Payloads) /\ n \in Nat /\ k \in Nat
        /\ n <= Len(same) /\ Len(same) = Len(old) - k
        /\ \A i \in 1..n : same[i] = old[i]
        /\ InOrder(old) /\ UpTo(old, m)
    BY <1>1, <1>3, <1>4
  <2> HIDE DEF old, same, n
  <2> QED
    BY <2>1, <2>2, DroppedInOrder
<1>9. InOrder(more) /\ UpTo(more, m)
  <2>1. \A i \in (n + 2)..Len(more) : more[i] = old[i + (k - 1)]
    <3>1. ASSUME NEW i \in (n + 2)..Len(more)
          PROVE  more[i] = old[i + (k - 1)]
      <4>1. i - n - 1 \in 1..Len(rest) /\ i - n - 1 + k \in 1..Len(q)
            /\ (n + 1) + (i - n - 1) = i /\ n + (i - n - 1 + k) = i + (k - 1)
        BY <1>1, <1>3, <1>4, <1>6, <1>7
      <4>2. more[(n + 1) + (i - n - 1)] = rest[i - n - 1].data
        BY <1>6, <1>7, <4>1
      <4>3. old[n + (i - n - 1 + k)] = q[i - n - 1 + k].data
        BY <1>3, <4>1
      <4> QED
        BY <1>1, <4>1, <4>2, <4>3
    <3> QED
      BY <3>1
  <2>2. old[n + 1] = x /\ more[n + 1] = x
    BY <1>2, <1>3, <1>6, <1>7
  <2>3. \A i \in 1..n : more[i] = old[i]
    BY <1>3, <1>6, <1>7
  <2>4. /\ old \in Seq(Payloads) /\ more \in Seq(Payloads) /\ n + 1 \in Nat /\ k - 1 \in Nat
        /\ n + 1 <= Len(more) /\ Len(more) = Len(old) - (k - 1)
        /\ n \in Nat /\ InOrder(old) /\ UpTo(old, m)
    BY <1>1, <1>3, <1>4, <1>6, <1>7
  <2> HIDE DEF old, more, n
  <2>5. \A i \in 1..(n + 1) : more[i] = old[i]
    BY <2>2, <2>3, <2>4
  <2>6. \A i \in ((n + 1) + 1)..Len(more) : more[i] = old[i + (k - 1)]
    BY <2>1, <2>4
  <2> QED
    BY <2>4, <2>5, <2>6, DroppedInOrder
<1> QED
  BY <1>8, <1>9 DEF x, rest

-----------------------------------------------------------------------------
(* Streams stay in order *)

\* The stream of session t is in order and shows at most notification m.
Fine(t, m) == InOrder(Stream(t)) /\ UpTo(Stream(t), m)

\* The number of the oldest notification that was not popped.
LEMMA OldestType ==
  ASSUME ServerTypeOK, Numbered
  PROVE  /\ Oldest \in Nat /\ Oldest > 0
         /\ messages_to_receive # <<>> => Head(messages_to_receive) = Oldest
<1>1. Len(messages_to_receive) \in Nat /\ arrived \in Nat
  BY LenProperties DEF ServerTypeOK
<1>2. ASSUME messages_to_receive # <<>>
      PROVE  Head(messages_to_receive) = Oldest
  <2>1. 1 \in 1..Len(messages_to_receive) /\ Head(messages_to_receive) = messages_to_receive[1]
    BY <1>1, <1>2, EmptySeq DEF ServerTypeOK
  <2> QED
    BY <1>1, <2>1 DEF Numbered, Oldest
<1> QED
  BY <1>1, <1>2 DEF Oldest, Numbered

\* What the server writes shows nothing, or the oldest notification.
LEMMA WriteInOrder ==
  ASSUME WireTypeOK, ClientTypeOK, NEW s \in Sessions, NEW p \in Packets, ServerWrites(s, p),
         NEW m \in Nat, m > 0, p.data \in {NoData, m},
         \A t \in Sessions : Fine(t, m), UNCHANGED <<displayed, packets_received>>
  PROVE  \A t \in Sessions : InOrder(Stream(t)') /\ UpTo(Stream(t)', m)
<1>1. \A t \in Sessions : toClient'[t] = toClient[t] => Stream(t)' = Stream(t)
  BY DEF Stream, Accepted
<1>2. \A t \in Sessions \ {s} : toClient'[t] = toClient[t]
  BY DEF ServerWrites, Written, WireTypeOK
<1>3. CASE toClient'[s] = Append(toClient[s], p)
  <2> DEFINE d == displayed[s]
             r == packets_received[s]
             q == toClient[s]
             q2 == Append(toClient[s], p)
  <2>1. d \in Seq(Payloads) /\ r \in Seq(Payloads) /\ q \in Seq(Packets)
    BY DEF ClientTypeOK, WireTypeOK
  <2>2. /\ q2 \in Seq(Packets) /\ Len(q2) = Len(q) + 1
        /\ \A i \in 1..Len(q) : q2[i] = q[i]
        /\ q2[Len(q) + 1] = p
    BY <2>1, AppendProperties
  <2>3. Stream(s) = (d \o r) \o Numbers(q) /\ Stream(s)' = (d \o r) \o Numbers(q2)
    BY <1>3 DEF Stream, Accepted
  <2>4. InOrder((d \o r) \o Numbers(q)) /\ UpTo((d \o r) \o Numbers(q), m)
    BY <2>3 DEF Fine
  <2> HIDE DEF d, r, q, q2
  <2>5. /\ d \o r \in Seq(Payloads) /\ Len(d \o r) \in Nat /\ Len(q) \in Nat
        /\ (d \o r) \o Numbers(q) \in Seq(Payloads)
        /\ Len((d \o r) \o Numbers(q)) = Len(d \o r) + Len(q)
        /\ \A i \in 1..Len(d \o r) : ((d \o r) \o Numbers(q))[i] = (d \o r)[i]
        /\ \A i \in 1..Len(q) : ((d \o r) \o Numbers(q))[Len(d \o r) + i] = q[i].data
    BY <2>1, StreamProperties
  <2>6. /\ (d \o r) \o Numbers(q2) \in Seq(Payloads)
        /\ Len((d \o r) \o Numbers(q2)) = Len(d \o r) + Len(q2)
        /\ \A i \in 1..Len(d \o r) : ((d \o r) \o Numbers(q2))[i] = (d \o r)[i]
        /\ \A i \in 1..Len(q2) : ((d \o r) \o Numbers(q2))[Len(d \o r) + i] = q2[i].data
    BY <2>1, <2>2, StreamProperties
  <2> DEFINE old == (d \o r) \o Numbers(q)
             new == (d \o r) \o Numbers(q2)
             n == Len(d \o r)
  <2>7. \A i \in 1..Len(old) : new[i] = old[i]
    <3>1. ASSUME NEW i \in 1..Len(old)
          PROVE  new[i] = old[i]
      <4>1. CASE i \in 1..n
        BY <2>5, <2>6, <4>1
      <4>2. CASE i > n
        <5>1. i - n \in 1..Len(q) /\ i - n \in 1..Len(q2) /\ n + (i - n) = i
          BY <2>2, <2>5, <4>2, <3>1
        <5>2. new[n + (i - n)] = q2[i - n].data /\ old[n + (i - n)] = q[i - n].data
          BY <2>5, <2>6, <5>1
        <5> QED
          BY <2>2, <5>1, <5>2
      <4>3. i \in 1..n \/ i > n
        BY <2>5, <3>1
      <4> QED
        BY <4>1, <4>2, <4>3
    <3> QED
      BY <3>1
  <2>8. new[Len(old) + 1] = p.data /\ Len(new) = Len(old) + 1
    <3>1. Len(q2) \in 1..Len(q2) /\ Len(old) + 1 = n + Len(q2)
      BY <2>2, <2>5
    <3>2. new[n + Len(q2)] = q2[Len(q2)].data
      BY <2>6, <3>1
    <3> QED
      BY <2>2, <2>5, <2>6, <3>1, <3>2
  <2>9. old \in Seq(Payloads) /\ new \in Seq(Payloads) /\ InOrder(old) /\ UpTo(old, m)
    BY <2>4, <2>5, <2>6
  <2>10. Stream(s)' = new
    BY <2>3
  <2> HIDE DEF old, new, n
  <2>11. InOrder(new) /\ UpTo(new, m)
    BY <2>7, <2>8, <2>9, AppendedInOrder
  <2> QED
    BY <1>1, <1>2, <2>10, <2>11 DEF Fine
<1>4. CASE toClient'[s] = toClient[s]
  BY <1>1, <1>2, <1>4 DEF Fine
<1>5. toClient'[s] \in {toClient[s], Append(toClient[s], p)}
  BY DEF ServerWrites, Written, WireTypeOK
<1> QED
  BY <1>3, <1>4, <1>5

\* What a client reads, shown or not, was in order.
LEMMA ReadKeepsOrder ==
  ASSUME WireTypeOK, ClientTypeOK, NEW s \in Sessions, NEW batch, Reading(s, batch),
         NEW m \in Nat, \A t \in Sessions : Fine(t, m), UNCHANGED displayed,
         \/ UNCHANGED packets_received
         \/ packets_received' = Set(packets_received, s,
                                    Append(packets_received[s], Head(batch).data))
  PROVE  \A t \in Sessions : InOrder(Stream(t)') /\ UpTo(Stream(t)', m)
<1>1. /\ batch \in Batches(toClient[s])
      /\ toClient' = [toClient EXCEPT ![s] = After(toClient[s], batch)]
  BY DEF Reading, Set
<1>2. /\ displayed[s] \in Seq(Payloads) /\ packets_received[s] \in Seq(Payloads)
      /\ toClient[s] \in Seq(Packets)
  BY DEF ClientTypeOK, WireTypeOK
<1>3. packets_received'[s] \in {packets_received[s],
                                Append(packets_received[s], Head(batch).data)}
  BY DEF Set, ClientTypeOK
<1>4. \A t \in Sessions \ {s} : Stream(t)' = Stream(t)
  <2>1. \A t \in Sessions \ {s} :
          toClient'[t] = toClient[t] /\ packets_received'[t] = packets_received[t]
    BY <1>1 DEF Set, ClientTypeOK, WireTypeOK
  <2> QED
    BY <2>1 DEF Stream, Accepted
<1>5. Stream(s)' = (displayed[s] \o packets_received'[s]) \o Numbers(After(toClient[s], batch))
  BY <1>1 DEF Stream, Accepted, WireTypeOK
<1>6. InOrder((displayed[s] \o packets_received[s]) \o Numbers(toClient[s]))
      /\ UpTo((displayed[s] \o packets_received[s]) \o Numbers(toClient[s]), m)
  BY DEF Fine, Stream, Accepted
<1>7. InOrder(Stream(s)') /\ UpTo(Stream(s)', m)
  BY <1>1, <1>2, <1>3, <1>5, <1>6, ReadInOrder
<1> QED
  BY <1>4, <1>7 DEF Fine

\* Where nothing is written, read, shown, added or popped, nothing changes.
SeenVars == <<messages_to_receive, arrived, toClient, displayed, packets_received>>

\* Then SeenInv stays.
LEMMA UnseenStep ==
  ASSUME SeenInv, UNCHANGED SeenVars
  PROVE  SeenInv'
BY DEF SeenInv, SeenVars, Numbered, Oldest, Stream, Accepted

\* The server keeps the streams in order.
LEMMA ServerInOrder ==
  ASSUME TypeOK, Busy, SeenInv, ServerNext, UNCHANGED clientVars
  PROVE  SeenInv'
<1>1. WireTypeOK /\ ServerTypeOK /\ ClientTypeOK
  BY DEF TypeOK
<1>2. /\ Numbered /\ Oldest \in Nat /\ Oldest > 0
      /\ messages_to_receive # <<>> => Head(messages_to_receive) = Oldest
      /\ \A t \in Sessions : Fine(t, Oldest)
  BY <1>1, OldestType DEF SeenInv, Fine
<1>3. UNCHANGED <<displayed, packets_received>>
  BY DEF clientVars
<1>4. ASSUME NEW s \in Sessions, NEW p \in Packets, ServerWrites(s, p),
             p.data \in {NoData, Oldest}, UNCHANGED <<messages_to_receive, arrived>>
      PROVE  SeenInv'
  <2>1. \A t \in Sessions : InOrder(Stream(t)') /\ UpTo(Stream(t)', Oldest)
    BY <1>1, <1>2, <1>3, <1>4, WriteInOrder
  <2> QED
    BY <1>2, <1>4, <2>1 DEF SeenInv, Numbered, Oldest
<1>5. ASSUME NEW s \in Sessions, NEW type \in PacketTypes, Reply(s, type),
             spc[s] = "parse", UNCHANGED <<messages_to_receive, arrived>>
      PROVE  SeenInv'
  <2>1. Head(inbuf[s]) \in Packets
    BY <1>1, <1>5 DEF ServerTypeOK, Busy, HasWork
  <2>2. /\ Packet(type, Head(inbuf[s]).seqn, NoData) \in Packets
        /\ Packet(type, Head(inbuf[s]).seqn, NoData).data = NoData
    BY <1>5, <2>1, PacketType DEF Packet, Packets, Payloads
  <2> QED
    BY <1>4, <1>5, <2>2 DEF Reply
<1>6. CASE addNotification
  <2> DEFINE old == messages_to_receive
  <2>1. /\ old \in Seq(Nat) /\ arrived \in Nat /\ Len(old) \in Nat
        /\ arrived' = arrived + 1 /\ messages_to_receive' = Append(old, arrived + 1)
    BY <1>1, <1>6, LenProperties DEF ServerTypeOK, addNotification, AddLast
  <2>2. /\ Len(messages_to_receive') = Len(old) + 1
        /\ \A i \in 1..Len(old) : messages_to_receive'[i] = old[i]
        /\ messages_to_receive'[Len(old) + 1] = arrived + 1
    BY <2>1, AppendProperties
  <2>3. Oldest' = Oldest
    BY <2>1, <2>2 DEF Oldest
  <2>4. Numbered'
    <3>1. Len(old) <= arrived /\ \A i \in 1..Len(old) : old[i] = Oldest + i - 1
      BY <1>2 DEF Numbered
    <3>2. Oldest + Len(old) = arrived + 1
      BY <2>1 DEF Oldest
    <3>3. \A i \in 1..Len(messages_to_receive') : i \in 1..Len(old) \/ i = Len(old) + 1
      BY <2>1, <2>2
    <3>4. \A i \in 1..Len(messages_to_receive') : messages_to_receive'[i] = Oldest + i - 1
      <4>1. ASSUME NEW i \in 1..Len(messages_to_receive')
            PROVE  messages_to_receive'[i] = Oldest + i - 1
        <5>1. CASE i \in 1..Len(old)
          BY <2>2, <3>1, <5>1
        <5>2. CASE i = Len(old) + 1
          BY <1>2, <2>1, <2>2, <3>2, <5>2
        <5> QED
          BY <3>3, <5>1, <5>2
      <4> QED
        BY <4>1
    <3> QED
      BY <2>1, <2>2, <2>3, <3>1, <3>4 DEF Numbered
  <2>5. \A t \in Sessions : Stream(t)' = Stream(t)
    BY <1>3, <1>6 DEF Stream, Accepted, addNotification, wireVars
  <2> QED
    BY <1>2, <2>3, <2>4, <2>5 DEF SeenInv, Fine
<1>7. ASSUME NEW s \in Sessions, popNotification(s)
      PROVE  SeenInv'
  <2>1. CASE messages_to_receive = <<>> /\ Crash
    BY <1>3, <2>1, UnseenStep DEF Crash, rowVars, SeenVars
  <2>2. CASE messages_to_receive # <<>> /\ messages_to_receive' = Tail(messages_to_receive)
             /\ UNCHANGED <<arrived, wireVars>>
    <3> DEFINE old == messages_to_receive
    <3>1. /\ old \in Seq(Nat) /\ arrived \in Nat /\ Len(old) \in Nat /\ Len(old) > 0
          /\ Len(messages_to_receive') = Len(old) - 1
          /\ \A i \in 1..Len(old) - 1 : messages_to_receive'[i] = old[i + 1]
      BY <1>1, <2>2, LenProperties, EmptySeq, HeadTailProperties DEF ServerTypeOK
    <3>2. Oldest' = Oldest + 1
      BY <2>2, <3>1 DEF Oldest
    <3>3. \A i \in 1..Len(old) - 1 : i + 1 \in 1..Len(old)
      BY <3>1
    <3>4. Numbered'
      BY <1>2, <2>2, <3>1, <3>2, <3>3 DEF Numbered
    <3>5. \A t \in Sessions : Stream(t)' = Stream(t)
      BY <1>3, <2>2 DEF Stream, Accepted, wireVars
    <3>6. \A t \in Sessions : UpTo(Stream(t), Oldest + 1)
      BY <1>2 DEF Fine, UpTo
    <3> QED
      BY <1>2, <3>2, <3>4, <3>5, <3>6 DEF SeenInv, Fine
  <2> QED
    BY <1>7, <2>1, <2>2 DEF popNotification
<1>8. ASSUME NEW s \in Sessions, send_notification(s)
      PROVE  SeenInv'
  <2>1. CASE messages_to_receive = <<>> /\ Crash
    BY <1>3, <2>1, UnseenStep DEF Crash, rowVars, SeenVars
  <2>2. CASE messages_to_receive # <<>> /\ UNCHANGED rowVars
             /\ ServerWrites(s, Packet("MSG", seqn[s], Head(messages_to_receive)))
    <3>1. /\ Packet("MSG", seqn[s], Oldest) \in Packets
          /\ Packet("MSG", seqn[s], Oldest).data = Oldest
      BY <1>1, <1>2, PacketType DEF Packet, ServerTypeOK, Payloads, PacketTypes
    <3> QED
      BY <1>2, <1>4, <2>2, <3>1 DEF rowVars
  <2> QED
    BY <1>8, <2>1, <2>2 DEF send_notification
<1>9. ASSUME NEW s \in Sessions,
             Duplicate(s) \/ receive_CONNECT(s) \/ receive_FOLLOW(s) \/ receive_SEND(s)
      PROVE  SeenInv'
  <2>1. UNCHANGED <<messages_to_receive, arrived>> /\ spc[s] = "parse"
    BY <1>9 DEF Duplicate, receive_CONNECT, receive_FOLLOW, receive_SEND, rowVars, Parsing
  <2>2. Reply(s, "ACK") \/ Reply(s, "ERROR")
    BY <1>9 DEF Duplicate, receive_CONNECT, receive_FOLLOW, receive_SEND
  <2>3. "ACK" \in PacketTypes /\ "ERROR" \in PacketTypes
    BY DEF PacketTypes
  <2> QED
    BY <1>5, <2>1, <2>2, <2>3
<1>10. ASSUME NEW s \in Sessions,
              \/ Accept(s) \/ hasNewNotification(s) \/ RecvNothing(s) \/ RecvBatch(s)
              \/ LoopAgain(s) \/ LeaveLoop(s) \/ receive_DISCONNECT(s) \/ StrayAck(s)
              \/ receive_ACK(s) \/ get_notification_delivered(s)
              \/ set_notification_delivered(s) \/ WaitReleased(s) \/ WaitTimedOut(s)
              \/ ClearDelivered(s)
       PROVE  SeenInv'
  <2>1. UNCHANGED <<messages_to_receive, arrived, toClient>>
    BY <1>10 DEF Accept, hasNewNotification, RecvNothing, RecvBatch, LoopAgain, LeaveLoop,
                 Crash, closeSession, receive_DISCONNECT, StrayAck, receive_ACK,
                 get_notification_delivered, set_notification_delivered, WaitReleased,
                 WaitTimedOut, ClearDelivered, rowVars, wireVars
  <2> QED
    BY <1>3, <2>1, UnseenStep DEF SeenVars
<1>11. CASE set_termination_signal \/ StopListening \/ ExitServer
  <2>1. UNCHANGED <<messages_to_receive, arrived, toClient>>
    BY <1>11 DEF set_termination_signal, StopListening, ExitServer, rowVars, wireVars
  <2> QED
    BY <1>3, <2>1, UnseenStep DEF SeenVars
<1> QED
  BY <1>6, <1>7, <1>8, <1>9, <1>10, <1>11 DEF ServerNext, Thread

\* So do the clients.
LEMMA ClientInOrder ==
  ASSUME TypeOK, SeenInv, ClientNext, UNCHANGED serverVars
  PROVE  SeenInv'
<1>1. WireTypeOK /\ ServerTypeOK /\ ClientTypeOK
  BY DEF TypeOK
<1>2. Numbered /\ Oldest \in Nat /\ \A t \in Sessions : Fine(t, Oldest)
  BY <1>1, OldestType DEF SeenInv, Fine
<1>3. UNCHANGED <<messages_to_receive, arrived>>
  BY DEF serverVars, rowVars
<1>4. ASSUME NEW s \in Sessions, NEW batch, Reading(s, batch), UNCHANGED displayed,
             \/ UNCHANGED packets_received
             \/ packets_received' = Set(packets_received, s,
                                        Append(packets_received[s], Head(batch).data))
      PROVE  SeenInv'
  <2>1. \A t \in Sessions : InOrder(Stream(t)') /\ UpTo(Stream(t)', Oldest)
    BY <1>1, <1>2, <1>4, ReadKeepsOrder
  <2> QED
    BY <1>2, <1>3, <2>1 DEF SeenInv, Numbered, Oldest
<1>5. ASSUME NEW s \in Sessions, Display(s)
      PROVE  SeenInv'
  <2>1. displayed[s] \in Seq(Payloads) /\ packets_received[s] \in Seq(Payloads)
    BY <1>1 DEF ClientTypeOK
  <2>2. displayed[s] \o packets_received[s] \in Seq(Payloads)
    BY <2>1, ConcatProperties
  <2>3. (displayed[s] \o packets_received[s]) \o <<>> = displayed[s] \o packets_received[s]
    BY <2>2, ConcatEmptySeq
  <2>4. /\ displayed' = [displayed EXCEPT ![s] = displayed[s] \o packets_received[s]]
        /\ packets_received' = [packets_received EXCEPT ![s] = <<>>]
        /\ UNCHANGED toClient
    BY <1>5 DEF Display, Set, wireVars
  <2>5. displayed'[s] = displayed[s] \o packets_received[s] /\ packets_received'[s] = <<>>
    BY <1>1, <2>4 DEF ClientTypeOK
  <2>6. Accepted(s)' = Accepted(s)
    BY <2>3, <2>5 DEF Accepted
  <2>7. \A t \in Sessions \ {s} : Accepted(t)' = Accepted(t)
    BY <1>1, <2>4 DEF ClientTypeOK, Accepted
  <2> QED
    BY <1>2, <1>3, <2>4, <2>6, <2>7 DEF SeenInv, Numbered, Oldest, Stream, Fine
<1>6. ASSUME NEW s \in Sessions, ReceiveConnectReply(s) \/ LoopReceive(s) \/ ReadReply(s)
      PROVE  SeenInv'
  BY <1>4, <1>6 DEF ReceiveConnectReply, LoopReceive, ReadReply
<1>7. ASSUME NEW s \in Sessions,
             \/ TypeCommand(s) \/ PushCommand(s) \/ Quit(s) \/ Kill(s) \/ LoseConnection(s)
             \/ send_connect_message(s) \/ LoopNothing(s) \/ send_message(s)
             \/ ReadNothing(s) \/ Disconnect(s)
      PROVE  SeenInv'
  <2>1. UNCHANGED <<toClient, displayed, packets_received>>
    BY <1>7 DEF TypeCommand, PushCommand, Quit, Kill, LoseConnection, Exit,
                send_connect_message, LoopNothing, send_message, ReadNothing, Disconnect,
                wireVars
  <2> QED
    BY <1>3, <2>1, UnseenStep DEF SeenVars
<1> QED
  BY <1>5, <1>6, <1>7 DEF ClientNext, Communication, Interface

\* The notifications of the row are numbered without a gap, and what each
\* client took in or will read is in order, not behind the oldest of them:
\* for any number of sessions, timeouts, kills and retransmissions.
THEOREM SeenInvariant == Spec => []SeenInv
<1>1. Init => SeenInv
  <2> USE DEF Init, WireInit, ServerInit, ClientInit
  <2>1. ASSUME Init, NEW s \in Sessions
        PROVE  Stream(s) = <<>>
    <3>1. displayed[s] = <<>> /\ packets_received[s] = <<>> /\ toClient[s] = <<>>
      BY <2>1
    <3>2. <<>> \in Seq(Payloads) /\ <<>> \in Seq(Packets)
      BY EmptySeq
    <3>3. <<>> \o <<>> = <<>>
      BY <3>2, ConcatEmptySeq
    <3>4. Numbers(<<>>) = <<>>
      BY DEF Numbers
    <3> QED
      BY <3>1, <3>3, <3>4 DEF Stream, Accepted
  <2>2. ASSUME Init
        PROVE  Numbered
    BY <2>2 DEF Numbered
  <2>3. InOrder(<<>>) /\ \A m : UpTo(<<>>, m)
    BY DEF InOrder, UpTo
  <2> HIDE DEF Init
  <2> QED
    BY <2>1, <2>2, <2>3 DEF SeenInv
<1>2. SessionInv /\ SeenInv /\ [Next]_vars => SeenInv'
  <2>1. SessionInv => TypeOK /\ Busy
    BY CountedPositive DEF SessionInv, TypeOK, Busy
  <2>2. UNCHANGED vars => UNCHANGED SeenVars
    BY DEF vars, serverVars, rowVars, wireVars, clientVars, SeenVars
  <2> QED
    BY <2>1, <2>2, UnseenStep, ServerInOrder, ClientInOrder DEF Next
<1> QED
  BY <1>1, <1>2, SessionInvariant, PTL DEF Spec

\* A session may see a notification again, but none after a later one.
THEOREM NotificationsInOrder == Spec => []NeverBackwards
<1>1. ASSUME TypeOK, SeenInv, NEW s \in Sessions
      PROVE  InOrder(Accepted(s))
  <2>1. /\ displayed[s] \in Seq(Payloads) /\ packets_received[s] \in Seq(Payloads)
        /\ toClient[s] \in Seq(Packets)
    BY <1>1 DEF TypeOK, ClientTypeOK, WireTypeOK
  <2>2. /\ Len(Accepted(s)) \in Nat /\ Len(toClient[s]) \in Nat
        /\ Len(Stream(s)) = Len(Accepted(s)) + Len(toClient[s])
        /\ \A i \in 1..Len(Accepted(s)) : Stream(s)[i] = Accepted(s)[i]
    BY <2>1, StreamProperties DEF Stream, Accepted
  <2>3. \A i \in 1..Len(Accepted(s)) : i \in 1..Len(Stream(s))
    BY <2>2
  <2> QED
    BY <1>1, <2>2, <2>3 DEF SeenInv, InOrder
<1>2. SessionInv /\ SeenInv => NeverBackwards
  BY <1>1 DEF SessionInv, NeverBackwards
<1> QED
  BY <1>2, SessionInvariant, SeenInvariant, PTL

-----------------------------------------------------------------------------
(* Confirmations *)

\* The packets that Confirming allows, and that it allows no others.
Confirmations(taken, ended) == {p \in Packets : Confirms(p, taken, ended)}

LEMMA ConfirmingPackets ==
  ASSUME NEW q \in Seq(Packets), NEW n, NEW b
  PROVE  Confirming(q, n, b) <=> q \in Seq(Confirmations(n, b))
<1>1. ASSUME Confirming(q, n, b)
      PROVE  q \in Seq(Confirmations(n, b))
  <2>1. \A i \in 1..Len(q) : q[i] \in Confirmations(n, b)
    BY <1>1, ElementOfSeq DEF Confirming, Confirmations
  <2>2. q \in [1..Len(q) -> Confirmations(n, b)] /\ Len(q) \in Nat
    BY <2>1, LenProperties
  <2> QED
    BY <2>2
<1>2. ASSUME q \in Seq(Confirmations(n, b))
      PROVE  Confirming(q, n, b)
  <2>1. \A i \in 1..Len(q) : q[i] \in Confirmations(n, b)
    BY <1>2, ElementOfSeq
  <2> QED
    BY <2>1 DEF Confirming, Confirmations
<1> QED
  BY <1>1, <1>2

\* What a read returns and leaves, what a handler leaves and what a client
\* adds confirms if everything did.
LEMMA ConfirmingParts ==
  ASSUME NEW q \in Seq(Packets), NEW n, NEW b, Confirming(q, n, b)
  PROVE  /\ q # <<>> => Confirms(Head(q), n, b) /\ Confirming(Tail(q), n, b)
         /\ \A batch \in Batches(q) :
              Confirming(batch, n, b) /\ Confirming(After(q, batch), n, b)
         /\ \A p \in Packets : Confirms(p, n, b) => Confirming(Append(q, p), n, b)
<1>1. q \in Seq(Confirmations(n, b))
  BY ConfirmingPackets
<1>2. ASSUME q # <<>>
      PROVE  Confirms(Head(q), n, b) /\ Confirming(Tail(q), n, b)
  <2>1. Tail(q) \in Seq(Packets) /\ Tail(q) \in Seq(Confirmations(n, b))
        /\ Head(q) \in Confirmations(n, b)
    BY <1>1, <1>2, HeadTailProperties
  <2> QED
    BY <2>1, ConfirmingPackets DEF Confirmations
<1>3. ASSUME NEW batch \in Batches(q)
      PROVE  Confirming(batch, n, b) /\ Confirming(After(q, batch), n, b)
  <2>1. batch \in Seq(Packets) /\ After(q, batch) \in Seq(Packets)
    BY BatchProperties
  <2>2. batch \in Seq(Confirmations(n, b)) /\ After(q, batch) \in Seq(Confirmations(n, b))
    BY <1>1, BatchProperties
  <2> QED
    BY <2>1, <2>2, ConfirmingPackets
<1>4. ASSUME NEW p \in Packets, Confirms(p, n, b)
      PROVE  Confirming(Append(q, p), n, b)
  <2>1. p \in Confirmations(n, b)
    BY <1>4 DEF Confirmations
  <2>2. Append(q, p) \in Seq(Packets) /\ Append(q, p) \in Seq(Confirmations(n, b))
    BY <1>1, <2>1, AppendProperties
  <2> QED
    BY <2>2, ConfirmingPackets
<1> QED
  BY <1>2, <1>3, <1>4

\* Whatever confirms goes on confirming when the client takes in more.
LEMMA ConfirmingStays ==
  ASSUME NEW q \in Seq(Packets), NEW n \in Nat, NEW m \in Nat, n <= m,
         NEW b, NEW c, b => c, Confirming(q, n, b)
  PROVE  Confirming(q, m, c)
<1>1. \A i \in 1..Len(q) : q[i].seqn \in Nat
  <2>1. \A i \in 1..Len(q) : q[i] \in Packets
    BY ElementOfSeq
  <2> QED
    BY <2>1 DEF Packets
<1> QED
  BY <1>1 DEF Confirming, Confirms

-----------------------------------------------------------------------------
(* What arrives *)

\* Reading drops the answer to CONNECT if it is there: the rest are
\* notifications, as is the first packet unless the client awaits the answer.
LEMMA ArrivingRead ==
  ASSUME NEW q \in Seq(Packets), NEW pc, NEW n, NEW m, Arriving(q, pc, n, m),
         NEW batch \in Batches(q)
  PROVE  /\ pc # "connect"
         /\ pc = "await" => Head(batch).type = "ACK"
         /\ pc \notin {"await", "dead"} => Notification(Head(batch), n, m)
         /\ \A new \in {"loop", "dead"} : Arriving(After(q, batch), new, n, m)
<1>1. /\ Len(q) \in Nat /\ Len(batch) \in 1..Len(q)
      /\ Len(After(q, batch)) = Len(q) - Len(batch)
      /\ \A i \in 1..Len(After(q, batch)) : After(q, batch)[i] = q[i + Len(batch)]
      /\ q # <<>> /\ Head(batch) = Head(q)
  BY BatchProperties, LenProperties
<1>2. Head(batch) = q[1] /\ 1 \in 1..Len(q)
  BY <1>1
<1>3. \A i \in 1..Len(After(q, batch)) : i + Len(batch) \in 1..Len(q) /\ i + Len(batch) # 1
  BY <1>1
<1>4. \A i \in 1..Len(After(q, batch)) : Notification(After(q, batch)[i], n, m)
  BY <1>1, <1>3 DEF Arriving
<1> QED
  BY <1>1, <1>2, <1>4 DEF Arriving

\* A notification comes behind what is there.
LEMMA ArrivingMore ==
  ASSUME NEW q \in Seq(Packets), NEW pc, NEW n, NEW m, Arriving(q, pc, n, m),
         NEW p \in Packets, Notification(p, n, m),
         pc # "connect", pc = "await" => q # <<>>
  PROVE  Arriving(Append(q, p), pc, n, m)
<1>1. /\ Len(Append(q, p)) = Len(q) + 1 /\ Len(q) \in Nat
      /\ \A i \in 1..Len(q) : Append(q, p)[i] = q[i]
      /\ Append(q, p)[Len(q) + 1] = p
  BY AppendProperties, LenProperties
<1>2. \A i \in 1..Len(Append(q, p)) : i \in 1..Len(q) \/ i = Len(q) + 1
  BY <1>1
<1>3. q # <<>> => 1 \in 1..Len(q)
  BY <1>1, EmptySeq
<1> QED
  BY <1>1, <1>2, <1>3 DEF Arriving

\* The server reaches later numbers, and later notifications arrive.
LEMMA ArrivingStays ==
  ASSUME NEW q \in Seq(Packets), NEW pc, NEW n \in Nat, NEW m \in Nat,
         NEW n2 \in Nat, NEW m2 \in Nat, n <= n2, m <= m2, Arriving(q, pc, n, m)
  PROVE  /\ Arriving(q, pc, n2, m2)
         /\ pc \in {"loop", "await", "dead"} => Arriving(q, "dead", n2, m2)
         /\ q = <<>> => \A new : Arriving(q, new, n2, m2)
<1>1. \A i \in 1..Len(q) : q[i].seqn \in Nat
  <2>1. \A i \in 1..Len(q) : q[i] \in Packets
    BY ElementOfSeq
  <2> QED
    BY <2>1 DEF Packets
<1>2. \A i \in 1..Len(q) : Notification(q[i], n, m) => Notification(q[i], n2, m2)
  <2>1. ASSUME NEW i \in 1..Len(q), Notification(q[i], n, m)
        PROVE  Notification(q[i], n2, m2)
    <3>1. q[i].seqn \in Nat /\ q[i].data = q[i].seqn + 1
      BY <1>1, <2>1 DEF Notification
    <3> QED
      BY <2>1, <3>1 DEF Notification
  <2> QED
    BY <2>1
<1> QED
  BY <1>2 DEF Arriving


-----------------------------------------------------------------------------
(* A profile whose only session types nothing: the server *)

\* What the invariants say of the only session l.
LEMMA ListenerFacts ==
  ASSUME SessionInv, SeenInv, ListenerInv, NEW l \in Sessions, Sessions = {l}
  PROVE  /\ OnlyListens(l) /\ InStep(l) /\ Arriving(toClient[l], cpc[l], seqn[l], arrived)
         /\ Confirming(toServer[l], last_seqn[l], cpc[l] = "dead")
         /\ Confirming(inbuf[l], last_seqn[l], cpc[l] = "dead")
         /\ seqn[l] \in Nat /\ last_seqn[l] \in Nat /\ arrived \in Nat /\ Oldest \in Nat
         /\ toServer[l] \in Seq(Packets) /\ inbuf[l] \in Seq(Packets)
         /\ toClient[l] \in Seq(Packets)
         /\ messages_to_receive # <<>> => Head(messages_to_receive) = Oldest
                                          /\ Oldest <= arrived
         /\ active_sessions = (IF connected[l] THEN 1 ELSE 0)
         /\ cpc[l] \notin {"send", "sending"} /\ (clientOpen[l] <=> cpc[l] # "dead")
         /\ up /\ spc[l] \notin {"none", "done"} =>
              serverOpen[l] /\ (Asking(l) \/ Joined(l))
         /\ spc[l] = "parse" => inbuf[l] # <<>> /\ Head(inbuf[l]) \in Packets
                                /\ Confirms(Head(inbuf[l]), last_seqn[l], cpc[l] = "dead")
                                /\ Confirming(Tail(inbuf[l]), last_seqn[l], cpc[l] = "dead")
<1>1. WireTypeOK /\ ServerTypeOK /\ ClientTypeOK /\ HasWork /\ PlacesCounted /\ Phase(l)
  BY DEF SessionInv, TypeOK
<1>2. /\ OnlyListens(l) /\ InStep(l) /\ Arriving(toClient[l], cpc[l], seqn[l], arrived)
      /\ Confirming(toServer[l], last_seqn[l], cpc[l] = "dead")
      /\ Confirming(inbuf[l], last_seqn[l], cpc[l] = "dead")
  BY DEF ListenerInv
<1>3. /\ seqn[l] \in Nat /\ last_seqn[l] \in Nat /\ arrived \in Nat
      /\ toServer[l] \in Seq(Packets) /\ inbuf[l] \in Seq(Packets)
      /\ toClient[l] \in Seq(Packets) /\ messages_to_receive \in Seq(Nat)
  BY <1>1 DEF WireTypeOK, ServerTypeOK, ClientTypeOK
<1>4. Oldest \in Nat
      /\ (messages_to_receive # <<>> => Head(messages_to_receive) = Oldest /\ Oldest <= arrived)
  <2>1. Len(messages_to_receive) \in Nat
        /\ (messages_to_receive # <<>> => Len(messages_to_receive) > 0)
    BY <1>3, LenProperties, EmptySeq
  <2> QED
    BY <1>1, <1>3, <2>1, OldestType DEF SeenInv, Oldest
<1>5. active_sessions = (IF connected[l] THEN 1 ELSE 0)
  <2>1. ConnectedSessions = IF connected[l] THEN {l} ELSE {}
    BY DEF ConnectedSessions
  <2> QED
    BY <1>1, <2>1, FS_EmptySet, FS_Singleton DEF PlacesCounted
<1>6. cpc[l] \notin {"send", "sending"} /\ (clientOpen[l] <=> cpc[l] # "dead")
  BY <1>1, <1>2 DEF HasWork, OnlyListens, Phase
<1>7. up /\ spc[l] \notin {"none", "done"} => serverOpen[l] /\ (Asking(l) \/ Joined(l))
  BY <1>1 DEF Phase, OwnsSocket, Before
<1>8. ASSUME spc[l] = "parse"
      PROVE  /\ inbuf[l] # <<>> /\ Head(inbuf[l]) \in Packets
             /\ Confirms(Head(inbuf[l]), last_seqn[l], cpc[l] = "dead")
             /\ Confirming(Tail(inbuf[l]), last_seqn[l], cpc[l] = "dead")
  <2>1. inbuf[l] # <<>>
    BY <1>1, <1>8 DEF HasWork
  <2> QED
    BY <1>2, <1>3, <2>1, ConfirmingParts, HeadTailProperties
<1> QED
  BY <1>2, <1>3, <1>4, <1>5, <1>6, <1>7, <1>8

\* The counts stay in step while the thread goes about its loop.
LEMMA InStepMoves ==
  ASSUME NEW l \in Sessions, InStep(l), UNCHANGED clientVars,
         UNCHANGED <<messages_to_receive, arrived, seqn>>,
         \/ spc'[l] = spc[l]
         \/ /\ spc[l] \notin {"pop", "clear"}
            /\ spc'[l] \notin {"flag", "set", "wait", "pop", "clear"}
            /\ spc'[l] = "peek" => messages_to_receive # <<>>
         \/ /\ spc[l] = "parse" /\ spc'[l] = "pop" /\ last_seqn[l] = seqn[l] + 1
  PROVE  InStep(l)'
BY DEF InStep, Oldest, Accepted, clientVars

\* A step of the server keeps ListenerInv if it keeps the parts it can touch.
LEMMA ListenerKept ==
  ASSUME NEW l \in Sessions, Sessions = {l}, UNCHANGED clientVars, OnlyListens(l), InStep(l)',
         Confirming(toServer'[l], last_seqn[l], cpc[l] = "dead"),
         Confirming(inbuf'[l], last_seqn[l], cpc[l] = "dead"),
         Arriving(toClient'[l], cpc[l], seqn'[l], arrived')
  PROVE  ListenerInv'
BY DEF ListenerInv, OnlyListens, clientVars

\* main, and the loop of the thread.
LEMMA ListenerLoop ==
  ASSUME SessionInv, SessionInv', SeenInv, ListenerInv, NEW l \in Sessions, Sessions = {l},
         UNCHANGED clientVars,
         \/ set_termination_signal \/ StopListening \/ ExitServer \/ addNotification
         \/ Accept(l) \/ hasNewNotification(l) \/ send_notification(l)
         \/ RecvNothing(l) \/ RecvBatch(l) \/ LoopAgain(l) \/ LeaveLoop(l)
  PROVE  ListenerInv'
<1>1. /\ OnlyListens(l) /\ InStep(l) /\ Arriving(toClient[l], cpc[l], seqn[l], arrived)
      /\ Confirming(toServer[l], last_seqn[l], cpc[l] = "dead")
      /\ Confirming(inbuf[l], last_seqn[l], cpc[l] = "dead")
      /\ seqn[l] \in Nat /\ last_seqn[l] \in Nat /\ arrived \in Nat /\ Oldest \in Nat
      /\ toServer[l] \in Seq(Packets) /\ inbuf[l] \in Seq(Packets)
      /\ toClient[l] \in Seq(Packets)
      /\ messages_to_receive # <<>> => Head(messages_to_receive) = Oldest
                                       /\ Oldest <= arrived
      /\ clientOpen[l] <=> cpc[l] # "dead"
      /\ up /\ spc[l] \notin {"none", "done"} =>
           serverOpen[l] /\ (Asking(l) \/ Joined(l))
  BY ListenerFacts
<1>2. WireTypeOK /\ ServerTypeOK /\ ClientTypeOK
  BY DEF SessionInv, TypeOK
<1>3. ASSUME UNCHANGED <<messages_to_receive, arrived, seqn, toServer, inbuf, toClient>>,
             \/ spc'[l] = spc[l]
             \/ /\ spc[l] \notin {"pop", "clear"}
                /\ spc'[l] \notin {"flag", "set", "wait", "pop", "clear"}
                /\ spc'[l] = "peek" => messages_to_receive # <<>>
      PROVE  ListenerInv'
  <2>1. InStep(l)'
    BY <1>1, <1>3, InStepMoves
  <2> QED
    BY <1>1, <1>3, <2>1, ListenerKept
<1>4. CASE set_termination_signal \/ StopListening \/ ExitServer
  BY <1>3, <1>4 DEF set_termination_signal, StopListening, ExitServer, rowVars, threadVars,
                    wireVars
<1>5. CASE Accept(l) \/ RecvNothing(l) \/ LoopAgain(l)
  <2>1. /\ UNCHANGED <<messages_to_receive, arrived, seqn, toServer, inbuf, toClient>>
        /\ spc[l] \in {"none", "recv", "sleep"} /\ spc'[l] \in {"send", "sleep"}
    BY <1>2, <1>5 DEF Accept, RecvNothing, LoopAgain, Goto, rowVars, wireVars, ServerTypeOK
  <2> QED
    BY <1>3, <2>1
<1>6. CASE hasNewNotification(l)
  <2>1. /\ UNCHANGED <<messages_to_receive, arrived, seqn, toServer, inbuf, toClient>>
        /\ spc[l] = "send" /\ spc'[l] \in {"peek", "recv"}
        /\ spc'[l] = "peek" => messages_to_receive # <<>>
    BY <1>2, <1>6 DEF hasNewNotification, Goto, rowVars, wireVars, ServerTypeOK
  <2> QED
    BY <1>3, <2>1
<1>7. CASE LeaveLoop(l)
  <2>1. /\ UNCHANGED <<messages_to_receive, arrived, seqn, toServer, inbuf, toClient>>
        /\ spc[l] = "sleep" /\ spc'[l] \in {"sleep", "done"}
    BY <1>2, <1>7 DEF LeaveLoop, Crash, Goto, closeSession, rowVars, threadVars, ServerTypeOK
  <2> QED
    BY <1>3, <2>1
<1>8. CASE addNotification
  <2>1. /\ messages_to_receive \in Seq(Nat) /\ Len(messages_to_receive) \in Nat
        /\ messages_to_receive' = Append(messages_to_receive, arrived + 1)
        /\ arrived' = arrived + 1 /\ UNCHANGED <<seqn, spc, toServer, inbuf, toClient>>
    BY <1>2, <1>8, LenProperties
       DEF addNotification, AddLast, ServerTypeOK, threadVars, wireVars
  <2>2. Len(messages_to_receive') = Len(messages_to_receive) + 1 /\ messages_to_receive' # <<>>
    BY <1>1, <2>1, AppendProperties
  <2>3. Oldest' = Oldest
    BY <1>1, <2>1, <2>2 DEF Oldest
  <2>4. InStep(l)'
    BY <1>1, <2>1, <2>2, <2>3 DEF InStep, Accepted, clientVars
  <2>5. Arriving(toClient'[l], cpc[l], seqn'[l], arrived')
    BY <1>1, <2>1, ArrivingStays
  <2> QED
    BY <1>1, <2>1, <2>4, <2>5, ListenerKept
<1>9. CASE send_notification(l)
  <2>1. messages_to_receive # <<>> /\ spc[l] = "peek" /\ up
    BY <1>1, <1>9 DEF send_notification, InStep
  <2> DEFINE p == Packet("MSG", seqn[l], Oldest)
  <2>2. /\ UNCHANGED <<messages_to_receive, arrived, seqn, toServer, inbuf>>
        /\ spc'[l] = "recv" /\ ServerWrites(l, p)
    BY <1>1, <1>2, <1>9, <2>1 DEF send_notification, Goto, rowVars, ServerTypeOK
  <2>3. p \in Packets
    BY <1>1, PacketType DEF PacketTypes, Payloads
  <2>4. Notification(p, seqn[l], arrived)
    BY <1>1, <2>1 DEF Notification, Packet, InStep
  <2>5. Joined(l)
    BY <1>1, <2>1 DEF Asking
  <2>6. toClient'[l] = IF clientOpen[l] THEN Append(toClient[l], p) ELSE toClient[l]
    BY <1>2, <2>2 DEF ServerWrites, Written, WireTypeOK
  <2>7. cpc[l] # "connect" /\ (cpc[l] = "await" => toClient[l] # <<>>)
    BY <2>5 DEF Joined
  <2> HIDE DEF p
  <2>8. Arriving(Append(toClient[l], p), cpc[l], seqn[l], arrived)
    BY <1>1, <2>3, <2>4, <2>7, ArrivingMore
  <2>9. InStep(l)'
    BY <1>1, <2>1, <2>2, InStepMoves
  <2> QED
    BY <1>1, <2>2, <2>6, <2>8, <2>9, ListenerKept
<1>10. CASE RecvBatch(l)
  <2>1. PICK batch \in Batches(toServer[l]) :
          /\ inbuf' = [inbuf EXCEPT ![l] = batch]
          /\ toServer' = [toServer EXCEPT ![l] = After(@, batch)]
    BY <1>10 DEF RecvBatch
  <2>2. /\ UNCHANGED <<messages_to_receive, arrived, seqn, toClient>>
        /\ spc[l] = "recv" /\ spc'[l] = "parse"
        /\ inbuf'[l] = batch /\ toServer'[l] = After(toServer[l], batch)
    BY <1>2, <1>10, <2>1 DEF RecvBatch, Goto, rowVars, ServerTypeOK, WireTypeOK
  <2>3. /\ Confirming(batch, last_seqn[l], cpc[l] = "dead")
        /\ Confirming(After(toServer[l], batch), last_seqn[l], cpc[l] = "dead")
    BY <1>1, ConfirmingParts
  <2>4. InStep(l)'
    BY <1>1, <2>2, InStepMoves
  <2> QED
    BY <1>1, <2>2, <2>3, <2>4, ListenerKept
<1> QED
  BY <1>4, <1>5, <1>6, <1>7, <1>8, <1>9, <1>10


\* The handlers: only CONNECT, ACK and DISCONNECT ever come.
LEMMA ListenerHandler ==
  ASSUME SessionInv, SessionInv', SeenInv, ListenerInv, NEW l \in Sessions, Sessions = {l},
         UNCHANGED clientVars,
         \/ Duplicate(l) \/ receive_CONNECT(l) \/ receive_FOLLOW(l) \/ receive_SEND(l)
         \/ receive_DISCONNECT(l) \/ StrayAck(l)
  PROVE  ListenerInv'
<1> DEFINE p == Head(inbuf[l])
<1>1. /\ OnlyListens(l) /\ InStep(l) /\ Arriving(toClient[l], cpc[l], seqn[l], arrived)
      /\ Confirming(toServer[l], last_seqn[l], cpc[l] = "dead")
      /\ inbuf[l] \in Seq(Packets) /\ toClient[l] \in Seq(Packets)
      /\ active_sessions = (IF connected[l] THEN 1 ELSE 0)
      /\ clientOpen[l] <=> cpc[l] # "dead"
  BY ListenerFacts
<1>2. WireTypeOK /\ ServerTypeOK /\ ClientTypeOK
  BY DEF SessionInv, TypeOK
<1>3. up /\ spc[l] = "parse"
  BY DEF Duplicate, receive_CONNECT, receive_FOLLOW, receive_SEND, receive_DISCONNECT,
         StrayAck, Parsing
<1>4. /\ p \in Packets /\ Confirms(p, last_seqn[l], cpc[l] = "dead") /\ inbuf[l] # <<>>
      /\ Confirming(Tail(inbuf[l]), last_seqn[l], cpc[l] = "dead")
      /\ Asking(l) \/ Joined(l)
  BY <1>3, ListenerFacts
<1>5. ASSUME UNCHANGED <<messages_to_receive, arrived, seqn, toServer>>, TakePacket(l),
             spc'[l] \in {"sleep", "parse", "done"},
             Arriving(toClient'[l], cpc[l], seqn[l], arrived)
      PROVE  ListenerInv'
  <2>1. InStep(l)'
    BY <1>1, <1>3, <1>5, InStepMoves
  <2>2. inbuf'[l] = Tail(inbuf[l])
    BY <1>2, <1>5 DEF TakePacket, ServerTypeOK
  <2> QED
    BY <1>1, <1>4, <1>5, <2>1, <2>2, ListenerKept
<1>6. Handle(l) => spc'[l] \in {"sleep", "parse"} /\ TakePacket(l)
  BY <1>2 DEF Handle, NextPacket, ServerTypeOK
<1>7. CASE Duplicate(l)
  <2>1. p.type = "CONNECT" => Asking(l)
    BY <1>1, <1>4, TailNoConnect DEF Joined
  <2>2. p.type # "CONNECT"
    BY <1>4, <1>7, <2>1 DEF Asking, Duplicate, Fresh, Packets
  <2>3. cpc[l] = "dead"
    BY <1>4, <1>7, <2>2 DEF Confirms, Duplicate, Parsing
  <2>4. toClient' = toClient
    BY <1>1, <1>7, <2>3 DEF Duplicate, Reply, ServerWrites, Written
  <2>5. UNCHANGED <<messages_to_receive, arrived, seqn, toServer>> /\ Handle(l)
    BY <1>7 DEF Duplicate, rowVars
  <2> QED
    BY <1>1, <1>5, <1>6, <2>4, <2>5
<1>8. CASE receive_CONNECT(l)
  <2> DEFINE r == Packet("ACK", p.seqn, NoData)
  <2>1. p.type = "CONNECT"
    BY <1>8 DEF receive_CONNECT, Parsing
  <2>2. Asking(l)
    BY <1>1, <1>4, <2>1, TailNoConnect DEF Joined
  <2>3. HasPlace
    BY <1>1, <2>2 DEF Asking, HasPlace
  <2>4. UNCHANGED <<messages_to_receive, arrived, seqn, toServer>> /\ Handle(l)
        /\ ServerWrites(l, r)
    BY <1>8, <2>3 DEF receive_CONNECT, Reply
  <2>5. toClient'[l] \in {<<>>, Append(<<>>, r)} /\ cpc[l] \in {"await", "dead"}
    BY <1>2, <2>2, <2>4 DEF Asking, ServerWrites, Written, WireTypeOK
  <2>6. Append(<<>>, r) = <<r>> /\ r.type = "ACK"
    BY DEF Packet
  <2> HIDE DEF r
  <2>7. Arriving(toClient'[l], cpc[l], seqn[l], arrived)
    BY <2>5, <2>6 DEF Arriving
  <2> QED
    BY <1>5, <1>6, <2>4, <2>7
<1>9. CASE receive_FOLLOW(l) \/ receive_SEND(l)
  BY <1>4, <1>9 DEF receive_FOLLOW, receive_SEND, Parsing, Confirms
<1>10. CASE receive_DISCONNECT(l)
  <2>1. /\ UNCHANGED <<messages_to_receive, arrived, seqn, toServer, toClient>>
        /\ TakePacket(l) /\ spc'[l] = "done"
    BY <1>2, <1>10 DEF receive_DISCONNECT, closeSession, Goto, ServerTypeOK
  <2> QED
    BY <1>1, <1>5, <2>1
<1>11. CASE StrayAck(l)
  <2>1. UNCHANGED <<messages_to_receive, arrived, seqn, toServer, toClient>> /\ Handle(l)
    BY <1>11 DEF StrayAck, rowVars, wireVars
  <2> QED
    BY <1>1, <1>5, <1>6, <2>1
<1> QED
  BY <1>7, <1>8, <1>9, <1>10, <1>11

\* receive_ACK: an ACK with the present number confirms the oldest
\* notification, and a session on its own pops it and counts up.
LEMMA ListenerAck ==
  ASSUME SessionInv, SessionInv', SeenInv, ListenerInv, NEW l \in Sessions, Sessions = {l},
         UNCHANGED clientVars,
         \/ receive_ACK(l) \/ get_notification_delivered(l) \/ set_notification_delivered(l)
         \/ WaitReleased(l) \/ WaitTimedOut(l) \/ popNotification(l) \/ ClearDelivered(l)
  PROVE  ListenerInv'
<1>1. /\ OnlyListens(l) /\ InStep(l) /\ Arriving(toClient[l], cpc[l], seqn[l], arrived)
      /\ Confirming(toServer[l], last_seqn[l], cpc[l] = "dead")
      /\ Confirming(inbuf[l], last_seqn[l], cpc[l] = "dead")
      /\ seqn[l] \in Nat /\ last_seqn[l] \in Nat /\ arrived \in Nat /\ Oldest \in Nat
      /\ toClient[l] \in Seq(Packets)
      /\ active_sessions = (IF connected[l] THEN 1 ELSE 0)
  BY ListenerFacts
<1>2. WireTypeOK /\ ServerTypeOK /\ ClientTypeOK
  BY DEF SessionInv, TypeOK
<1>3. CASE receive_ACK(l)
  <2>1. /\ UNCHANGED <<messages_to_receive, arrived, seqn, toServer, toClient>>
        /\ spc[l] = "parse" /\ spc'[l] = "pop" /\ inbuf'[l] = Tail(inbuf[l])
        /\ Head(inbuf[l]).type = "ACK" /\ Head(inbuf[l]).seqn = seqn[l]
    BY <1>1, <1>2, <1>3 DEF receive_ACK, Parsing, AckMatches, TakePacket, Goto, rowVars,
                            wireVars, ServerTypeOK
  <2>2. Confirms(Head(inbuf[l]), last_seqn[l], cpc[l] = "dead")
        /\ Confirming(Tail(inbuf[l]), last_seqn[l], cpc[l] = "dead")
    BY <2>1, ListenerFacts
  <2>3. seqn[l] < last_seqn[l]
    BY <2>1, <2>2 DEF Confirms
  <2>4. last_seqn[l] = seqn[l] + 1
    BY <1>1, <2>3 DEF InStep
  <2>5. InStep(l)'
    BY <1>1, <2>1, <2>4, InStepMoves
  <2> QED
    BY <1>1, <2>1, <2>2, <2>5, ListenerKept
<1>4. CASE \/ get_notification_delivered(l) \/ set_notification_delivered(l)
           \/ WaitReleased(l) \/ WaitTimedOut(l)
  BY <1>1, <1>4 DEF InStep, get_notification_delivered, set_notification_delivered,
                    WaitReleased, WaitTimedOut, Acknowledged, Goto
<1>5. CASE popNotification(l)
  <2>1. /\ messages_to_receive \in Seq(Nat) /\ Len(messages_to_receive) \in Nat
        /\ spc[l] = "pop"
    BY <1>2, <1>5, LenProperties DEF ServerTypeOK, popNotification
  <2>2. last_seqn[l] = seqn[l] + 1 /\ last_seqn[l] <= arrived /\ seqn[l] = Oldest - 1
    BY <1>1, <2>1 DEF InStep
  <2>3. messages_to_receive # <<>>
    BY <1>1, <2>1, <2>2 DEF Oldest
  <2>4. /\ messages_to_receive' = Tail(messages_to_receive) /\ spc'[l] = "clear"
        /\ UNCHANGED <<arrived, seqn, toServer, inbuf, toClient>>
    BY <1>2, <1>5, <2>3 DEF popNotification, Goto, wireVars, ServerTypeOK
  <2>5. Len(messages_to_receive') = Len(messages_to_receive) - 1
    BY <2>1, <2>3, <2>4, HeadTailProperties
  <2>6. Oldest' = Oldest + 1
    <3>1. arrived' = arrived
      BY <2>4
    <3> QED
      BY <1>1, <2>1, <2>5, <3>1 DEF Oldest
  <2>7. InStep(l)'
    BY <1>1, <2>1, <2>2, <2>4, <2>6 DEF InStep, Accepted, clientVars
  <2> QED
    BY <1>1, <2>4, <2>7, ListenerKept
<1>6. CASE ClearDelivered(l)
  <2>1. /\ spc[l] = "clear" /\ spc'[l] \in {"sleep", "parse"} /\ seqn'[l] = seqn[l] + 1
        /\ UNCHANGED <<messages_to_receive, arrived, toServer, inbuf, toClient>>
    BY <1>2, <1>6 DEF ClearDelivered, Acknowledged, NextPacket, wireVars, ServerTypeOK
  <2>2. InStep(l)'
    BY <1>1, <2>1 DEF InStep, Oldest, Accepted, clientVars
  <2>3. Arriving(toClient'[l], cpc[l], seqn'[l], arrived')
    BY <1>1, <2>1, ArrivingStays
  <2> QED
    BY <1>1, <2>1, <2>2, <2>3, ListenerKept
<1> QED
  BY <1>3, <1>4, <1>5, <1>6

-----------------------------------------------------------------------------
(* A profile whose only session types nothing: the client *)

\* What was taken in, with the next notification behind it.
LEMMA NextNotification ==
  ASSUME NEW d \in Seq(Payloads), NEW p \in Seq(Payloads), NEW n \in Nat,
         d \o p = OneTo(n)
  PROVE  d \o Append(p, n + 1) = OneTo(n + 1)
<1> DEFINE new == d \o Append(p, n + 1)
<1>1. n + 1 \in Payloads
  BY DEF Payloads
<1>2. /\ Len(new) = Len(d \o p) + 1
      /\ \A i \in 1..Len(d \o p) : new[i] = (d \o p)[i]
      /\ new[Len(d \o p) + 1] = n + 1
  BY <1>1, ShownLast
<1>3. Len(d \o p) = n /\ \A i \in 1..n : (d \o p)[i] = i
  BY DEF OneTo
<1>4. new \in Seq(Payloads)
  <2>1. Append(p, n + 1) \in Seq(Payloads)
    BY <1>1, AppendProperties
  <2> QED
    BY <2>1, ConcatProperties
<1>5. \A i \in 1..(n + 1) : new[i] = i
  BY <1>2, <1>3
<1>6. Len(new) = n + 1
  BY <1>2, <1>3
<1> HIDE DEF new
<1>7. new = [i \in 1..Len(new) |-> new[i]]
  BY <1>4, LenProperties
<1>8. new = [i \in 1..(n + 1) |-> i]
  BY <1>5, <1>6, <1>7
<1> QED
  BY <1>8 DEF new, OneTo


\* A step of the client keeps ListenerInv if it keeps the parts it can touch.
LEMMA ListenerClientKept ==
  ASSUME NEW l \in Sessions, Sessions = {l}, UNCHANGED serverVars, OnlyListens(l)', InStep(l)',
         Confirming(toServer'[l], last_seqn'[l], cpc'[l] = "dead"),
         Confirming(inbuf[l], last_seqn'[l], cpc'[l] = "dead"),
         Arriving(toClient'[l], cpc'[l], seqn[l], arrived)
  PROVE  ListenerInv'
BY DEF ListenerInv, serverVars, rowVars, threadVars

\* The client: it types nothing, and takes in the notification whose number it
\* has not seen, which is the next.
LEMMA ListenerClient ==
  ASSUME SessionInv, SessionInv', SeenInv, ListenerInv, NEW l \in Sessions, Sessions = {l},
         Script[l] = <<>>, UNCHANGED serverVars,
         Communication(l) \/ Interface(l) \/ Quit(l) \/ Kill(l) \/ LoseConnection(l)
  PROVE  ListenerInv'
<1>1. /\ OnlyListens(l) /\ InStep(l) /\ Arriving(toClient[l], cpc[l], seqn[l], arrived)
      /\ Confirming(toServer[l], last_seqn[l], cpc[l] = "dead")
      /\ Confirming(inbuf[l], last_seqn[l], cpc[l] = "dead")
      /\ seqn[l] \in Nat /\ last_seqn[l] \in Nat /\ arrived \in Nat
      /\ toServer[l] \in Seq(Packets) /\ inbuf[l] \in Seq(Packets)
      /\ toClient[l] \in Seq(Packets) /\ cpc[l] \notin {"send", "sending"}
  BY ListenerFacts
<1>2. WireTypeOK /\ ServerTypeOK /\ ClientTypeOK
  BY DEF SessionInv, TypeOK
<1>3. UNCHANGED <<messages_to_receive, arrived, seqn, spc, inbuf>>
  BY DEF serverVars, rowVars, threadVars
<1>4. ASSUME UNCHANGED <<typed, ipc, packets_to_send>>
      PROVE  OnlyListens(l)'
  BY <1>1, <1>4 DEF OnlyListens
<1>5. ASSUME UNCHANGED <<last_seqn, displayed, packets_received>>
      PROVE  InStep(l)'
  BY <1>1, <1>3, <1>5 DEF InStep, Oldest, Accepted
<1>6. ASSUME last_seqn[l] <= last_seqn'[l], last_seqn'[l] \in Nat,
             cpc[l] = "dead" => cpc'[l] = "dead"
      PROVE  /\ Confirming(toServer[l], last_seqn'[l], cpc'[l] = "dead")
             /\ Confirming(inbuf[l], last_seqn'[l], cpc'[l] = "dead")
  BY <1>1, <1>6, ConfirmingStays
<1>7. ASSUME NEW p \in Packets, ClientWrites(l, p),
             Confirming(toServer[l], last_seqn'[l], cpc'[l] = "dead"),
             Confirms(p, last_seqn'[l], cpc'[l] = "dead")
      PROVE  Confirming(toServer'[l], last_seqn'[l], cpc'[l] = "dead")
  <2>1. toServer'[l] \in {toServer[l], Append(toServer[l], p)}
    BY <1>2, <1>7 DEF ClientWrites, Written, WireTypeOK
  <2> QED
    BY <1>1, <1>7, <2>1, ConfirmingParts
<1>8. CASE TypeCommand(l) \/ PushCommand(l)
  BY <1>1, <1>8 DEF TypeCommand, PushCommand, OnlyListens
<1>9. CASE LoopNothing(l) \/ send_message(l) \/ ReadNothing(l) \/ ReadReply(l)
  BY <1>1, <1>9 DEF LoopNothing, send_message, ReadNothing, ReadReply, CGoto, CanSend,
                    OnlyListens
<1>10. CASE Display(l)
  <2>1. displayed[l] \in Seq(Payloads) /\ packets_received[l] \in Seq(Payloads)
    BY <1>2 DEF ClientTypeOK
  <2>2. displayed[l] \o packets_received[l] \in Seq(Payloads)
    BY <2>1, ConcatProperties
  <2>3. (displayed[l] \o packets_received[l]) \o <<>> = displayed[l] \o packets_received[l]
    BY <2>2, ConcatEmptySeq
  <2>4. displayed'[l] = displayed[l] \o packets_received[l] /\ packets_received'[l] = <<>>
    BY <1>2, <1>10 DEF Display, Set, ClientTypeOK
  <2>5. Accepted(l)' = Accepted(l)
    BY <2>3, <2>4 DEF Accepted
  <2>6. UNCHANGED <<cpc, ipc, typed, packets_to_send, last_seqn, toServer, toClient>>
    BY <1>10 DEF Display, wireVars
  <2>7. InStep(l)'
    BY <1>1, <1>3, <2>5, <2>6 DEF InStep, Oldest
  <2> QED
    BY <1>1, <1>4, <2>6, <2>7, ListenerClientKept
<1>11. CASE Quit(l)
  <2>1. UNCHANGED <<cpc, ipc, typed, packets_to_send, last_seqn, displayed, packets_received,
                    toServer, toClient>>
    BY <1>11 DEF Quit, wireVars
  <2> QED
    BY <1>1, <1>4, <1>5, <2>1, ListenerClientKept
<1>12. ASSUME Exit(l)
       PROVE  /\ UNCHANGED <<ipc, typed, packets_to_send, last_seqn, displayed,
                             packets_received, toClient>>
              /\ cpc'[l] = "dead" /\ OnlyListens(l)' /\ InStep(l)'
              /\ Confirming(toServer[l], last_seqn'[l], cpc'[l] = "dead")
              /\ Confirming(inbuf[l], last_seqn'[l], cpc'[l] = "dead")
              /\ Arriving(toClient'[l], cpc'[l], seqn[l], arrived)
  <2>1. /\ UNCHANGED <<ipc, typed, packets_to_send, last_seqn, displayed,
                       packets_received, toClient>>
        /\ cpc'[l] = "dead"
    BY <1>2, <1>12 DEF Exit, Set, ClientTypeOK
  <2>2. cpc[l] \in {"loop", "await", "dead"} \/ toClient[l] = <<>>
    BY <1>1, <1>2 DEF Arriving, ClientTypeOK
  <2>3. Arriving(toClient[l], "dead", seqn[l], arrived)
    BY <1>1, <2>2, ArrivingStays
  <2> QED
    BY <1>1, <1>4, <1>5, <1>6, <2>1, <2>3
<1>13. CASE Kill(l) \/ LoseConnection(l)
  <2>1. Exit(l) /\ UNCHANGED toServer
    BY <1>13 DEF Kill, LoseConnection
  <2> QED
    BY <1>12, <2>1, ListenerClientKept
<1>14. CASE Disconnect(l)
  <2> DEFINE p == Packet("DISCONNECT", client_seqn[l], NoData)
  <2>1. Exit(l) /\ ClientWrites(l, p)
    BY <1>14 DEF Disconnect
  <2>2. p \in Packets
    BY <1>2, PacketType DEF PacketTypes, Payloads, ClientTypeOK
  <2>3. Confirms(p, last_seqn'[l], cpc'[l] = "dead")
    BY <1>12, <2>1 DEF Confirms, Packet
  <2> HIDE DEF p
  <2>4. Confirming(toServer'[l], last_seqn'[l], cpc'[l] = "dead")
    BY <1>7, <1>12, <2>1, <2>2, <2>3
  <2> QED
    BY <1>12, <2>1, <2>4, ListenerClientKept
<1>15. CASE send_connect_message(l)
  <2> DEFINE p == Packet("CONNECT", client_seqn[l], NoData)
  <2>1. /\ UNCHANGED <<ipc, typed, packets_to_send, last_seqn, displayed, packets_received,
                       toClient>>
        /\ cpc[l] = "connect" /\ cpc'[l] = "await" /\ ClientWrites(l, p)
    BY <1>2, <1>15 DEF send_connect_message, CGoto, ClientTypeOK
  <2>2. p \in Packets
    BY <1>2, PacketType DEF PacketTypes, Payloads, ClientTypeOK
  <2>3. Confirms(p, last_seqn'[l], cpc'[l] = "dead")
    BY DEF Confirms, Packet
  <2> HIDE DEF p
  <2>4. Confirming(toServer[l], last_seqn'[l], cpc'[l] = "dead")
        /\ Confirming(inbuf[l], last_seqn'[l], cpc'[l] = "dead")
    BY <1>1, <1>6, <2>1
  <2>5. Confirming(toServer'[l], last_seqn'[l], cpc'[l] = "dead")
    BY <1>7, <2>1, <2>2, <2>3, <2>4
  <2>6. Arriving(toClient'[l], cpc'[l], seqn[l], arrived)
    BY <1>1, <2>1 DEF Arriving
  <2> QED
    BY <1>4, <1>5, <2>1, <2>4, <2>5, <2>6, ListenerClientKept
<1>16. CASE ReceiveConnectReply(l)
  <2>1. PICK batch \in Batches(toClient[l]) :
          /\ Reading(l, batch)
          /\ \/ Head(batch).type = "ACK" /\ CGoto(l, "await", "loop")
             \/ Head(batch).type # "ACK" /\ CGoto(l, "await", "connect")
    BY <1>16 DEF ReceiveConnectReply
  <2>2. /\ UNCHANGED <<ipc, typed, packets_to_send, last_seqn, displayed, packets_received,
                       toServer>>
        /\ toClient'[l] = After(toClient[l], batch) /\ cpc[l] = "await"
    BY <1>2, <1>16, <2>1 DEF ReceiveConnectReply, Reading, Set, CGoto, WireTypeOK
  <2>3. Head(batch).type = "ACK" /\ Arriving(After(toClient[l], batch), "loop", seqn[l], arrived)
    BY <1>1, <2>2, ArrivingRead
  <2>4. cpc'[l] = "loop"
    BY <1>2, <2>1, <2>3 DEF CGoto, ClientTypeOK
  <2>5. Confirming(toServer'[l], last_seqn'[l], cpc'[l] = "dead")
        /\ Confirming(inbuf[l], last_seqn'[l], cpc'[l] = "dead")
    BY <1>1, <1>6, <2>2, <2>4
  <2> QED
    BY <1>4, <1>5, <2>2, <2>3, <2>4, <2>5, ListenerClientKept
<1>17. CASE LoopReceive(l)
  <2>1. PICK batch \in Batches(toClient[l]) :
          /\ Reading(l, batch)
          /\ \/ /\ IsNew(l, Head(batch))
                /\ packets_received' =
                     Set(packets_received, l, Append(packets_received[l], Head(batch).data))
                /\ last_seqn' = Set(last_seqn, l, Head(batch).seqn + 1)
             \/ ~IsNew(l, Head(batch)) /\ UNCHANGED <<packets_received, last_seqn>>
          /\ ClientWrites(l, Packet("ACK", Head(batch).seqn, NoData))
    BY <1>17 DEF LoopReceive
  <2> DEFINE m == Head(batch)
             p == Packet("ACK", m.seqn, NoData)
  <2>2. /\ UNCHANGED <<ipc, typed, packets_to_send, displayed>>
        /\ toClient'[l] = After(toClient[l], batch)
        /\ cpc[l] = "loop" /\ cpc'[l] = "loop"
    BY <1>1, <1>2, <1>17, <2>1 DEF LoopReceive, Reading, Set, CGoto, CanSend, OnlyListens,
                                   WireTypeOK, ClientTypeOK
  <2>3. m \in Packets /\ m.seqn \in Nat
    <3>1. m \in Packets
      BY <1>1, BatchProperties
    <3> QED
      BY <3>1 DEF Packets
  <2>4. /\ Notification(m, seqn[l], arrived)
        /\ Arriving(After(toClient[l], batch), "loop", seqn[l], arrived)
    BY <1>1, <2>2, ArrivingRead
  <2>5. p \in Packets
    BY <2>3, PacketType DEF PacketTypes, Payloads
  <2>6. /\ m.seqn < last_seqn'[l] /\ last_seqn[l] <= last_seqn'[l] /\ last_seqn'[l] \in Nat
        /\ InStep(l)'
    <3>1. CASE IsNew(l, m)
      <4>1. /\ packets_received'[l] = Append(packets_received[l], m.data)
            /\ last_seqn'[l] = m.seqn + 1
        BY <1>2, <2>1, <3>1 DEF Set, ClientTypeOK
      <4>2. m.seqn = seqn[l] /\ last_seqn[l] = seqn[l] /\ m.data = seqn[l] + 1
            /\ m.data <= arrived /\ spc[l] \notin {"pop", "clear"}
        BY <1>1, <2>3, <2>4, <3>1 DEF IsNew, Notification, InStep
      <4>3. displayed[l] \in Seq(Payloads) /\ packets_received[l] \in Seq(Payloads)
        BY <1>2 DEF ClientTypeOK
      <4>4. displayed[l] \o packets_received[l] = OneTo(seqn[l])
        BY <1>1, <4>2 DEF InStep, Accepted
      <4>5. Accepted(l)' = OneTo(last_seqn'[l])
        <5>1. displayed[l] \o Append(packets_received[l], seqn[l] + 1)
                = OneTo(seqn[l] + 1)
          BY <1>1, <4>3, <4>4, NextNotification
        <5>2. last_seqn'[l] = seqn[l] + 1
              /\ packets_received'[l] = Append(packets_received[l], seqn[l] + 1)
          BY <4>1, <4>2
        <5> QED
          BY <2>2, <5>1, <5>2 DEF Accepted
      <4>6. InStep(l)'
        BY <1>1, <1>3, <4>1, <4>2, <4>5 DEF InStep, Oldest
      <4> QED
        BY <1>1, <4>1, <4>2, <4>6
    <3>2. CASE ~IsNew(l, m)
      <4>1. UNCHANGED <<packets_received, last_seqn>>
        BY <2>1, <3>2
      <4> QED
        BY <1>1, <1>5, <2>2, <2>3, <3>2, <4>1 DEF IsNew
    <3> QED
      BY <3>1, <3>2
  <2>7. Confirming(toServer[l], last_seqn'[l], cpc'[l] = "dead")
        /\ Confirming(inbuf[l], last_seqn'[l], cpc'[l] = "dead")
    BY <1>6, <2>2, <2>6
  <2>8. Confirms(p, last_seqn'[l], cpc'[l] = "dead") /\ ClientWrites(l, p)
    BY <2>1, <2>6 DEF Confirms, Packet
  <2> HIDE DEF p, m
  <2>9. Confirming(toServer'[l], last_seqn'[l], cpc'[l] = "dead")
    BY <1>7, <2>5, <2>7, <2>8
  <2> QED
    BY <1>4, <2>2, <2>4, <2>6, <2>7, <2>9, ListenerClientKept
<1> QED
  BY <1>8, <1>9, <1>10, <1>11, <1>13, <1>14, <1>15, <1>16, <1>17 DEF Communication, Interface

-----------------------------------------------------------------------------
(* A profile whose only session types nothing: what it is promised *)

\* The server's count, the client's and the row's stay in step.
THEOREM ListenerInvariant ==
  ASSUME NEW l \in Sessions, Sessions = {l}, Script[l] = <<>>
  PROVE  Spec => []ListenerInv
<1>1. Init => ListenerInv
  <2> SUFFICES ASSUME Init
               PROVE  ListenerInv
    OBVIOUS
  <2> USE DEF Init, WireInit, ServerInit, ClientInit
  <2>1. Accepted(l) = <<>>
    <3>1. displayed[l] = <<>> /\ packets_received[l] = <<>> /\ <<>> \in Seq(Payloads)
      BY EmptySeq
    <3> QED
      BY <3>1, ConcatEmptySeq DEF Accepted
  <2>2. InStep(l)
    <3>1. OneTo(0) = <<>>
      BY DEF OneTo
    <3>2. seqn[l] = 0 /\ last_seqn[l] = 0 /\ arrived = 0 /\ spc[l] = "none"
      OBVIOUS
    <3>3. Oldest = 1
      BY DEF Oldest
    <3> HIDE DEF Init
    <3> QED
      BY <2>1, <3>1, <3>2, <3>3 DEF InStep
  <2> QED
    BY <2>2 DEF ListenerInv, OnlyListens, Confirming, Arriving
<1>2. SessionInv /\ SessionInv' /\ SeenInv /\ ListenerInv /\ [Next]_vars => ListenerInv'
  <2> SUFFICES ASSUME SessionInv, SessionInv', SeenInv, ListenerInv, [Next]_vars
               PROVE  ListenerInv'
    OBVIOUS
  <2>1. CASE ServerNext /\ UNCHANGED clientVars
    BY <2>1, ListenerLoop, ListenerHandler, ListenerAck DEF ServerNext, Thread
  <2>2. CASE ClientNext /\ UNCHANGED serverVars
    BY <2>2, ListenerClient DEF ClientNext
  <2>3. CASE UNCHANGED vars
    BY <2>3 DEF ListenerInv, OnlyListens, InStep, Oldest, Accepted, vars, serverVars, rowVars,
                threadVars, wireVars, clientVars
  <2> QED
    BY <2>1, <2>2, <2>3 DEF Next
<1> QED
  BY <1>1, <1>2, SessionInvariant, SeenInvariant, PTL DEF Spec


\* A notification is removed from the row only after the session took it in.
THEOREM OneListenerLosesNothing ==
  ASSUME NEW l \in Sessions, Sessions = {l}, Script[l] = <<>>
  PROVE  Spec => []NothingLost
<1>1. ASSUME SessionInv, SeenInv, ListenerInv
      PROVE  NothingLost
  <2>1. /\ Accepted(l) = OneTo(last_seqn[l]) /\ Oldest - 1 <= last_seqn[l]
        /\ last_seqn[l] \in Nat /\ Oldest \in Nat
    <3>1. InStep(l) /\ seqn[l] \in Nat /\ last_seqn[l] \in Nat /\ Oldest \in Nat
      BY <1>1, ListenerFacts
    <3> QED
      BY <3>1 DEF InStep
  <2>2. ASSUME NEW n \in Popped
        PROVE  n \in ToSet(Accepted(l))
    <3>1. arrived - Len(messages_to_receive) = Oldest - 1
      <4>1. arrived \in Nat /\ Len(messages_to_receive) \in Nat
        BY <1>1, LenProperties DEF SessionInv, TypeOK, ServerTypeOK
      <4> QED
        BY <4>1 DEF Oldest
    <3>2. n \in 1..last_seqn[l]
      BY <2>1, <2>2, <3>1 DEF Popped
    <3>3. n \in DOMAIN Accepted(l) /\ Accepted(l)[n] = n
      BY <2>1, <3>2 DEF OneTo
    <3> QED
      BY <3>3 DEF ToSet
  <2> QED
    BY <2>2 DEF NothingLost, AcceptedBySome
<1> QED
  BY <1>1, SessionInvariant, SeenInvariant, ListenerInvariant, PTL

\* Its thread never asks an empty list for its front.
THEOREM OneListenerNeverFrontOfEmpty ==
  ASSUME NEW l \in Sessions, Sessions = {l}, Script[l] = <<>>
  PROVE  Spec => []NeverFrontOfEmpty
<1>1. ASSUME SessionInv, SeenInv, ListenerInv, spc[l] \in {"peek", "pop"}
      PROVE  messages_to_receive # <<>>
  <2>1. InStep(l) /\ seqn[l] \in Nat /\ arrived \in Nat
    BY <1>1, ListenerFacts
  <2>2. CASE spc[l] = "pop"
    <3>1. Oldest - 1 = seqn[l] /\ seqn[l] + 1 <= arrived
      BY <2>1, <2>2 DEF InStep
    <3>2. Len(messages_to_receive) \in Nat
      BY <1>1, LenProperties DEF SessionInv, TypeOK, ServerTypeOK
    <3> QED
      BY <2>1, <3>1, <3>2 DEF Oldest
  <2> QED
    BY <1>1, <2>1, <2>2 DEF InStep
<1>2. SessionInv /\ SeenInv /\ ListenerInv => NeverFrontOfEmpty
  BY <1>1 DEF NeverFrontOfEmpty
<1> QED
  BY <1>2, SessionInvariant, SeenInvariant, ListenerInvariant, PTL

\* The client counts up only.
LEMMA CountsUp ==
  ASSUME SessionInv, NEW l \in Sessions, Sessions = {l}, [Next]_vars
  PROVE  /\ arrived' \in {arrived, arrived + 1} /\ last_seqn[l] <= last_seqn'[l]
         /\ last_seqn' = last_seqn \/ UNCHANGED <<arrived, seqn>>
<1>1. ServerTypeOK /\ WireTypeOK /\ ClientTypeOK
  BY DEF SessionInv, TypeOK
<1>2. CASE ServerNext /\ UNCHANGED clientVars
  <2>1. arrived' \in {arrived, arrived + 1}
    BY <1>2 DEF ServerNext, Thread, set_termination_signal, StopListening, ExitServer,
        addNotification, Accept, hasNewNotification, send_notification, RecvNothing, RecvBatch,
        LoopAgain, LeaveLoop, Duplicate, receive_CONNECT, receive_FOLLOW, receive_SEND,
        receive_DISCONNECT, StrayAck, receive_ACK, get_notification_delivered,
        set_notification_delivered, WaitReleased, WaitTimedOut, popNotification,
        ClearDelivered, Crash, closeSession, rowVars
  <2> QED
    BY <1>1, <1>2, <2>1 DEF clientVars, ClientTypeOK
<1>3. CASE ClientNext /\ UNCHANGED serverVars
  <2>1. UNCHANGED <<arrived, seqn>>
    BY <1>3 DEF serverVars, rowVars, threadVars
  <2>2. last_seqn[l] <= last_seqn'[l]
    <3>1. CASE LoopReceive(l)
      <4>1. PICK batch \in Batches(toClient[l]) :
              \/ /\ IsNew(l, Head(batch))
                 /\ last_seqn' = Set(last_seqn, l, Head(batch).seqn + 1)
              \/ UNCHANGED last_seqn
        BY <3>1 DEF LoopReceive
      <4>2. Head(batch) \in Packets
        BY <1>1, BatchProperties DEF WireTypeOK
      <4>3. Head(batch).seqn \in Nat
        BY <4>2 DEF Packets
      <4> QED
        BY <1>1, <4>1, <4>3 DEF IsNew, Set, ClientTypeOK
    <3>2. CASE ~LoopReceive(l)
      <4>1. UNCHANGED last_seqn
        BY <1>3, <3>2 DEF ClientNext, Communication, Interface, TypeCommand, PushCommand,
           Display, Quit, Kill, LoseConnection, Exit, send_connect_message,
           ReceiveConnectReply, LoopNothing, send_message, ReadNothing, ReadReply, Disconnect
      <4> QED
        BY <1>1, <4>1 DEF ClientTypeOK
    <3> QED
      BY <3>1, <3>2
  <2> QED
    BY <2>1, <2>2
<1>4. CASE UNCHANGED vars
  BY <1>1, <1>4 DEF vars, serverVars, rowVars, threadVars, clientVars, ClientTypeOK
<1> QED
  BY <1>2, <1>3, <1>4 DEF Next

\* The feed of a profile with one session that listens is a reliable FIFO.
THEOREM OneListenerFeedIsReliable ==
  ASSUME NEW l \in Sessions, Sessions = {l}, Script[l] = <<>>
  PROVE  Spec => FeedIsReliable
<1>1. ASSUME Init
      PROVE  Feed!FInit
  <2>1. Accepted(l) = <<>> /\ OneTo(arrived) = <<>>
    <3>1. displayed[l] = <<>> /\ packets_received[l] = <<>> /\ arrived = 0
      BY <1>1 DEF Init, ServerInit, ClientInit
    <3>2. <<>> \o <<>> = <<>>
      BY ConcatEmptySeq, EmptySeq
    <3> QED
      BY <3>1, <3>2 DEF Accepted, OneTo
  <2> QED
    BY <2>1 DEF Feed!FInit
<1>2. ASSUME SessionInv, SessionInv', SeenInv, SeenInv', ListenerInv, ListenerInv', [Next]_vars
      PROVE  Feed!FNext
  <2> DEFINE L == last_seqn[l]
             L2 == last_seqn'[l]
  <2>1. /\ L \in Nat /\ L2 \in Nat /\ seqn[l] \in Nat /\ arrived \in Nat /\ arrived' \in Nat
        /\ InStep(l) /\ InStep(l)'
    BY <1>2, ListenerFacts DEF ListenerInv, SessionInv, TypeOK, ServerTypeOK, ClientTypeOK
  <2>2. /\ Accepted(l) = OneTo(L) /\ Accepted(l)' = OneTo(L2) /\ L2 <= arrived'
        /\ L \in {seqn[l], seqn[l] + 1} /\ L2 \in {seqn'[l], seqn'[l] + 1}
    BY <2>1 DEF InStep
  <2>3. /\ arrived' \in {arrived, arrived + 1} /\ L <= L2
        /\ last_seqn' = last_seqn \/ UNCHANGED <<arrived, seqn>>
    BY <1>2, CountsUp
  <2>4. \/ L2 = L /\ arrived' = arrived
        \/ L2 = L /\ arrived' = arrived + 1
        \/ L2 = L + 1 /\ arrived' = arrived /\ L < arrived
    BY <2>1, <2>2, <2>3
  <2>5. ASSUME NEW n \in Nat
        PROVE  /\ Len(OneTo(n)) = n /\ SubSeq(OneTo(n + 1), 1, n) = OneTo(n)
               /\ OneTo(n + 1) = Append(OneTo(n), n + 1)
               /\ \A i \in 1..n : OneTo(n)[i] = i
    BY <2>5 DEF OneTo
  <2> DEFINE put == OneTo(arrived)
             got == OneTo(L)
  <2>6. \/ OneTo(L2) = got /\ OneTo(arrived') = put
        \/ /\ OneTo(L2) = got /\ Len(OneTo(arrived')) = Len(put) + 1
           /\ SubSeq(OneTo(arrived'), 1, Len(put)) = put
        \/ /\ OneTo(arrived') = put /\ Len(got) < Len(put)
           /\ OneTo(L2) = Append(got, put[Len(got) + 1])
    <3>1. CASE L2 = L /\ arrived' = arrived
      BY <3>1
    <3>2. CASE L2 = L /\ arrived' = arrived + 1
      BY <2>1, <2>5, <3>2
    <3>3. CASE L2 = L + 1 /\ arrived' = arrived /\ L < arrived
      <4>1. Len(got) = L /\ Len(put) = arrived /\ put[L + 1] = L + 1
        <5>1. Len(got) = L /\ Len(put) = arrived
          BY <2>1, <2>5
        <5>2. L + 1 \in 1..arrived
          BY <2>1, <3>3
        <5> QED
          BY <5>1, <5>2 DEF OneTo
      <4>2. OneTo(L2) = Append(got, L + 1)
        BY <2>1, <2>5, <3>3
      <4> QED
        BY <3>3, <4>1, <4>2
    <3> QED
      BY <2>4, <3>1, <3>2, <3>3
  <2> QED
    BY <2>2, <2>6 DEF Feed!FNext, Feed!Put, Feed!Take, Feed!Rest
<1>3. Spec => Feed!FInit
  BY <1>1 DEF Spec
<1>4. Spec => [][Feed!FNext]_(Feed!fvars)
  BY <1>2, SessionInvariant, SeenInvariant, ListenerInvariant, PTL DEF Spec
<1> QED
  BY <1>3, <1>4, PTL DEF FeedIsReliable, Feed!FSpec


-----------------------------------------------------------------------------
(* Commands in the channels *)

\* A command's packet, whose number tells it from the others.
LEMMA CommandPacketProperties ==
  ASSUME NEW s \in Sessions, NEW n \in Nat, n <= Len(Script[s])
  PROVE  /\ \A j \in 1..n : CommandPacket(s, j) \in Packets /\ IsCommand(CommandPacket(s, j))
         /\ \A j \in Nat : CommandPacket(s, j).seqn = 2 * j - 1
<1>1. ASSUME NEW j \in 1..n
      PROVE  CommandPacket(s, j) \in Packets /\ IsCommand(CommandPacket(s, j))
  <2>1. Len(Script[s]) \in Nat
    BY LenProperties, ClientAssumption DEF ClientAssumption
  <2>2. j \in 1..Len(Script[s])
    BY <2>1
  <2>3. Script[s][j].type \in {"FOLLOW", "SEND"} /\ Script[s][j].data \in Data
    BY <2>2, ScriptType
  <2>4. 2 * j - 1 \in Nat
    OBVIOUS
  <2> QED
    BY <2>3, <2>4, PacketType DEF CommandPacket, Packet, PacketTypes, Payloads, IsCommand
<1>2. \A j \in Nat : CommandPacket(s, j).seqn = 2 * j - 1
  BY DEF CommandPacket, Packet
<1> QED
  BY <1>1, <1>2

\* What a channel holds after a write, behind its head, and split by a read.
LEMMA HoldsParts ==
  ASSUME NEW q \in Seq(Packets), NEW c
  PROVE  /\ \A p \in Packets : Holds(q, c) \/ c = p => Holds(Append(q, p), c)
         /\ q # <<>> => (Holds(q, c) => c = Head(q) \/ Holds(Tail(q), c))
         /\ \A batch \in Batches(q) :
              Holds(q, c) => Holds(batch, c) \/ Holds(After(q, batch), c)
<1>1. Len(q) \in Nat
  BY LenProperties
<1>2. ASSUME NEW p \in Packets, Holds(q, c) \/ c = p
      PROVE  Holds(Append(q, p), c)
  <2>1. /\ Len(Append(q, p)) = Len(q) + 1
        /\ \A i \in 1..Len(q) : Append(q, p)[i] = q[i]
        /\ Append(q, p)[Len(q) + 1] = p
    BY AppendProperties
  <2>2. Len(q) + 1 \in 1..Len(Append(q, p)) /\ \A i \in 1..Len(q) : i \in 1..Len(Append(q, p))
    BY <1>1, <2>1
  <2> QED
    BY <1>2, <2>1, <2>2 DEF Holds
<1>3. ASSUME q # <<>>, Holds(q, c), c # Head(q)
      PROVE  Holds(Tail(q), c)
  <2>1. PICK i \in 1..Len(q) : q[i] = c
    BY <1>3 DEF Holds
  <2>2. /\ Len(Tail(q)) = Len(q) - 1 /\ Head(q) = q[1]
        /\ \A h \in 1..Len(Tail(q)) : Tail(q)[h] = q[h + 1]
    BY <1>3, HeadTailProperties
  <2>3. i # 1
    BY <1>3, <2>1, <2>2
  <2>4. i - 1 \in 1..Len(Tail(q)) /\ (i - 1) + 1 = i
    BY <1>1, <2>2, <2>3
  <2> QED
    BY <2>1, <2>2, <2>4 DEF Holds
<1>4. ASSUME NEW batch \in Batches(q), Holds(q, c)
      PROVE  Holds(batch, c) \/ Holds(After(q, batch), c)
  <2>1. PICK i \in 1..Len(q) : q[i] = c
    BY <1>4 DEF Holds
  <2>2. /\ Len(batch) \in 1..Len(q) /\ Len(After(q, batch)) = Len(q) - Len(batch)
        /\ \A h \in 1..Len(batch) : batch[h] = q[h]
        /\ \A h \in 1..Len(After(q, batch)) : After(q, batch)[h] = q[h + Len(batch)]
    BY BatchProperties
  <2>3. CASE i \in 1..Len(batch)
    BY <2>1, <2>2, <2>3 DEF Holds
  <2>4. CASE i > Len(batch)
    <3>1. i - Len(batch) \in 1..Len(After(q, batch)) /\ (i - Len(batch)) + Len(batch) = i
      BY <1>1, <2>2, <2>4
    <3> QED
      BY <2>1, <2>2, <3>1 DEF Holds
  <2>5. i \in 1..Len(batch) \/ i > Len(batch)
    BY <2>2
  <2> QED
    BY <2>3, <2>4, <2>5
<1> QED
  BY <1>2, <1>3, <1>4

\* More is typed, more is executed.
LEMMA InTurnStays ==
  ASSUME NEW s \in Sessions, NEW q \in Seq(Packets), NEW before,
         NEW n \in Nat, NEW e \in Nat, NEW n2 \in Nat, NEW e2 \in Nat, n <= n2, e <= e2,
         InTurn(s, q, before, n, e)
  PROVE  InTurn(s, q, before, n2, e2)
<1>1. \A j \in 1..n : j \in 1..n2 /\ (j <= e + 1 => j <= e2 + 1)
  OBVIOUS
<1> QED
  BY <1>1 DEF InTurn

\* The client sends the command it typed last, and the one before is there.
LEMMA InTurnWritten ==
  ASSUME NEW s \in Sessions, NEW q \in Seq(Packets), NEW before \in Seq(Packets),
         NEW n \in Nat, NEW e \in Nat, InTurn(s, q, before, n, e), NEW p \in Packets,
         \/ p.type \in {"ACK", "DISCONNECT"}
         \/ p.type = "CONNECT" /\ p.seqn = 0
         \/ /\ n > 0 /\ p = CommandPacket(s, n)
            /\ n - 1 <= e \/ Holds(before, CommandPacket(s, n - 1))
                          \/ Holds(q, CommandPacket(s, n - 1)),
         n <= Len(Script[s])
  PROVE  InTurn(s, Append(q, p), before, n, e)
<1> DEFINE r == Append(q, p)
<1>1. /\ Len(q) \in Nat /\ Len(r) = Len(q) + 1 /\ \A i \in 1..Len(q) : r[i] = q[i]
      /\ r[Len(q) + 1] = p
  BY AppendProperties, LenProperties
<1> HIDE DEF r
<1>2. \A i \in 1..Len(r) : i \in 1..Len(q) \/ i = Len(q) + 1
  BY <1>1
<1>3. ASSUME NEW i \in 1..Len(q)
      PROVE  /\ r[i].type = "CONNECT" => r[i].seqn = 0
             /\ IsCommand(r[i]) =>
                  \E j \in 1..n :
                    /\ r[i] = CommandPacket(s, j)
                    /\ \/ j <= e + 1
                       \/ \E h \in 1..(i - 1) : r[h] = CommandPacket(s, j - 1)
                       \/ Holds(before, CommandPacket(s, j - 1))
  <2>1. r[i] = q[i] /\ \A h \in 1..(i - 1) : r[h] = q[h]
    BY <1>1
  <2> QED
    BY <2>1 DEF InTurn
<1>4. p.type = "CONNECT" => p.seqn = 0
  <2>1. CASE n > 0 /\ p = CommandPacket(s, n)
    <3>1. n \in 1..n
      BY <2>1
    <3>2. IsCommand(CommandPacket(s, n))
      BY <3>1, CommandPacketProperties
    <3> QED
      BY <2>1, <3>2 DEF IsCommand
  <2> QED
    BY <2>1
<1>5. ASSUME IsCommand(p)
      PROVE  /\ n \in 1..n /\ p = CommandPacket(s, n)
             /\ \/ n <= e + 1
                \/ \E h \in 1..((Len(q) + 1) - 1) : r[h] = CommandPacket(s, n - 1)
                \/ Holds(before, CommandPacket(s, n - 1))
  <2>1. n > 0 /\ p = CommandPacket(s, n)
    BY <1>5 DEF IsCommand
  <2>2. CASE n - 1 <= e
    BY <2>1, <2>2
  <2>3. CASE Holds(before, CommandPacket(s, n - 1))
    BY <2>1, <2>3
  <2>4. CASE Holds(q, CommandPacket(s, n - 1))
    <3>1. PICK h \in 1..Len(q) : q[h] = CommandPacket(s, n - 1)
      BY <2>4 DEF Holds
    <3>2. h \in 1..((Len(q) + 1) - 1) /\ r[h] = CommandPacket(s, n - 1)
      BY <1>1, <3>1
    <3> QED
      BY <2>1, <3>2
  <2> QED
    BY <1>5, <2>2, <2>3, <2>4 DEF IsCommand
<1> QED
  BY <1>1, <1>2, <1>3, <1>4, <1>5 DEF InTurn, r


\* A read of a channel whose reader has nothing left to handle.
LEMMA InTurnRead ==
  ASSUME NEW s \in Sessions, NEW q \in Seq(Packets), NEW n \in Nat, NEW e \in Nat,
         InTurn(s, q, <<>>, n, e), NEW batch \in Batches(q)
  PROVE  /\ InTurn(s, batch, <<>>, n, e)
         /\ InTurn(s, After(q, batch), batch, n, e)
<1> DEFINE rest == After(q, batch)
           k == Len(batch)
<1>1. /\ k \in 1..Len(q) /\ Len(rest) = Len(q) - k /\ Len(q) \in Nat
      /\ \A i \in 1..k : batch[i] = q[i]
      /\ \A i \in 1..Len(rest) : rest[i] = q[i + k]
  BY BatchProperties, LenProperties
<1>2. \A c : ~Holds(<<>>, c)
  BY DEF Holds
<1>3. InTurn(s, batch, <<>>, n, e)
  <2>1. ASSUME NEW i \in 1..k
        PROVE  /\ i \in 1..Len(q) /\ batch[i] = q[i] /\ \A h \in 1..(i - 1) : batch[h] = q[h]
    BY <1>1
  <2> HIDE DEF k
  <2> QED
    BY <2>1 DEF InTurn, k
<1>4. ASSUME NEW i \in 1..Len(rest)
      PROVE  /\ rest[i].type = "CONNECT" => rest[i].seqn = 0
             /\ IsCommand(rest[i]) =>
                  \E j \in 1..n :
                    /\ rest[i] = CommandPacket(s, j)
                    /\ \/ j <= e + 1
                       \/ \E h \in 1..(i - 1) : rest[h] = CommandPacket(s, j - 1)
                       \/ Holds(batch, CommandPacket(s, j - 1))
  <2>1. i + k \in 1..Len(q) /\ rest[i] = q[i + k]
    BY <1>1
  <2>2. rest[i].type = "CONNECT" => rest[i].seqn = 0
    BY <2>1 DEF InTurn
  <2>3. ASSUME IsCommand(rest[i])
        PROVE  \E j \in 1..n :
                 /\ rest[i] = CommandPacket(s, j)
                 /\ \/ j <= e + 1
                    \/ \E h \in 1..(i - 1) : rest[h] = CommandPacket(s, j - 1)
                    \/ Holds(batch, CommandPacket(s, j - 1))
    <3>1. PICK j \in 1..n :
            /\ q[i + k] = CommandPacket(s, j)
            /\ j <= e + 1 \/ \E h \in 1..((i + k) - 1) : q[h] = CommandPacket(s, j - 1)
      BY <1>2, <2>1, <2>3 DEF InTurn
    <3>2. ASSUME NEW h \in 1..((i + k) - 1), q[h] = CommandPacket(s, j - 1)
          PROVE  \/ \E g \in 1..(i - 1) : rest[g] = CommandPacket(s, j - 1)
                 \/ Holds(batch, CommandPacket(s, j - 1))
      <4>1. CASE h \in 1..k
        <5>1. batch[h] = CommandPacket(s, j - 1)
          BY <1>1, <3>2, <4>1
        <5> QED
          BY <4>1, <5>1 DEF Holds
      <4>2. CASE h > k
        <5>1. h - k \in 1..(i - 1) /\ h - k \in 1..Len(rest) /\ (h - k) + k = h
          BY <1>1, <3>2, <4>2
        <5> QED
          BY <1>1, <3>2, <5>1
      <4>3. h \in 1..k \/ h > k
        BY <1>1, <3>2
      <4> QED
        BY <4>1, <4>2, <4>3
    <3> QED
      BY <2>1, <3>1, <3>2
  <2> QED
    BY <2>2, <2>3
<1>5. InTurn(s, rest, batch, n, e)
  BY <1>4 DEF InTurn
<1> QED
  BY <1>3, <1>5

\* The packet that is handled next: a command is executed already or the next.
LEMMA InTurnHead ==
  ASSUME NEW s \in Sessions, NEW q \in Seq(Packets), q # <<>>, NEW n \in Nat, NEW e \in Nat,
         InTurn(s, q, <<>>, n, e)
  PROVE  /\ Head(q).type = "CONNECT" => Head(q).seqn = 0
         /\ IsCommand(Head(q)) => \E j \in 1..n : Head(q) = CommandPacket(s, j) /\ j <= e + 1
<1>1. 1 \in 1..Len(q) /\ Head(q) = q[1]
  BY LenProperties, EmptySeq
<1>2. \A c : ~Holds(<<>>, c)
  BY DEF Holds
<1> QED
  BY <1>1, <1>2 DEF InTurn

\* A handled packet leaves the others in turn.
LEMMA InTurnTaken ==
  ASSUME NEW s \in Sessions, NEW q \in Seq(Packets), q # <<>>, NEW r \in Seq(Packets),
         NEW n \in Nat, NEW e \in Nat, NEW e2 \in Nat, e <= e2, n <= Len(Script[s]),
         InTurn(s, q, <<>>, n, e), InTurn(s, r, q, n, e),
         IsCommand(Head(q)) => \E j \in 1..n : Head(q) = CommandPacket(s, j) /\ j <= e2
  PROVE  InTurn(s, Tail(q), <<>>, n, e2) /\ InTurn(s, r, Tail(q), n, e2)
<1>1. /\ Len(q) \in Nat /\ Len(Tail(q)) = Len(q) - 1 /\ Head(q) = q[1]
      /\ \A i \in 1..Len(Tail(q)) : Tail(q)[i] = q[i + 1]
  BY HeadTailProperties, LenProperties
<1>2. ASSUME NEW j \in 1..n, Head(q) = CommandPacket(s, j - 1)
      PROVE  j <= e2 + 1
  <2>1. CASE j = 1
    BY <2>1
  <2>2. CASE j > 1
    <3>1. j - 1 \in 1..n /\ j - 1 \in Nat
      BY <2>2
    <3>2. IsCommand(Head(q)) /\ Head(q).seqn = 2 * (j - 1) - 1
      BY <1>2, <3>1, CommandPacketProperties
    <3>3. PICK k \in 1..n : Head(q) = CommandPacket(s, k) /\ k <= e2
      BY <3>2
    <3>4. Head(q).seqn = 2 * k - 1
      BY <3>3 DEF CommandPacket, Packet
    <3> QED
      BY <3>1, <3>2, <3>3, <3>4
  <2> QED
    BY <2>1, <2>2
<1>3. \A c : ~Holds(<<>>, c)
  BY DEF Holds
<1>4. ASSUME NEW i \in 1..Len(Tail(q))
      PROVE  /\ Tail(q)[i].type = "CONNECT" => Tail(q)[i].seqn = 0
             /\ IsCommand(Tail(q)[i]) =>
                  \E j \in 1..n :
                    /\ Tail(q)[i] = CommandPacket(s, j)
                    /\ \/ j <= e2 + 1
                       \/ \E h \in 1..(i - 1) : Tail(q)[h] = CommandPacket(s, j - 1)
  <2>1. i + 1 \in 1..Len(q) /\ Tail(q)[i] = q[i + 1]
    BY <1>1
  <2>2. Tail(q)[i].type = "CONNECT" => Tail(q)[i].seqn = 0
    BY <2>1 DEF InTurn
  <2>3. ASSUME IsCommand(Tail(q)[i])
        PROVE  \E j \in 1..n :
                 /\ Tail(q)[i] = CommandPacket(s, j)
                 /\ j <= e2 + 1 \/ \E h \in 1..(i - 1) : Tail(q)[h] = CommandPacket(s, j - 1)
    <3>1. PICK j \in 1..n :
            /\ q[i + 1] = CommandPacket(s, j)
            /\ j <= e + 1 \/ \E h \in 1..((i + 1) - 1) : q[h] = CommandPacket(s, j - 1)
      BY <1>3, <2>1, <2>3 DEF InTurn
    <3>2. ASSUME NEW h \in 1..((i + 1) - 1), q[h] = CommandPacket(s, j - 1)
          PROVE  j <= e2 + 1 \/ \E g \in 1..(i - 1) : Tail(q)[g] = CommandPacket(s, j - 1)
      <4>1. CASE h = 1
        BY <1>1, <1>2, <3>2, <4>1
      <4>2. CASE h # 1
        <5>1. h - 1 \in 1..(i - 1) /\ h - 1 \in 1..Len(Tail(q)) /\ (h - 1) + 1 = h
          BY <1>1, <3>2, <4>2
        <5> QED
          BY <1>1, <3>2, <5>1
      <4> QED
        BY <4>1, <4>2
    <3>3. j <= e + 1 => j <= e2 + 1
      OBVIOUS
    <3> QED
      BY <2>1, <3>1, <3>2, <3>3
  <2> QED
    BY <2>2, <2>3
<1>5. ASSUME NEW i \in 1..Len(r), IsCommand(r[i])
      PROVE  \E j \in 1..n :
               /\ r[i] = CommandPacket(s, j)
               /\ \/ j <= e2 + 1
                  \/ \E h \in 1..(i - 1) : r[h] = CommandPacket(s, j - 1)
                  \/ Holds(Tail(q), CommandPacket(s, j - 1))
  <2>1. PICK j \in 1..n :
          /\ r[i] = CommandPacket(s, j)
          /\ \/ j <= e + 1
             \/ \E h \in 1..(i - 1) : r[h] = CommandPacket(s, j - 1)
             \/ Holds(q, CommandPacket(s, j - 1))
    BY <1>5 DEF InTurn
  <2>2. ASSUME Holds(q, CommandPacket(s, j - 1))
        PROVE  j <= e2 + 1 \/ Holds(Tail(q), CommandPacket(s, j - 1))
    BY <1>2, <2>2, HoldsParts
  <2>3. j <= e + 1 => j <= e2 + 1
    OBVIOUS
  <2> QED
    BY <2>1, <2>2, <2>3
<1> QED
  BY <1>4, <1>5 DEF InTurn


-----------------------------------------------------------------------------
(* Commands: the server *)

\* Nothing happens to the commands of session t, or its connection is closed.
CommandFrame(t) ==
  /\ cpc'[t] = cpc[t] /\ ipc'[t] = ipc[t] /\ client_seqn'[t] = client_seqn[t]
  /\ packets_to_send'[t] = packets_to_send[t] /\ pending'[t] = pending[t]
  /\ payload'[t] = payload[t] /\ outgoing'[t] = outgoing[t] /\ typed'[t] = typed[t]
  /\ executed'[t] = executed[t] /\ connected'[t] = connected[t]
  /\ max_reference_seqn'[t] = max_reference_seqn[t] /\ spc'[t] = spc[t]
  /\ inbuf'[t] = inbuf[t] /\ toServer'[t] = toServer[t]
  /\ serverOpen'[t] => serverOpen[t]

LEMMA ObeyedSame ==
  ASSUME NEW t \in Sessions, Obeyed(t), CommandFrame(t)
  PROVE  Obeyed(t)'
BY DEF Obeyed, CommandFrame, OneAtATime, NotYetTyped, BeingTyped, BeingSent, Confirmed,
       ExecutedFirst, NoCommandLost, WasSent, Count

\* A thread leaves the other sessions alone, unless the server crashes.
LEMMA ThreadFrame ==
  ASSUME TypeOK, NEW s \in Sessions, Accept(s) \/ Thread(s), UNCHANGED clientVars
  PROVE  \A t \in Sessions \ {s} : CommandFrame(t)
<1>1. /\ toServer \in [Sessions -> Seq(Packets)] /\ serverOpen \in [Sessions -> BOOLEAN]
      /\ spc \in [Sessions -> ThreadPoints] /\ connected \in [Sessions -> BOOLEAN]
      /\ max_reference_seqn \in [Sessions -> Nat] /\ inbuf \in [Sessions -> Seq(Packets)]
      /\ executed \in [Sessions -> Seq(CommandsExecuted)]
  BY DEF TypeOK, WireTypeOK, ServerTypeOK
<1>2. ASSUME \A t \in Sessions \ {s} :
               /\ executed'[t] = executed[t] /\ connected'[t] = connected[t]
               /\ max_reference_seqn'[t] = max_reference_seqn[t] /\ spc'[t] = spc[t]
               /\ inbuf'[t] = inbuf[t] /\ toServer'[t] = toServer[t]
               /\ serverOpen'[t] => serverOpen[t]
      PROVE  \A t \in Sessions \ {s} : CommandFrame(t)
  BY <1>2 DEF CommandFrame, clientVars
<1>3. CASE Accept(s) \/ hasNewNotification(s) \/ RecvNothing(s) \/ LoopAgain(s)
  BY <1>1, <1>2, <1>3 DEF Accept, hasNewNotification, RecvNothing, LoopAgain, Goto, wireVars
<1>4. CASE Crash
  BY <1>1, <1>2, <1>4 DEF Crash, threadVars
<1>5. CASE RecvBatch(s)
  BY <1>1, <1>2, <1>5 DEF RecvBatch, Goto
<1>6. CASE (send_notification(s) \/ LeaveLoop(s) \/ popNotification(s)) /\ ~Crash
  BY <1>1, <1>2, <1>6 DEF send_notification, LeaveLoop, popNotification, Goto, closeSession,
                          CloseSocket, wireVars
<1>7. CASE Duplicate(s) \/ StrayAck(s) \/ receive_ACK(s)
  BY <1>1, <1>2, <1>7 DEF Duplicate, StrayAck, receive_ACK, Handle, TakePacket, NextPacket,
                          Goto, wireVars
<1>8. CASE receive_CONNECT(s)
  BY <1>1, <1>2, <1>8 DEF receive_CONNECT, Handle, TakePacket, NextPacket, Remember, Refuse,
                          CloseSocket, Goto
<1>9. CASE receive_FOLLOW(s) \/ receive_SEND(s)
  BY <1>1, <1>2, <1>9 DEF receive_FOLLOW, receive_SEND, Handle, TakePacket, NextPacket,
                          Remember, Execute
<1>10. CASE receive_DISCONNECT(s)
  BY <1>1, <1>2, <1>10 DEF receive_DISCONNECT, TakePacket, Remember, closeSession,
                           CloseSocket, Goto
<1>11. CASE \/ get_notification_delivered(s) \/ set_notification_delivered(s)
            \/ WaitReleased(s) \/ WaitTimedOut(s) \/ ClearDelivered(s)
  BY <1>1, <1>2, <1>11 DEF get_notification_delivered, set_notification_delivered,
     WaitReleased, WaitTimedOut, ClearDelivered, Acknowledged, NextPacket, Goto, wireVars
<1> QED
  BY <1>3, <1>4, <1>5, <1>6, <1>7, <1>8, <1>9, <1>10, <1>11 DEF Thread

\* What the invariants say of session s.
LEMMA CommandFacts ==
  ASSUME SessionInv, CommandInv, NEW s \in Sessions
  PROVE  /\ Obeyed(s) /\ typed[s] \in Nat /\ Count(s) \in Nat /\ Count(s) <= typed[s]
         /\ typed[s] <= Len(Script[s]) /\ Len(Script[s]) \in Nat
         /\ toServer[s] \in Seq(Packets) /\ inbuf[s] \in Seq(Packets)
         /\ up /\ spc[s] \notin {"none", "done"} =>
              serverOpen[s] /\ (Asking(s) \/ Joined(s))
         /\ spc[s] = "parse" => inbuf[s] # <<>> /\ Head(inbuf[s]) \in Packets
<1>1. WireTypeOK /\ ServerTypeOK /\ ClientTypeOK /\ HasWork /\ Phase(s) /\ Obeyed(s)
  BY DEF SessionInv, TypeOK, CommandInv
<1>2. /\ typed[s] \in Nat /\ executed[s] \in Seq(CommandsExecuted)
      /\ toServer[s] \in Seq(Packets) /\ inbuf[s] \in Seq(Packets)
  BY <1>1 DEF WireTypeOK, ServerTypeOK, ClientTypeOK
<1>3. Count(s) \in Nat
  BY <1>2, LenProperties DEF Count
<1>4. Len(Script[s]) \in Nat
  BY LenProperties, ClientAssumption DEF ClientAssumption
<1>5. Count(s) <= typed[s] /\ typed[s] <= Len(Script[s])
  BY <1>1 DEF Obeyed, ExecutedFirst
<1>6. up /\ spc[s] \notin {"none", "done"} =>
        serverOpen[s] /\ (Asking(s) \/ Joined(s))
  BY <1>1 DEF Phase, OwnsSocket, Before
<1>7. spc[s] = "parse" => inbuf[s] # <<>> /\ Head(inbuf[s]) \in Packets
  BY <1>1, <1>2, HeadTailProperties DEF HasWork
<1> QED
  BY <1>1, <1>2, <1>3, <1>4, <1>5, <1>6, <1>7

\* A step of the thread that handles no packet, and reads none.
LEMMA ObeyedStill ==
  ASSUME NEW s \in Sessions, Obeyed(s), UNCHANGED clientVars,
         inbuf'[s] = inbuf[s], toServer'[s] = toServer[s], executed'[s] = executed[s],
         max_reference_seqn'[s] = max_reference_seqn[s],
         serverOpen'[s] => serverOpen[s],
         \/ connected'[s] = connected[s] /\ spc[s] # "done"
         \/ ~connected'[s] /\ spc'[s] = "done",
         spc'[s] \in {"none", "send", "peek", "recv", "sleep"} =>
           inbuf[s] = <<>> \/ spc[s] \in {"none", "send", "peek", "recv", "sleep"}
  PROVE  Obeyed(s)'
BY DEF Obeyed, clientVars, OneAtATime, NotYetTyped, BeingTyped, BeingSent, Confirmed,
       ExecutedFirst, NoCommandLost, WasSent, Count

\* A step of the thread that handles a packet.
LEMMA ObeyedTaken ==
  ASSUME SessionInv, CommandInv, NEW s \in Sessions, UNCHANGED clientVars, spc[s] = "parse",
         inbuf'[s] = Tail(inbuf[s]), toServer'[s] = toServer[s],
         serverOpen'[s] => serverOpen[s], ExecutedFirst(s)',
         Count(s)' \in Nat, Count(s) <= Count(s)',
         IsCommand(Head(inbuf[s])) =>
           \E j \in 1..typed[s] : Head(inbuf[s]) = CommandPacket(s, j) /\ j <= Count(s)'
  PROVE  Obeyed(s)'
<1>1. /\ Obeyed(s) /\ typed[s] \in Nat /\ Count(s) \in Nat /\ typed[s] <= Len(Script[s])
      /\ toServer[s] \in Seq(Packets) /\ inbuf[s] \in Seq(Packets)
      /\ inbuf[s] # <<>> /\ Head(inbuf[s]) \in Packets
  BY CommandFacts
<1>2. /\ InTurn(s, inbuf[s], <<>>, typed[s], Count(s))
      /\ InTurn(s, toServer[s], inbuf[s], typed[s], Count(s))
  BY <1>1 DEF Obeyed
<1>3. /\ InTurn(s, Tail(inbuf[s]), <<>>, typed[s], Count(s)')
      /\ InTurn(s, toServer[s], Tail(inbuf[s]), typed[s], Count(s)')
  BY <1>1, <1>2, InTurnTaken
<1>4. ASSUME NEW j \in 1..typed[s], Holds(inbuf[s], CommandPacket(s, j))
      PROVE  j <= Count(s)' \/ Holds(Tail(inbuf[s]), CommandPacket(s, j))
  <2>1. CASE Head(inbuf[s]) = CommandPacket(s, j)
    <3>1. IsCommand(Head(inbuf[s]))
      BY <1>1, <2>1, CommandPacketProperties
    <3>2. PICK k \in 1..typed[s] : Head(inbuf[s]) = CommandPacket(s, k) /\ k <= Count(s)'
      BY <3>1
    <3>3. 2 * k - 1 = 2 * j - 1
      BY <2>1, <3>2 DEF CommandPacket, Packet
    <3> QED
      BY <3>2, <3>3
  <2>2. CASE Head(inbuf[s]) # CommandPacket(s, j)
    BY <1>1, <1>4, <2>2, HoldsParts
  <2> QED
    BY <2>1, <2>2
<1>5. \A j \in 1..typed[s] : WasSent(s, j)' => WasSent(s, j)
  BY DEF WasSent, Confirmed, clientVars
<1>6. NoCommandLost(s)'
  <2>1. ASSUME serverOpen[s], NEW j \in 1..typed[s], WasSent(s, j)
        PROVE  \/ j <= Count(s)' \/ Holds(Tail(inbuf[s]), CommandPacket(s, j))
               \/ Holds(toServer[s], CommandPacket(s, j))
    <3>1. \/ j <= Count(s) \/ Holds(inbuf[s], CommandPacket(s, j))
          \/ Holds(toServer[s], CommandPacket(s, j))
      BY <1>1, <2>1 DEF Obeyed, NoCommandLost
    <3>2. j <= Count(s) => j <= Count(s)'
      BY <1>1
    <3> QED
      BY <1>4, <3>1, <3>2
  <2>2. typed' = typed
    BY DEF clientVars
  <2> QED
    BY <1>5, <2>1, <2>2 DEF NoCommandLost
<1>7. OneAtATime(s)'
  BY <1>1 DEF Obeyed, OneAtATime, NotYetTyped, BeingTyped, BeingSent, Confirmed, clientVars
<1> QED
  BY <1>3, <1>6, <1>7 DEF Obeyed, clientVars


\* One more element of a sequence's beginning.
LEMMA BeginningGrows ==
  ASSUME NEW S, NEW f \in Seq(S), NEW n \in Nat, n < Len(f)
  PROVE  /\ SubSeq(f, 1, n + 1) = Append(SubSeq(f, 1, n), f[n + 1])
         /\ SubSeq(f, 1, n) \in Seq(S) /\ Len(SubSeq(f, 1, n)) = n
         /\ SubSeq(SubSeq(f, 1, n + 1), 1, n) = SubSeq(f, 1, n)
<1>1. Len(f) \in Nat
  BY LenProperties
<1>2. /\ SubSeq(f, 1, n + 1) \in Seq(S) /\ Len(SubSeq(f, 1, n + 1)) = n + 1
      /\ \A i \in 1..(n + 1) : SubSeq(f, 1, n + 1)[i] = f[i]
  <2>1. n + 1 \in Int /\ 1 \in 1..(Len(f) + 1) /\ n + 1 \in 0..Len(f)
    BY <1>1
  <2> QED
    BY <2>1
<1>3. /\ SubSeq(f, 1, n) \in Seq(S) /\ Len(SubSeq(f, 1, n)) = n
      /\ \A i \in 1..n : SubSeq(f, 1, n)[i] = f[i]
  BY <1>1
<1>4. f[n + 1] \in S
  BY <1>1
<1>5. SubSeq(f, 1, n + 1) = Append(SubSeq(f, 1, n), f[n + 1])
  BY <1>1, <1>2, <1>3, <1>4
<1>6. SubSeq(SubSeq(f, 1, n + 1), 1, n) = SubSeq(f, 1, n)
  BY <1>1, <1>2, <1>3
<1> QED
  BY <1>3, <1>5, <1>6

\* The steps of the thread of session s that handle no packet.
LEMMA ServerStillObeyed ==
  ASSUME SessionInv, CommandInv, NEW s \in Sessions, UNCHANGED clientVars,
         \/ Accept(s) \/ hasNewNotification(s) \/ send_notification(s)
         \/ RecvNothing(s) \/ LoopAgain(s) \/ LeaveLoop(s)
         \/ get_notification_delivered(s) \/ set_notification_delivered(s)
         \/ WaitReleased(s) \/ WaitTimedOut(s) \/ popNotification(s) \/ ClearDelivered(s)
  PROVE  Obeyed(s)'
<1>1. /\ toServer \in [Sessions -> Seq(Packets)] /\ serverOpen \in [Sessions -> BOOLEAN]
      /\ spc \in [Sessions -> ThreadPoints] /\ connected \in [Sessions -> BOOLEAN]
      /\ max_reference_seqn \in [Sessions -> Nat] /\ inbuf \in [Sessions -> Seq(Packets)]
      /\ executed \in [Sessions -> Seq(CommandsExecuted)]
  BY DEF SessionInv, TypeOK, WireTypeOK, ServerTypeOK
<1>2. Obeyed(s)
  BY CommandFacts
<1>3. CASE Accept(s) \/ hasNewNotification(s) \/ RecvNothing(s) \/ LoopAgain(s)
  BY <1>1, <1>2, <1>3, ObeyedStill
     DEF Accept, hasNewNotification, RecvNothing, LoopAgain, Goto, wireVars
<1>4. CASE Crash /\ spc[s] # "done"
  BY <1>1, <1>2, <1>4, ObeyedStill DEF Crash, threadVars
<1>5. CASE (send_notification(s) \/ popNotification(s)) /\ ~Crash
  BY <1>1, <1>2, <1>5, ObeyedStill DEF send_notification, popNotification, Goto, wireVars
<1>6. CASE LeaveLoop(s) /\ ~Crash
  BY <1>1, <1>2, <1>6, ObeyedStill DEF LeaveLoop, Goto, closeSession, CloseSocket
<1>7. CASE get_notification_delivered(s) \/ set_notification_delivered(s)
  BY <1>1, <1>2, <1>7, ObeyedStill
     DEF get_notification_delivered, set_notification_delivered, Goto, wireVars
<1>8. CASE WaitReleased(s) \/ WaitTimedOut(s) \/ ClearDelivered(s)
  BY <1>1, <1>2, <1>8, ObeyedStill
     DEF WaitReleased, WaitTimedOut, ClearDelivered, Acknowledged, NextPacket, wireVars
<1>9. Crash => spc[s] # "done"
  BY <1>1 DEF Crash, Accept, hasNewNotification, send_notification, RecvNothing, LoopAgain,
     LeaveLoop, get_notification_delivered, set_notification_delivered, WaitReleased,
     WaitTimedOut, popNotification, ClearDelivered, Acknowledged, Goto
<1> QED
  BY <1>3, <1>4, <1>5, <1>6, <1>7, <1>8, <1>9

\* The thread reads a batch: it has handled the one before.
LEMMA ServerReadObeyed ==
  ASSUME SessionInv, CommandInv, NEW s \in Sessions, UNCHANGED clientVars, RecvBatch(s)
  PROVE  Obeyed(s)'
<1>1. /\ Obeyed(s) /\ typed[s] \in Nat /\ Count(s) \in Nat
      /\ toServer[s] \in Seq(Packets)
  BY CommandFacts
<1>2. /\ toServer \in [Sessions -> Seq(Packets)] /\ spc \in [Sessions -> ThreadPoints]
      /\ inbuf \in [Sessions -> Seq(Packets)]
  BY DEF SessionInv, TypeOK, WireTypeOK, ServerTypeOK
<1>3. PICK batch \in Batches(toServer[s]) :
        /\ inbuf' = [inbuf EXCEPT ![s] = batch]
        /\ toServer' = [toServer EXCEPT ![s] = After(@, batch)]
  BY DEF RecvBatch
<1>4. inbuf'[s] = batch /\ toServer'[s] = After(toServer[s], batch)
  BY <1>2, <1>3
<1>5. /\ spc[s] = "recv" /\ spc'[s] = "parse"
      /\ UNCHANGED <<connected, max_reference_seqn, executed, serverOpen>>
  BY <1>2 DEF RecvBatch, Goto
<1>6. inbuf[s] = <<>>
  BY <1>1, <1>5 DEF Obeyed, ExecutedFirst
<1>7. InTurn(s, toServer[s], <<>>, typed[s], Count(s))
  BY <1>1, <1>6 DEF Obeyed
<1>8. /\ InTurn(s, batch, <<>>, typed[s], Count(s))
      /\ InTurn(s, After(toServer[s], batch), batch, typed[s], Count(s))
  BY <1>1, <1>7, InTurnRead
<1>9. \A c : Holds(inbuf[s], c) \/ Holds(toServer[s], c) =>
               Holds(batch, c) \/ Holds(After(toServer[s], batch), c)
  <2>1. \A c : ~Holds(<<>>, c)
    BY DEF Holds
  <2> QED
    BY <1>1, <1>6, <2>1, HoldsParts
<1>10. Count(s)' = Count(s)
  BY <1>5 DEF Count
<1>11. NoCommandLost(s)'
  <2>1. \A j : WasSent(s, j)' => WasSent(s, j)
    BY DEF WasSent, Confirmed, clientVars
  <2> QED
    BY <1>1, <1>4, <1>5, <1>9, <1>10, <2>1 DEF Obeyed, NoCommandLost, clientVars
<1>12. ExecutedFirst(s)'
  BY <1>1, <1>5, <1>10 DEF Obeyed, ExecutedFirst, clientVars
<1>13. OneAtATime(s)'
  BY <1>1 DEF Obeyed, OneAtATime, NotYetTyped, BeingTyped, BeingSent, Confirmed, clientVars
<1> QED
  BY <1>4, <1>8, <1>10, <1>11, <1>12, <1>13 DEF Obeyed, clientVars


\* The packet a connected session's thread handles: the number it remembers
\* tells a command it executed from the next one.
LEMMA HandledFacts ==
  ASSUME SessionInv, CommandInv, NEW s \in Sessions, up, spc[s] = "parse"
  PROVE  /\ Head(inbuf[s]).type = "CONNECT" =>
              Head(inbuf[s]).seqn = 0 /\ ~connected[s] /\ Count(s) = 0
              /\ max_reference_seqn[s] = 0 /\ Tail(inbuf[s]) = <<>>
         /\ Head(inbuf[s]).type # "CONNECT" => connected[s]
         /\ IsCommand(Head(inbuf[s])) =>
              \E j \in 1..typed[s] :
                /\ Head(inbuf[s]) = CommandPacket(s, j)
                /\ IF Fresh(s) THEN j = Count(s) + 1 ELSE j <= Count(s)
<1>1. /\ Obeyed(s) /\ typed[s] \in Nat /\ Count(s) \in Nat
      /\ inbuf[s] \in Seq(Packets) /\ inbuf[s] # <<>>
      /\ Asking(s) \/ Joined(s)
  BY CommandFacts
<1>2. ExecutedFirst(s) /\ InTurn(s, inbuf[s], <<>>, typed[s], Count(s))
  BY <1>1 DEF Obeyed
<1>3. /\ Head(inbuf[s]).type = "CONNECT" => Head(inbuf[s]).seqn = 0
      /\ IsCommand(Head(inbuf[s])) =>
           \E j \in 1..typed[s] : Head(inbuf[s]) = CommandPacket(s, j) /\ j <= Count(s) + 1
  BY <1>1, <1>2, InTurnHead
<1>4. CASE Asking(s)
  <2>1. OnlyConnect(inbuf[s]) /\ ~connected[s]
    BY <1>4 DEF Asking
  <2>2. Head(inbuf[s]).type = "CONNECT" /\ Tail(inbuf[s]) = <<>>
    BY <1>1, <2>1, TailOnlyConnect
  <2>3. Count(s) = 0 /\ max_reference_seqn[s] = 0
    BY <1>2, <2>1 DEF ExecutedFirst
  <2> QED
    BY <1>3, <2>1, <2>2, <2>3 DEF IsCommand
<1>5. CASE Joined(s)
  <2>1. connected[s] /\ Head(inbuf[s]).type # "CONNECT"
    BY <1>1, <1>5, TailNoConnect DEF Joined
  <2>2. max_reference_seqn[s] = (IF Count(s) = 0 THEN 1 ELSE 2 * Count(s))
    BY <1>2, <2>1 DEF ExecutedFirst
  <2>3. ASSUME IsCommand(Head(inbuf[s]))
        PROVE  \E j \in 1..typed[s] :
                 /\ Head(inbuf[s]) = CommandPacket(s, j)
                 /\ IF Fresh(s) THEN j = Count(s) + 1 ELSE j <= Count(s)
    <3>1. PICK j \in 1..typed[s] : Head(inbuf[s]) = CommandPacket(s, j) /\ j <= Count(s) + 1
      BY <1>3, <2>3
    <3>2. Head(inbuf[s]).seqn = 2 * j - 1
      BY <3>1 DEF CommandPacket, Packet
    <3>3. Fresh(s) <=> 2 * j - 1 >= max_reference_seqn[s]
      BY <3>2 DEF Fresh
    <3>4. IF Fresh(s) THEN j = Count(s) + 1 ELSE j <= Count(s)
      <4>1. CASE Count(s) = 0
        BY <1>1, <2>2, <3>1, <3>3, <4>1
      <4>2. CASE Count(s) # 0
        BY <1>1, <2>2, <3>1, <3>3, <4>2
      <4> QED
        BY <4>1, <4>2
    <3> QED
      BY <3>1, <3>4
  <2> QED
    BY <2>1, <2>3
<1> QED
  BY <1>1, <1>4, <1>5

\* The thread executes the command that was typed next.
LEMMA CommandExecuted ==
  ASSUME SessionInv, CommandInv, NEW s \in Sessions, UNCHANGED clientVars,
         receive_FOLLOW(s) \/ receive_SEND(s)
  PROVE  ExecutedFirst(s)' /\ Count(s)' = Count(s) + 1
<1>1. /\ Obeyed(s) /\ typed[s] \in Nat /\ Count(s) \in Nat
      /\ typed[s] <= Len(Script[s]) /\ Len(Script[s]) \in Nat
  BY CommandFacts
<1>2. /\ executed \in [Sessions -> Seq(CommandsExecuted)] /\ inbuf \in [Sessions -> Seq(Packets)]
      /\ max_reference_seqn \in [Sessions -> Nat] /\ spc \in [Sessions -> ThreadPoints]
  BY DEF SessionInv, TypeOK, WireTypeOK, ServerTypeOK
<1>3. /\ up /\ spc[s] = "parse" /\ Fresh(s) /\ IsCommand(Head(inbuf[s]))
      /\ Handle(s) /\ Remember(s) /\ Execute(s) /\ UNCHANGED connected
  BY DEF receive_FOLLOW, receive_SEND, Parsing, IsCommand
<1>4. PICK j \in 1..typed[s] : Head(inbuf[s]) = CommandPacket(s, j) /\ j = Count(s) + 1
  BY <1>3, HandledFacts
<1>5. connected[s]
  BY <1>3, HandledFacts DEF IsCommand
<1>6. executed[s] = SubSeq(Script[s], 1, Count(s))
  BY <1>1 DEF Obeyed, ExecutedFirst
<1>7. j \in 1..Len(Script[s])
  BY <1>1
<1>8. Script[s] \in Seq([type : {"FOLLOW", "SEND"}, data : Data])
  BY ClientAssumption DEF ClientAssumption
<1>9. Script[s][j] \in [type : {"FOLLOW", "SEND"}, data : Data]
  BY <1>7, <1>8, ElementOfSeq
<1>10. [type |-> Head(inbuf[s]).type, data |-> Head(inbuf[s]).data] = Script[s][j]
  <2>1. Head(inbuf[s]).type = Script[s][j].type /\ Head(inbuf[s]).data = Script[s][j].data
    BY <1>4 DEF CommandPacket, Packet
  <2>2. Script[s][j] = [type |-> Script[s][j].type, data |-> Script[s][j].data]
    BY <1>9
  <2> QED
    BY <2>1, <2>2
<1>11. executed'[s] = Append(executed[s], Script[s][j])
  BY <1>2, <1>3, <1>10 DEF Execute
<1>12. executed'[s] = SubSeq(Script[s], 1, j)
  <2>1. Count(s) < Len(Script[s])
    BY <1>1, <1>4, <1>7
  <2>2. SubSeq(Script[s], 1, Count(s) + 1)
          = Append(SubSeq(Script[s], 1, Count(s)), Script[s][Count(s) + 1])
    BY <1>1, <1>8, <2>1, BeginningGrows
  <2> QED
    BY <1>4, <1>6, <1>11, <2>2
<1>13. Len(executed'[s]) = Count(s) + 1
  <2>1. executed[s] \in Seq(CommandsExecuted)
    BY <1>2
  <2>2. Script[s][j] \in CommandsExecuted
    BY <1>9 DEF CommandsExecuted, Payloads
  <2> QED
    BY <1>11, <2>1, <2>2, AppendProperties DEF Count
<1>14. Count(s)' = Count(s) + 1
  BY <1>13 DEF Count
<1>15. max_reference_seqn'[s] = 2 * (Count(s) + 1)
  <2>1. Head(inbuf[s]).seqn = 2 * j - 1
    BY <1>4 DEF CommandPacket, Packet
  <2> QED
    BY <1>1, <1>2, <1>3, <1>4, <2>1 DEF Remember
<1>16. spc'[s] \in {"sleep", "parse"} /\ (spc'[s] = "sleep" => inbuf'[s] = <<>>)
  BY <1>2, <1>3 DEF Handle, TakePacket, NextPacket
<1>17. Count(s) + 1 <= typed[s] /\ Count(s) + 1 # 0
  BY <1>1, <1>4
<1> QED
  BY <1>1, <1>3, <1>4, <1>5, <1>12, <1>14, <1>15, <1>16, <1>17
     DEF Obeyed, ExecutedFirst, clientVars

\* The handlers.
LEMMA HandlerObeyed ==
  ASSUME SessionInv, CommandInv, NEW s \in Sessions, UNCHANGED clientVars,
         \/ Duplicate(s) \/ receive_CONNECT(s) \/ receive_FOLLOW(s) \/ receive_SEND(s)
         \/ receive_DISCONNECT(s) \/ StrayAck(s) \/ receive_ACK(s)
  PROVE  Obeyed(s)'
<1>1. /\ Obeyed(s) /\ typed[s] \in Nat /\ Count(s) \in Nat
      /\ inbuf[s] \in Seq(Packets) /\ inbuf[s] # <<>>
  <2>1. spc[s] = "parse"
    BY DEF Duplicate, receive_CONNECT, receive_FOLLOW, receive_SEND, receive_DISCONNECT,
           StrayAck, receive_ACK, Parsing
  <2> QED
    BY <2>1, CommandFacts
<1>2. /\ toServer \in [Sessions -> Seq(Packets)] /\ serverOpen \in [Sessions -> BOOLEAN]
      /\ spc \in [Sessions -> ThreadPoints] /\ connected \in [Sessions -> BOOLEAN]
      /\ max_reference_seqn \in [Sessions -> Nat] /\ inbuf \in [Sessions -> Seq(Packets)]
  BY DEF SessionInv, TypeOK, WireTypeOK, ServerTypeOK
<1>3. ExecutedFirst(s)
  BY <1>1 DEF Obeyed
<1>4. /\ up /\ spc[s] = "parse" /\ inbuf'[s] = Tail(inbuf[s]) /\ toServer'[s] = toServer[s]
      /\ serverOpen'[s] => serverOpen[s]
  BY <1>2 DEF Duplicate, receive_CONNECT, receive_FOLLOW, receive_SEND, receive_DISCONNECT,
     StrayAck, receive_ACK, Parsing, Handle, TakePacket, closeSession, CloseSocket, Refuse,
     wireVars
<1>5. ASSUME ExecutedFirst(s)', Count(s)' \in Nat, Count(s) <= Count(s)',
             IsCommand(Head(inbuf[s])) =>
               \E j \in 1..typed[s] : Head(inbuf[s]) = CommandPacket(s, j) /\ j <= Count(s)'
      PROVE  Obeyed(s)'
  BY <1>4, <1>5, ObeyedTaken
\* Handlers that leave no trace in the session.
<1>6. CASE Duplicate(s) \/ StrayAck(s) \/ receive_ACK(s)
  <2>1. /\ UNCHANGED <<connected, max_reference_seqn, executed>>
        /\ spc'[s] \in {"sleep", "parse", "pop", "flag"}
        /\ spc'[s] = "sleep" => inbuf'[s] = <<>>
    BY <1>2, <1>4, <1>6
       DEF Duplicate, StrayAck, receive_ACK, Handle, TakePacket, NextPacket, Goto
  <2>2. Count(s)' = Count(s)
    BY <2>1 DEF Count
  <2>3. ExecutedFirst(s)'
    BY <1>3, <1>4, <2>1, <2>2 DEF ExecutedFirst, clientVars
  <2>4. IsCommand(Head(inbuf[s])) => ~Fresh(s)
    BY <1>6 DEF Duplicate, StrayAck, receive_ACK, Parsing, IsCommand
  <2>5. IsCommand(Head(inbuf[s])) =>
          \E j \in 1..typed[s] : Head(inbuf[s]) = CommandPacket(s, j) /\ j <= Count(s)'
    BY <1>4, <2>2, <2>4, HandledFacts
  <2> QED
    BY <1>1, <1>5, <2>2, <2>3, <2>5
<1>7. CASE receive_CONNECT(s)
  <2>1. Head(inbuf[s]).type = "CONNECT"
    BY <1>7 DEF receive_CONNECT, Parsing
  <2>2. /\ Head(inbuf[s]).seqn = 0 /\ ~connected[s] /\ Count(s) = 0 /\ Tail(inbuf[s]) = <<>>
    BY <1>4, <2>1, HandledFacts
  <2>3. /\ UNCHANGED executed /\ max_reference_seqn'[s] = 1
        /\ connected'[s] \/ spc'[s] = "done"
    BY <1>2, <1>7, <2>2 DEF receive_CONNECT, Remember, Refuse, Goto
  <2>4. Count(s)' = Count(s)
    BY <2>3 DEF Count
  <2>5. connected'[s] \/ (spc'[s] = "done" /\ ~connected'[s])
    BY <1>2, <1>7, <2>2, <2>3 DEF receive_CONNECT
  <2>6. ExecutedFirst(s)'
    BY <1>3, <1>4, <2>2, <2>3, <2>4, <2>5 DEF ExecutedFirst, clientVars
  <2> QED
    BY <1>1, <1>5, <2>1, <2>4, <2>6 DEF IsCommand
<1>8. CASE receive_FOLLOW(s) \/ receive_SEND(s)
  <2>1. ExecutedFirst(s)' /\ Count(s)' = Count(s) + 1
    BY <1>8, CommandExecuted
  <2>2. Fresh(s)
    BY <1>8 DEF receive_FOLLOW, receive_SEND
  <2>3. IsCommand(Head(inbuf[s])) =>
          \E j \in 1..typed[s] : Head(inbuf[s]) = CommandPacket(s, j) /\ j = Count(s) + 1
    BY <1>4, <2>2, HandledFacts
  <2>4. Count(s)' \in Nat /\ Count(s) <= Count(s)'
    BY <1>1, <2>1
  <2>5. IsCommand(Head(inbuf[s])) =>
          \E j \in 1..typed[s] : Head(inbuf[s]) = CommandPacket(s, j) /\ j <= Count(s)'
    BY <1>1, <2>1, <2>3
  <2> QED
    BY <1>5, <2>1, <2>4, <2>5
<1>9. CASE receive_DISCONNECT(s)
  <2>1. /\ UNCHANGED executed /\ spc'[s] = "done" /\ ~connected'[s]
        /\ Head(inbuf[s]).type = "DISCONNECT"
    BY <1>2, <1>9 DEF receive_DISCONNECT, Parsing, Goto, closeSession
  <2>2. Count(s)' = Count(s)
    BY <2>1 DEF Count
  <2>3. ExecutedFirst(s)'
    BY <1>3, <2>1, <2>2 DEF ExecutedFirst, clientVars
  <2> QED
    BY <1>1, <1>5, <2>1, <2>2, <2>3 DEF IsCommand
<1> QED
  BY <1>6, <1>7, <1>8, <1>9

\* The server does what it is told, once and in turn.
LEMMA ServerObeys ==
  ASSUME SessionInv, CommandInv, ServerNext, UNCHANGED clientVars
  PROVE  CommandInv'
<1>1. \A t \in Sessions : Obeyed(t)
  BY CommandFacts
<1>2. /\ serverOpen \in [Sessions -> BOOLEAN] /\ TypeOK
  BY DEF SessionInv, TypeOK, WireTypeOK
<1>3. CASE set_termination_signal \/ StopListening \/ ExitServer \/ addNotification
  <2>1. \A t \in Sessions : CommandFrame(t)
    BY <1>2, <1>3 DEF set_termination_signal, StopListening, ExitServer, addNotification,
       threadVars, wireVars, clientVars, CommandFrame
  <2> QED
    BY <1>1, <2>1, ObeyedSame DEF CommandInv
<1>4. ASSUME NEW s \in Sessions, Accept(s) \/ Thread(s)
      PROVE  CommandInv'
  <2>1. \A t \in Sessions \ {s} : CommandFrame(t)
    BY <1>2, <1>4, ThreadFrame
  <2>2. \A t \in Sessions \ {s} : Obeyed(t)'
    BY <1>1, <2>1, ObeyedSame
  <2>3. Obeyed(s)'
    BY <1>4, ServerStillObeyed, ServerReadObeyed, HandlerObeyed DEF Thread
  <2> QED
    BY <2>2, <2>3 DEF CommandInv
<1> QED
  BY <1>3, <1>4 DEF ServerNext


-----------------------------------------------------------------------------
(* Commands: the client *)

\* A client leaves the other sessions alone.
LEMMA ClientCommandFrame ==
  ASSUME TypeOK, UNCHANGED serverVars, NEW s \in Sessions,
         \/ Communication(s) \/ Interface(s) \/ Quit(s) \/ Kill(s) \/ LoseConnection(s)
  PROVE  /\ \A t \in Sessions \ {s} : CommandFrame(t)
         /\ UNCHANGED serverOpen
<1>1. /\ toServer \in [Sessions -> Seq(Packets)]
      /\ cpc \in [Sessions -> {"connect", "await", "loop", "send", "sending", "dead"}]
      /\ ipc \in [Sessions -> {"idle", "push"}] /\ client_seqn \in [Sessions -> Nat]
      /\ payload \in [Sessions -> Payloads] /\ pending \in [Sessions -> CommandPackets]
      /\ packets_to_send \in [Sessions -> Seq(CommandPackets)]
      /\ outgoing \in [Sessions -> CommandPackets] /\ typed \in [Sessions -> Nat]
  BY DEF TypeOK, WireTypeOK, ClientTypeOK
<1>2. ASSUME UNCHANGED serverOpen,
             \A t \in Sessions \ {s} :
               /\ cpc'[t] = cpc[t] /\ ipc'[t] = ipc[t] /\ client_seqn'[t] = client_seqn[t]
               /\ packets_to_send'[t] = packets_to_send[t] /\ pending'[t] = pending[t]
               /\ payload'[t] = payload[t] /\ outgoing'[t] = outgoing[t]
               /\ typed'[t] = typed[t] /\ toServer'[t] = toServer[t]
      PROVE  /\ \A t \in Sessions \ {s} : CommandFrame(t)
             /\ UNCHANGED serverOpen
  BY <1>2 DEF CommandFrame, serverVars, threadVars
<1>3. CASE Interface(s) \/ Quit(s)
  BY <1>1, <1>2, <1>3 DEF Interface, TypeCommand, PushCommand, Display, Quit, Set, wireVars
<1>4. CASE Kill(s) \/ LoseConnection(s) \/ Disconnect(s)
  BY <1>1, <1>2, <1>4 DEF Kill, LoseConnection, Disconnect, Exit, Set, ClientWrites, Written
<1>5. CASE send_connect_message(s) \/ ReceiveConnectReply(s)
  BY <1>1, <1>2, <1>5 DEF send_connect_message, ReceiveConnectReply, CGoto, Set,
                          ClientWrites, Written
<1>6. CASE LoopReceive(s) \/ LoopNothing(s)
  BY <1>1, <1>2, <1>6 DEF LoopReceive, LoopNothing, CGoto, Set, ClientWrites, Written, wireVars
<1>7. CASE send_message(s)
  BY <1>1, <1>2, <1>7 DEF send_message, CGoto, Set, ClientWrites, Written
<1>8. CASE ReadNothing(s) \/ ReadReply(s)
  BY <1>1, <1>2, <1>8 DEF ReadNothing, ReadReply, Retry, CGoto, Set, ClientWrites, Written,
                          wireVars
<1> QED
  BY <1>3, <1>4, <1>5, <1>6, <1>7, <1>8 DEF Communication

\* A step of the client that types nothing, and writes nothing or a packet:
\* a command only if it is the one it typed last.
LEMMA ClientStillObeyed ==
  ASSUME SessionInv, CommandInv, NEW s \in Sessions, UNCHANGED serverVars,
         UNCHANGED <<serverOpen, typed>>, OneAtATime(s)',
         \/ toServer'[s] = toServer[s]
         \/ \E p \in Packets :
              /\ toServer'[s] = (IF serverOpen[s] THEN Append(toServer[s], p) ELSE toServer[s])
              /\ \/ p.type \in {"ACK", "DISCONNECT"}
                 \/ p.type = "CONNECT" /\ p.seqn = 0
                 \/ typed[s] > 0 /\ p = CommandPacket(s, typed[s]),
         serverOpen[s] /\ WasSent(s, typed[s])' =>
           WasSent(s, typed[s]) \/ Holds(toServer'[s], CommandPacket(s, typed[s]))
  PROVE  Obeyed(s)'
<1>1. /\ Obeyed(s) /\ typed[s] \in Nat /\ Count(s) \in Nat /\ Count(s) <= typed[s]
      /\ typed[s] <= Len(Script[s]) /\ Len(Script[s]) \in Nat
      /\ toServer[s] \in Seq(Packets) /\ inbuf[s] \in Seq(Packets)
  BY CommandFacts
<1>2. /\ ExecutedFirst(s) /\ NoCommandLost(s)
      /\ InTurn(s, inbuf[s], <<>>, typed[s], Count(s))
      /\ InTurn(s, toServer[s], inbuf[s], typed[s], Count(s))
  BY <1>1 DEF Obeyed
<1>3. /\ UNCHANGED <<executed, inbuf, max_reference_seqn, connected, spc>>
      /\ Count(s)' = Count(s)
  BY DEF serverVars, threadVars, Count
<1>4. \/ toServer'[s] = toServer[s]
      \/ \E p \in Packets :
           /\ serverOpen[s] /\ toServer'[s] = Append(toServer[s], p)
           /\ \/ p.type \in {"ACK", "DISCONNECT"}
              \/ p.type = "CONNECT" /\ p.seqn = 0
              \/ typed[s] > 0 /\ p = CommandPacket(s, typed[s])
  OBVIOUS
<1>5. /\ InTurn(s, toServer'[s], inbuf[s], typed[s], Count(s))
      /\ \A c : Holds(toServer[s], c) => Holds(toServer'[s], c)
  <2>1. CASE toServer'[s] = toServer[s]
    BY <1>2, <2>1
  <2>2. ASSUME NEW p \in Packets, serverOpen[s], toServer'[s] = Append(toServer[s], p),
               \/ p.type \in {"ACK", "DISCONNECT"}
               \/ p.type = "CONNECT" /\ p.seqn = 0
               \/ typed[s] > 0 /\ p = CommandPacket(s, typed[s])
        PROVE  /\ InTurn(s, toServer'[s], inbuf[s], typed[s], Count(s))
               /\ \A c : Holds(toServer[s], c) => Holds(toServer'[s], c)
    <3>1. ASSUME typed[s] > 0
          PROVE  \/ typed[s] - 1 <= Count(s)
                 \/ Holds(inbuf[s], CommandPacket(s, typed[s] - 1))
                 \/ Holds(toServer[s], CommandPacket(s, typed[s] - 1))
      <4>1. CASE typed[s] = 1
        BY <1>1, <4>1
      <4>2. CASE typed[s] > 1
        <5>1. typed[s] - 1 \in 1..typed[s] /\ typed[s] - 1 < typed[s]
          BY <1>1, <4>2
        <5>2. WasSent(s, typed[s] - 1)
          BY <5>1 DEF WasSent
        <5> QED
          BY <1>2, <2>2, <5>1, <5>2 DEF NoCommandLost
      <4> QED
        BY <1>1, <3>1, <4>1, <4>2
    <3>2. InTurn(s, Append(toServer[s], p), inbuf[s], typed[s], Count(s))
      BY <1>1, <1>2, <2>2, <3>1, InTurnWritten
    <3>3. \A c : Holds(toServer[s], c) => Holds(Append(toServer[s], p), c)
      BY <1>1, HoldsParts
    <3> QED
      BY <2>2, <3>2, <3>3
  <2> QED
    BY <1>4, <2>1, <2>2
<1>6. NoCommandLost(s)'
  <2>1. ASSUME serverOpen[s], NEW j \in 1..typed[s], WasSent(s, j)'
        PROVE  \/ j <= Count(s) \/ Holds(inbuf[s], CommandPacket(s, j))
               \/ Holds(toServer'[s], CommandPacket(s, j))
    <3>1. CASE WasSent(s, j)
      BY <1>2, <1>5, <2>1, <3>1 DEF NoCommandLost
    <3>2. CASE ~WasSent(s, j)
      <4>1. j = typed[s]
        BY <1>1, <3>2 DEF WasSent
      <4> QED
        BY <2>1, <3>2, <4>1
    <3> QED
      BY <3>1, <3>2
  <2> QED
    BY <1>3, <2>1 DEF NoCommandLost
<1>7. ExecutedFirst(s)'
  BY <1>2, <1>3 DEF ExecutedFirst
<1> QED
  BY <1>2, <1>3, <1>5, <1>6, <1>7 DEF Obeyed


\* The types a client's step needs.
LEMMA ClientTypes ==
  ASSUME SessionInv
  PROVE  /\ toServer \in [Sessions -> Seq(Packets)] /\ toClient \in [Sessions -> Seq(Packets)]
         /\ cpc \in [Sessions -> {"connect", "await", "loop", "send", "sending", "dead"}]
         /\ ipc \in [Sessions -> {"idle", "push"}] /\ client_seqn \in [Sessions -> Nat]
         /\ payload \in [Sessions -> Payloads] /\ pending \in [Sessions -> CommandPackets]
         /\ packets_to_send \in [Sessions -> Seq(CommandPackets)]
         /\ outgoing \in [Sessions -> CommandPackets] /\ typed \in [Sessions -> Nat]
BY DEF SessionInv, TypeOK, WireTypeOK, ClientTypeOK

\* The user types a command when the one before is confirmed.
LEMMA TypedObeyed ==
  ASSUME SessionInv, CommandInv, NEW s \in Sessions, UNCHANGED serverVars, Patient = TRUE,
         TypeCommand(s)
  PROVE  Obeyed(s)'
<1>1. /\ Obeyed(s) /\ typed[s] \in Nat /\ Count(s) \in Nat /\ Count(s) <= typed[s]
      /\ Len(Script[s]) \in Nat
  BY CommandFacts
<1>2. /\ ExecutedFirst(s) /\ NoCommandLost(s) /\ OneAtATime(s)
      /\ InTurn(s, inbuf[s], <<>>, typed[s], Count(s))
      /\ InTurn(s, toServer[s], inbuf[s], typed[s], Count(s))
  BY <1>1 DEF Obeyed
<1> DEFINE n == typed[s]
           command == Script[s][n + 1]
<1>3. /\ cpc[s] = "loop" /\ packets_to_send[s] = <<>> /\ ipc[s] = "idle"
      /\ n < Len(Script[s])
      /\ payload' = Set(payload, s, command.data)
      /\ pending' = Set(pending, s, Packet(command.type, client_seqn[s], NoData))
      /\ typed' = Set(typed, s, n + 1) /\ ipc' = Set(ipc, s, "push")
      /\ UNCHANGED <<cpc, client_seqn, packets_to_send, toServer, serverOpen>>
  BY DEF TypeCommand, CanType, wireVars
<1>4. Confirmed(s)
  BY <1>2, <1>3 DEF OneAtATime, NotYetTyped, BeingTyped, BeingSent
<1>5. /\ payload'[s] = command.data /\ typed'[s] = n + 1 /\ ipc'[s] = "push"
      /\ pending'[s] = Packet(command.type, client_seqn[s], NoData)
  BY <1>3, ClientTypes DEF Set
<1>6. /\ UNCHANGED <<executed, inbuf, max_reference_seqn, connected, spc>>
      /\ Count(s)' = Count(s)
  BY DEF serverVars, threadVars, Count
<1>7. client_seqn[s] = 2 * (n + 1) - 1
  BY <1>1, <1>4 DEF Confirmed
<1>8. pending'[s] = QueuedPacket(s, n + 1)
  BY <1>5, <1>7 DEF QueuedPacket, CommandPacket, Packet
<1>9. OneAtATime(s)'
  <2>1. client_seqn'[s] = 2 * typed'[s] - 1 /\ typed'[s] > 0
    BY <1>1, <1>3, <1>5, <1>7
  <2> QED
    BY <1>3, <1>5, <1>8, <2>1 DEF OneAtATime, BeingTyped
<1>10. ExecutedFirst(s)'
  <2>1. Count(s) <= n + 1 /\ n + 1 <= Len(Script[s])
    BY <1>1, <1>3
  <2> QED
    BY <1>2, <1>5, <1>6, <2>1 DEF ExecutedFirst
<1>11. NoCommandLost(s)'
  <2>1. ASSUME NEW j \in 1..(n + 1), WasSent(s, j)'
        PROVE  j \in 1..n /\ WasSent(s, j)
    <3>1. j < n + 1
      BY <1>3, <1>5, <2>1 DEF WasSent, Confirmed
    <3> QED
      BY <1>1, <1>4, <3>1 DEF WasSent
  <2> QED
    BY <1>2, <1>3, <1>5, <1>6, <2>1 DEF NoCommandLost
<1>12. /\ InTurn(s, inbuf[s], <<>>, n + 1, Count(s))
       /\ InTurn(s, toServer[s], inbuf[s], n + 1, Count(s))
  <2>1. /\ n \in Nat /\ n + 1 \in Nat /\ n <= n + 1 /\ Count(s) <= Count(s)
        /\ inbuf[s] \in Seq(Packets) /\ toServer[s] \in Seq(Packets)
    BY <1>1, CommandFacts
  <2> QED
    BY <1>1, <1>2, <2>1, InTurnStays
<1> QED
  BY <1>3, <1>5, <1>6, <1>9, <1>10, <1>11, <1>12 DEF Obeyed

\* The interface thread puts the command into the FIFO.
LEMMA PushedObeyed ==
  ASSUME SessionInv, CommandInv, NEW s \in Sessions, UNCHANGED serverVars, PushCommand(s)
  PROVE  Obeyed(s)'
<1>1. OneAtATime(s) /\ typed[s] \in Nat
  BY CommandFacts DEF Obeyed
<1>2. /\ cpc[s] \notin {"dead", "sending"} /\ ipc[s] = "push"
      /\ packets_to_send' = Set(packets_to_send, s, Append(packets_to_send[s], pending[s]))
      /\ ipc' = Set(ipc, s, "idle")
      /\ UNCHANGED <<cpc, payload, typed, toServer, serverOpen>>
  BY DEF PushCommand, wireVars
<1>3. BeingTyped(s)
  BY <1>1, <1>2 DEF OneAtATime, NotYetTyped, BeingSent, Confirmed
<1>4. client_seqn[s] = 2 * typed[s] - 1 /\ pending[s].seqn = 2 * typed[s] - 1
  BY <1>3 DEF BeingTyped, QueuedPacket, CommandPacket, Packet
<1>5. client_seqn'[s] = 2 * typed[s]
  <2>1. PICK n \in {client_seqn[s], pending[s].seqn} : client_seqn' = Set(client_seqn, s, n + 1)
    BY DEF PushCommand
  <2>2. n + 1 = 2 * typed[s]
    BY <1>1, <1>4, <2>1
  <2> QED
    BY <2>1, <2>2, ClientTypes DEF Set
<1>6. packets_to_send'[s] = <<QueuedPacket(s, typed[s])>> /\ ipc'[s] = "idle"
  <2>1. packets_to_send[s] = <<>> /\ pending[s] = QueuedPacket(s, typed[s])
    BY <1>3 DEF BeingTyped
  <2>2. Append(<<>>, pending[s]) = <<pending[s]>>
    OBVIOUS
  <2> QED
    BY <1>2, <2>1, <2>2, ClientTypes DEF Set
<1>7. OneAtATime(s)'
  BY <1>2, <1>3, <1>5, <1>6 DEF OneAtATime, BeingTyped, BeingSent
<1>8. ~WasSent(s, typed[s])'
  BY <1>1, <1>2, <1>6 DEF WasSent, Confirmed
<1> QED
  BY <1>2, <1>7, <1>8, ClientStillObeyed

\* The client ends: a DISCONNECT is the last packet it sends, if any.
LEMMA EndedObeyed ==
  ASSUME SessionInv, CommandInv, NEW s \in Sessions, UNCHANGED serverVars,
         Kill(s) \/ LoseConnection(s) \/ Disconnect(s)
  PROVE  Obeyed(s)'
<1>1. typed[s] \in Nat /\ client_seqn[s] \in Nat
  BY ClientTypes
<1>2. cpc'[s] = "dead" /\ UNCHANGED <<serverOpen, typed>>
  BY ClientTypes DEF Kill, LoseConnection, Disconnect, Exit, Set
<1>3. \/ toServer'[s] = toServer[s]
      \/ \E p \in Packets :
           /\ toServer'[s] = (IF serverOpen[s] THEN Append(toServer[s], p) ELSE toServer[s])
           /\ p.type \in {"ACK", "DISCONNECT"}
  <2>1. CASE Kill(s) \/ LoseConnection(s)
    BY <2>1 DEF Kill, LoseConnection
  <2>2. CASE Disconnect(s)
    <3> DEFINE p == Packet("DISCONNECT", client_seqn[s], NoData)
    <3>1. p \in Packets
      BY <1>1, PacketType DEF PacketTypes, Payloads
    <3>2. p.type \in {"ACK", "DISCONNECT"}
      BY DEF Packet
    <3>3. toServer' = Written(toServer, s, p, serverOpen)
      BY <2>2 DEF Disconnect, ClientWrites
    <3> HIDE DEF p
    <3>4. toServer'[s] = (IF serverOpen[s] THEN Append(toServer[s], p) ELSE toServer[s])
      BY <3>3, ClientTypes DEF Written
    <3> QED
      BY <3>1, <3>2, <3>4
  <2> QED
    BY <2>1, <2>2
<1>4. OneAtATime(s)'
  BY <1>2 DEF OneAtATime
<1>5. ~WasSent(s, typed[s])'
  BY <1>1, <1>2 DEF WasSent, Confirmed
<1> QED
  BY <1>2, <1>3, <1>4, <1>5, ClientStillObeyed


\* The communication thread connects.
LEMMA ConnectObeyed ==
  ASSUME SessionInv, CommandInv, NEW s \in Sessions, UNCHANGED serverVars,
         send_connect_message(s) \/ ReceiveConnectReply(s)
  PROVE  Obeyed(s)'
<1>1. OneAtATime(s) /\ typed[s] \in Nat /\ client_seqn[s] \in Nat
  BY CommandFacts, ClientTypes DEF Obeyed
<1>2. /\ cpc[s] \in {"connect", "await"}
      /\ UNCHANGED <<serverOpen, typed, ipc, packets_to_send>>
  BY DEF send_connect_message, ReceiveConnectReply, CGoto
<1>3. NotYetTyped(s)
  BY <1>1, <1>2 DEF OneAtATime, BeingTyped, BeingSent, Confirmed
<1>4. typed[s] = 0 /\ client_seqn[s] = 0
  BY <1>3 DEF NotYetTyped
<1>5. CASE send_connect_message(s)
  <2> DEFINE p == Packet("CONNECT", client_seqn[s], NoData)
  <2>1. p \in Packets
    BY <1>1, PacketType DEF PacketTypes, Payloads
  <2>2. p.type = "CONNECT" /\ p.seqn = 0
    BY <1>4 DEF Packet
  <2>3. toServer' = Written(toServer, s, p, serverOpen)
    BY <1>5 DEF send_connect_message, ClientWrites
  <2> HIDE DEF p
  <2>4. toServer'[s] = (IF serverOpen[s] THEN Append(toServer[s], p) ELSE toServer[s])
    BY <2>3, ClientTypes DEF Written
  <2>5. cpc'[s] = "await" /\ UNCHANGED client_seqn
    BY <1>5, ClientTypes DEF send_connect_message, CGoto
  <2>6. OneAtATime(s)'
    BY <1>2, <1>3, <2>5 DEF OneAtATime, NotYetTyped
  <2>7. ~WasSent(s, typed[s])'
    BY <1>1, <1>2, <2>5 DEF WasSent, Confirmed
  <2> QED
    BY <1>2, <2>1, <2>2, <2>4, <2>6, <2>7, ClientStillObeyed
<1>6. CASE ReceiveConnectReply(s)
  <2>1. UNCHANGED toServer
    BY <1>6 DEF ReceiveConnectReply
  <2>2. \/ cpc'[s] = "loop" /\ client_seqn'[s] = 1
        \/ cpc'[s] = "connect" /\ client_seqn'[s] = 0
    BY <1>4, <1>6, ClientTypes DEF ReceiveConnectReply, CGoto, Set
  <2>3. OneAtATime(s)'
    BY <1>2, <1>3, <1>4, <2>2 DEF OneAtATime, NotYetTyped, Confirmed
\* Nothing was typed, so that nothing was sent: there is no command 0.
  <2>4. Obeyed(s)
    BY CommandFacts
  <2>5. /\ UNCHANGED <<executed, inbuf, max_reference_seqn, connected, spc>>
        /\ Count(s)' = Count(s)
    BY DEF serverVars, threadVars, Count
  <2>6. ExecutedFirst(s)'
    BY <1>2, <2>4, <2>5 DEF Obeyed, ExecutedFirst
  <2>7. NoCommandLost(s)'
    BY <1>2, <1>4 DEF NoCommandLost
  <2> QED
    BY <1>2, <2>1, <2>3, <2>4, <2>5, <2>6, <2>7 DEF Obeyed
<1> QED
  BY <1>5, <1>6

\* The communication loop acknowledges what it reads, and turns to the FIFO
\* if it holds a command.
LEMMA LoopObeyed ==
  ASSUME SessionInv, CommandInv, NEW s \in Sessions, UNCHANGED serverVars,
         LoopReceive(s) \/ LoopNothing(s)
  PROVE  Obeyed(s)'
<1>1. OneAtATime(s)
  BY CommandFacts DEF Obeyed
<1>2. /\ cpc[s] = "loop" /\ cpc'[s] \in {"loop", "send"}
      /\ cpc'[s] = "send" => packets_to_send[s] # <<>>
      /\ UNCHANGED <<ipc, client_seqn, payload, pending, packets_to_send, outgoing, typed,
                     serverOpen>>
  BY ClientTypes DEF LoopReceive, LoopNothing, CGoto, CanSend, wireVars
<1>3. OneAtATime(s)'
  BY <1>1, <1>2 DEF OneAtATime, NotYetTyped, BeingTyped, BeingSent, Confirmed
<1>4. \/ toServer'[s] = toServer[s]
      \/ \E p \in Packets :
           /\ toServer'[s] = (IF serverOpen[s] THEN Append(toServer[s], p) ELSE toServer[s])
           /\ p.type \in {"ACK", "DISCONNECT"}
  <2>1. CASE LoopNothing(s)
    BY <2>1 DEF LoopNothing, wireVars
  <2>2. CASE LoopReceive(s)
    <3>1. PICK batch \in Batches(toClient[s]) :
            ClientWrites(s, Packet("ACK", Head(batch).seqn, NoData))
      BY <2>2 DEF LoopReceive
    <3>2. Head(batch) \in Packets
      BY BatchProperties, ClientTypes
    <3>3. Head(batch).seqn \in Nat
      BY <3>2 DEF Packets
    <3> DEFINE p == Packet("ACK", Head(batch).seqn, NoData)
    <3>4. p \in Packets
      BY <3>3, PacketType DEF PacketTypes, Payloads
    <3>5. p.type \in {"ACK", "DISCONNECT"}
      BY DEF Packet
    <3>6. toServer' = Written(toServer, s, p, serverOpen)
      BY <3>1 DEF ClientWrites
    <3> HIDE DEF p
    <3>7. toServer'[s] = (IF serverOpen[s] THEN Append(toServer[s], p) ELSE toServer[s])
      BY <3>6, ClientTypes DEF Written
    <3> QED
      BY <3>4, <3>5, <3>7
  <2> QED
    BY <2>1, <2>2
<1>5. WasSent(s, typed[s])' => WasSent(s, typed[s])
  BY <1>2 DEF WasSent, Confirmed
<1> QED
  BY <1>2, <1>3, <1>4, <1>5, ClientStillObeyed

\* The client's write of the command it typed last.
LEMMA CommandWritten ==
  ASSUME SessionInv, CommandInv, NEW s \in Sessions, typed[s] > 0,
         ClientWrites(s, CommandPacket(s, typed[s]))
  PROVE  /\ CommandPacket(s, typed[s]) \in Packets
         /\ toServer'[s] = (IF serverOpen[s] THEN Append(toServer[s], CommandPacket(s, typed[s]))
                            ELSE toServer[s])
         /\ serverOpen[s] => Holds(toServer'[s], CommandPacket(s, typed[s]))
<1>1. /\ typed[s] \in Nat /\ typed[s] <= Len(Script[s]) /\ toServer[s] \in Seq(Packets)
  BY CommandFacts
<1>2. typed[s] \in 1..typed[s]
  BY <1>1
<1>3. CommandPacket(s, typed[s]) \in Packets
  BY <1>1, <1>2, CommandPacketProperties
<1> DEFINE p == CommandPacket(s, typed[s])
<1>4. toServer' = Written(toServer, s, p, serverOpen)
  BY DEF ClientWrites
<1> HIDE DEF p
<1>5. toServer'[s] = (IF serverOpen[s] THEN Append(toServer[s], p) ELSE toServer[s])
  BY <1>4, ClientTypes DEF Written
<1>6. p \in Packets
  BY <1>3 DEF p
<1>7. Holds(Append(toServer[s], p), p)
  BY <1>1, <1>6, HoldsParts
<1> QED
  BY <1>3, <1>5, <1>7 DEF p

\* send_message: the command goes out, and again after an ERROR, until any
\* ACK confirms it or the tries are used up.
LEMMA SentObeyed ==
  ASSUME SessionInv, CommandInv, NEW s \in Sessions, UNCHANGED serverVars,
         send_message(s) \/ ReadNothing(s) \/ ReadReply(s)
  PROVE  Obeyed(s)'
<1>1. OneAtATime(s) /\ typed[s] \in Nat
  BY CommandFacts DEF Obeyed
<1>2. /\ cpc[s] \in {"send", "sending"}
      /\ UNCHANGED <<ipc, payload, typed, serverOpen>>
  BY DEF send_message, ReadNothing, ReadReply, CGoto, wireVars
<1>3. BeingSent(s)
  BY <1>1, <1>2 DEF OneAtATime, NotYetTyped, BeingTyped, Confirmed
<1>4. /\ typed[s] > 0 /\ packets_to_send[s] = <<QueuedPacket(s, typed[s])>>
      /\ client_seqn[s] = 2 * typed[s] /\ payload[s] = Script[s][typed[s]].data
      /\ cpc[s] = "sending" => outgoing[s] = CommandPacket(s, typed[s])
  BY <1>3 DEF BeingSent
\* Of send_message.
<1>5. CASE send_message(s)
  <2>1. [Head(packets_to_send[s]) EXCEPT !.data = payload[s]] = CommandPacket(s, typed[s])
    <3>1. Head(packets_to_send[s]) = QueuedPacket(s, typed[s])
      BY <1>4
    <3>2. QueuedPacket(s, typed[s])
            = [type |-> Script[s][typed[s]].type, seqn |-> 2 * typed[s] - 1, data |-> NoData]
      BY DEF QueuedPacket, CommandPacket, Packet
    <3>3. CommandPacket(s, typed[s])
            = [type |-> Script[s][typed[s]].type, seqn |-> 2 * typed[s] - 1,
               data |-> Script[s][typed[s]].data]
      BY DEF CommandPacket, Packet
    <3> QED
      BY <1>4, <3>1, <3>2, <3>3
  <2>2. /\ ClientWrites(s, CommandPacket(s, typed[s]))
        /\ outgoing' = Set(outgoing, s, CommandPacket(s, typed[s]))
        /\ cpc' = [cpc EXCEPT ![s] = "sending"]
        /\ UNCHANGED <<client_seqn, packets_to_send>>
    BY <1>5, <2>1 DEF send_message, CGoto
  <2>3. outgoing'[s] = CommandPacket(s, typed[s]) /\ cpc'[s] = "sending"
    BY <2>2, ClientTypes DEF Set
  <2>4. OneAtATime(s)'
    BY <1>2, <1>3, <2>2, <2>3 DEF OneAtATime, BeingSent
  <2> QED
    BY <1>2, <1>4, <2>2, <2>4, CommandWritten, ClientStillObeyed
\* Of its reads.
<1>6. ASSUME cpc[s] = "sending", UNCHANGED <<client_seqn, packets_to_send>>, Retry(s)
      PROVE  OneAtATime(s)' /\ (WasSent(s, typed[s])' => WasSent(s, typed[s]))
  <2>1. WasSent(s, typed[s])
    BY <1>6 DEF WasSent
  <2>2. \/ cpc'[s] = "sending" /\ outgoing'[s] = outgoing[s]
        \/ cpc'[s] = "loop"
    BY <1>6, ClientTypes DEF Retry, CGoto
  <2> QED
    BY <1>2, <1>3, <1>6, <2>1, <2>2 DEF OneAtATime, BeingSent
<1>7. CASE ReadNothing(s)
  <2>1. cpc[s] = "sending" /\ Retry(s) /\ UNCHANGED <<client_seqn, packets_to_send, toServer>>
    BY <1>7 DEF ReadNothing, wireVars
  <2> QED
    BY <1>2, <1>6, <2>1, ClientStillObeyed
<1>8. CASE ReadReply(s)
  <2>1. cpc[s] = "sending"
    BY <1>8 DEF ReadReply
  <2>2. \/ /\ packets_to_send' = Set(packets_to_send, s, Tail(packets_to_send[s]))
           /\ client_seqn' = Set(client_seqn, s, client_seqn[s] + 1)
           /\ cpc' = [cpc EXCEPT ![s] = "loop"]
           /\ UNCHANGED toServer
        \/ /\ ClientWrites(s, outgoing[s])
           /\ Retry(s)
           /\ UNCHANGED <<client_seqn, packets_to_send>>
        \/ Retry(s) /\ UNCHANGED <<client_seqn, packets_to_send, toServer>>
    BY <1>8 DEF ReadReply, CGoto
  <2>3. CASE /\ packets_to_send' = Set(packets_to_send, s, Tail(packets_to_send[s]))
             /\ client_seqn' = Set(client_seqn, s, client_seqn[s] + 1)
             /\ cpc' = [cpc EXCEPT ![s] = "loop"]
             /\ UNCHANGED toServer
    <3>1. Tail(packets_to_send[s]) = <<>>
      BY <1>4
    <3>2. packets_to_send'[s] = <<>> /\ cpc'[s] = "loop"
          /\ client_seqn'[s] = 2 * typed[s] + 1
      BY <1>4, <2>3, <3>1, ClientTypes DEF Set
    <3>3. ipc'[s] = "idle"
      BY <1>2, <1>3 DEF BeingSent
    <3>4. OneAtATime(s)'
      BY <1>2, <3>2, <3>3 DEF OneAtATime, Confirmed
    <3>5. WasSent(s, typed[s])
      BY <2>1 DEF WasSent
    <3> QED
      BY <1>2, <2>3, <3>4, <3>5, ClientStillObeyed
  <2>4. CASE /\ ClientWrites(s, outgoing[s])
             /\ Retry(s)
             /\ UNCHANGED <<client_seqn, packets_to_send>>
    <3>1. ClientWrites(s, CommandPacket(s, typed[s]))
      BY <1>4, <2>1, <2>4
    <3>2. OneAtATime(s)' /\ (WasSent(s, typed[s])' => WasSent(s, typed[s]))
      BY <1>6, <2>1, <2>4
    <3> QED
      BY <1>2, <1>4, <3>1, <3>2, CommandWritten, ClientStillObeyed
  <2>5. CASE Retry(s) /\ UNCHANGED <<client_seqn, packets_to_send, toServer>>
    BY <1>2, <1>6, <2>1, <2>5, ClientStillObeyed
  <2> QED
    BY <2>2, <2>3, <2>4, <2>5
<1> QED
  BY <1>5, <1>7, <1>8


\* A patient user's client types and sends in turn.
LEMMA ClientObeys ==
  ASSUME SessionInv, CommandInv, Patient = TRUE, ClientNext, UNCHANGED serverVars
  PROVE  CommandInv'
<1>1. PICK s \in Sessions :
        \/ Communication(s) \/ Interface(s) \/ Quit(s) \/ Kill(s) \/ LoseConnection(s)
  BY DEF ClientNext
<1>2. TypeOK
  BY DEF SessionInv
<1>3. \A t \in Sessions : Obeyed(t)
  BY CommandFacts
<1>4. \A t \in Sessions \ {s} : Obeyed(t)'
  BY <1>1, <1>2, <1>3, ClientCommandFrame, ObeyedSame
<1>5. Obeyed(s)'
  <2>1. CASE Display(s) \/ Quit(s)
    <3>1. CommandFrame(s)
      BY <2>1 DEF Display, Quit, CommandFrame, serverVars, threadVars, wireVars
    <3> QED
      BY <1>3, <3>1, ObeyedSame
  <2>2. CASE ~(Display(s) \/ Quit(s))
    BY <1>1, <2>2, TypedObeyed, PushedObeyed, EndedObeyed, ConnectObeyed, LoopObeyed, SentObeyed
       DEF Communication, Interface
  <2> QED
    BY <2>1, <2>2
<1> QED
  BY <1>4, <1>5 DEF CommandInv

\* Nothing is typed, sent or executed at first.
LEMMA InitCommandInv ==
  ASSUME Init
  PROVE  CommandInv
<1>1. ASSUME NEW s \in Sessions
      PROVE  Obeyed(s)
  <2>1. /\ cpc[s] = "connect" /\ ipc[s] = "idle" /\ typed[s] = 0 /\ client_seqn[s] = 0
        /\ packets_to_send[s] = <<>> /\ executed[s] = <<>> /\ ~connected[s]
        /\ max_reference_seqn[s] = 0 /\ inbuf[s] = <<>> /\ toServer[s] = <<>>
    BY DEF Init, WireInit, ServerInit, ClientInit
  <2>2. Count(s) = 0 /\ Len(Script[s]) \in Nat
    BY <2>1, EmptySeq, LenProperties, ClientAssumption DEF Count, ClientAssumption
  <2>3. SubSeq(Script[s], 1, 0) = <<>>
    BY ClientAssumption DEF ClientAssumption
  <2>4. OneAtATime(s)
    BY <2>1 DEF OneAtATime, NotYetTyped
  <2>5. ExecutedFirst(s)
    BY <2>1, <2>2, <2>3 DEF ExecutedFirst
  <2>6. NoCommandLost(s)
    BY <2>1 DEF NoCommandLost
  <2>7. InTurn(s, inbuf[s], <<>>, typed[s], Count(s))
        /\ InTurn(s, toServer[s], inbuf[s], typed[s], Count(s))
    BY <2>1 DEF InTurn
  <2> QED
    BY <2>4, <2>5, <2>6, <2>7 DEF Obeyed
<1> QED
  BY <1>1 DEF CommandInv

\* Each command a patient user types is with the client, on its way or
\* executed; commands are executed in the order they were typed; and the
\* number the thread remembers is that of the last.
THEOREM CommandInvariant ==
  ASSUME Patient = TRUE
  PROVE  Spec => []CommandInv
<1>1. Init => CommandInv
  BY InitCommandInv
<1>2. SessionInv /\ CommandInv /\ [Next]_vars => CommandInv'
  <2>1. ASSUME SessionInv, CommandInv, UNCHANGED vars
        PROVE  CommandInv'
    <3>1. \A t \in Sessions : CommandFrame(t)
      BY <2>1 DEF vars, serverVars, threadVars, clientVars, wireVars, CommandFrame
    <3>2. \A t \in Sessions : Obeyed(t)
      BY <2>1, CommandFacts
    <3> QED
      BY <3>1, <3>2, ObeyedSame DEF CommandInv
  <2> QED
    BY <2>1, ServerObeys, ClientObeys DEF Next
<1> QED
  BY <1>1, <1>2, SessionInvariant, PTL DEF Spec

\* A step executes a command or lets the user type one, or does neither.
LEMMA CountsOfCommands ==
  ASSUME SessionInv, [Next]_vars, NEW t \in Sessions
  PROVE  \/ typed'[t] = typed[t] /\ Count(t)' = Count(t)
         \/ typed'[t] = typed[t] /\ Count(t)' = Count(t) + 1
         \/ typed'[t] = typed[t] + 1 /\ Count(t)' = Count(t)
<1>1. /\ executed \in [Sessions -> Seq(CommandsExecuted)] /\ typed \in [Sessions -> Nat]
      /\ inbuf \in [Sessions -> Seq(Packets)] /\ TypeOK
  BY DEF SessionInv, TypeOK, ServerTypeOK, ClientTypeOK
<1>2. CASE ServerNext /\ UNCHANGED clientVars
  <2>1. typed'[t] = typed[t]
    BY <1>2 DEF clientVars
  <2>2. executed' = executed \/ \E s \in Sessions : Execute(s)
    BY <1>2 DEF ServerNext, Thread, set_termination_signal, StopListening, ExitServer,
        addNotification, Accept, hasNewNotification, send_notification, RecvNothing, RecvBatch,
        LoopAgain, LeaveLoop, Duplicate, receive_CONNECT, receive_FOLLOW, receive_SEND,
        receive_DISCONNECT, StrayAck, receive_ACK, get_notification_delivered,
        set_notification_delivered, WaitReleased, WaitTimedOut, popNotification,
        ClearDelivered, Crash, threadVars
  <2>3. \A c : Len(Append(executed[t], c)) = Len(executed[t]) + 1
    BY <1>1
  <2>4. Count(t)' \in {Count(t), Count(t) + 1}
    BY <1>1, <2>2, <2>3 DEF Execute, Count
  <2> QED
    BY <2>1, <2>4
<1>3. CASE ClientNext /\ UNCHANGED serverVars
  <2>1. Count(t)' = Count(t)
    BY <1>3 DEF serverVars, threadVars, Count
  <2>2. typed' = typed \/ \E s \in Sessions : typed' = Set(typed, s, typed[s] + 1)
    BY <1>3 DEF ClientNext, Communication, Interface, TypeCommand, PushCommand,
       Display, Quit, Kill, LoseConnection, Exit, send_connect_message,
       ReceiveConnectReply, LoopReceive, LoopNothing, send_message, ReadNothing, ReadReply,
       Disconnect
  <2>3. typed'[t] \in {typed[t], typed[t] + 1}
    BY <1>1, <2>2 DEF Set
  <2> QED
    BY <2>1, <2>3
<1>4. CASE UNCHANGED vars
  BY <1>4 DEF vars, serverVars, threadVars, clientVars, Count
<1> QED
  BY <1>2, <1>3, <1>4 DEF Next

\* From a patient user's keyboard to the row, a session is a reliable FIFO:
\* every command is executed once, in the order typed, with none skipped.
THEOREM PatientCommandsAreReliable ==
  ASSUME Patient = TRUE
  PROVE  Spec => CommandsAreReliable
<1>1. ASSUME Init
      PROVE  Commands!FInit
  <2>1. ASSUME NEW s \in Sessions
        PROVE  Typed(s) = <<>> /\ executed[s] = <<>>
    <3>1. typed[s] = 0 /\ executed[s] = <<>>
      BY <1>1 DEF Init, ServerInit, ClientInit
    <3>2. SubSeq(Script[s], 1, 0) = <<>>
      BY ClientAssumption DEF ClientAssumption
    <3> QED
      BY <3>1, <3>2 DEF Typed
  <2> QED
    BY <2>1 DEF Commands!FInit
<1>2. ASSUME SessionInv, CommandInv, CommandInv', [Next]_vars
      PROVE  Commands!FNext
  <2>1. ASSUME NEW t \in Sessions
        PROVE  \/ Typed(t)' = Typed(t) /\ executed'[t] = executed[t]
               \/ /\ Typed(t)' = Typed(t) /\ Len(executed[t]) < Len(Typed(t))
                  /\ executed'[t] = Append(executed[t], Typed(t)[Len(executed[t]) + 1])
               \/ /\ executed'[t] = executed[t] /\ Len(Typed(t)') = Len(Typed(t)) + 1
                  /\ SubSeq(Typed(t)', 1, Len(Typed(t))) = Typed(t)
    <3> DEFINE f == Script[t]
               n == typed[t]
               e == Count(t)
               e2 == Count(t)'
    <3>1. n \in Nat /\ e \in Nat /\ e <= n /\ n <= Len(f) /\ Len(f) \in Nat
      BY <1>2, CommandFacts
    <3>2. f \in Seq([type : {"FOLLOW", "SEND"}, data : Data])
      BY ClientAssumption DEF ClientAssumption
    <3>3. /\ executed[t] = SubSeq(f, 1, e) /\ executed'[t] = SubSeq(f, 1, e2)
          /\ e2 <= typed'[t] /\ typed'[t] <= Len(f)
      BY <1>2 DEF CommandInv, Obeyed, ExecutedFirst
    <3>4. Typed(t) = SubSeq(f, 1, n) /\ Typed(t)' = SubSeq(f, 1, typed'[t])
      BY DEF Typed
    <3>5. \/ typed'[t] = n /\ e2 = e
          \/ typed'[t] = n /\ e2 = e + 1
          \/ typed'[t] = n + 1 /\ e2 = e
      BY <1>2, CountsOfCommands
    <3>6. Len(executed[t]) = e
      BY DEF Count
    <3> HIDE DEF f, n, e, e2
    <3>7. CASE typed'[t] = n /\ e2 = e
      BY <3>3, <3>4, <3>7
    <3>8. CASE typed'[t] = n /\ e2 = e + 1
      <4>1. e < Len(f) /\ e + 1 <= n
        BY <3>1, <3>3, <3>8
      <4>2. SubSeq(f, 1, e + 1) = Append(SubSeq(f, 1, e), f[e + 1])
        BY <3>1, <3>2, <4>1, BeginningGrows
      <4>3. Len(SubSeq(f, 1, n)) = n /\ SubSeq(f, 1, n)[e + 1] = f[e + 1]
        BY <3>1, <3>2, <4>1
      <4> QED
        BY <3>1, <3>3, <3>4, <3>6, <3>8, <4>1, <4>2, <4>3
    <3>9. CASE typed'[t] = n + 1 /\ e2 = e
      <4>1. n < Len(f) /\ n + 1 <= Len(f)
        BY <3>1, <3>3, <3>9
      <4>2. /\ Len(SubSeq(f, 1, n)) = n /\ SubSeq(SubSeq(f, 1, n + 1), 1, n) = SubSeq(f, 1, n)
        BY <3>1, <3>2, <4>1, BeginningGrows
      <4>3. Len(SubSeq(f, 1, n + 1)) = n + 1
        BY <3>1, <3>2, <4>1
      <4> QED
        BY <3>3, <3>4, <3>9, <4>2, <4>3
    <3> QED
      BY <3>5, <3>7, <3>8, <3>9
  <2> QED
    BY <2>1 DEF Commands!FNext, Commands!Put, Commands!Take, Commands!Rest
<1>3. Spec => Commands!FInit
  BY <1>1 DEF Spec
<1>4. Spec => [][Commands!FNext]_(Commands!fvars)
  BY <1>2, SessionInvariant, CommandInvariant, PTL DEF Spec
<1> QED
  BY <1>3, <1>4, PTL DEF CommandsAreReliable, Commands!FSpec


-----------------------------------------------------------------------------
(* Commands of users who do not wait *)

\* What CommandsInOrder rests on, for a client that gave its j-th command the
\* number g[j].  Packet p is one of those commands...
NumberedAs(s, g, p) ==
  \E j \in 1..typed[s] : p.type = Script[s][j].type /\ p.seqn = g[j]

\* ...and has gone out, with what payload held then.
SentAs(s, g, p) ==
  \E j \in 1..typed[s] :
    /\ p.type = Script[s][j].type /\ p.seqn = g[j]
    /\ \E k \in j..typed[s] : p.data = Script[s][k].data

\* The numbers grow, even if the interface thread's seqn++ loses what the
\* communication thread counted meanwhile.
ClientNumbers(s, g) ==
  /\ IsStretched(g) /\ typed[s] <= Len(Script[s])
  /\ typed[s] > 0 => payload[s] = Script[s][typed[s]].data
  /\ ipc[s] = "idle" => \A j \in 1..typed[s] : g[j] < client_seqn[s]
  /\ ipc[s] = "push" => /\ NumberedAs(s, g, pending[s])
                        /\ \A j \in 1..typed[s] : g[j] <= pending[s].seqn
                        /\ pending[s].seqn <= client_seqn[s]
  /\ \A i \in 1..Len(packets_to_send[s]) : NumberedAs(s, g, packets_to_send[s][i])
  /\ cpc[s] = "sending" => SentAs(s, g, outgoing[s])

ChannelNumbers(s, g, q) == \A i \in 1..Len(q) : IsCommand(q[i]) => SentAs(s, g, q[i])

\* The thread remembers a number beyond those of the commands it executed.
ThreadNumbers(s, g) ==
  \E was \in [1..Count(s) -> 1..typed[s]] :
    /\ IsStretched(was)
    /\ \A i \in 1..Count(s) :
         /\ executed[s][i].type = Script[s][was[i]].type
         /\ \E k \in was[i]..typed[s] : executed[s][i].data = Script[s][k].data
         /\ g[was[i]] < max_reference_seqn[s]

NumbersAre(s, g) ==
  /\ g \in [1..typed[s] -> 0..client_seqn[s]]
  /\ ClientNumbers(s, g) /\ ThreadNumbers(s, g)
  /\ ChannelNumbers(s, g, toServer[s]) /\ ChannelNumbers(s, g, inbuf[s])

NumbersInv == \A s \in Sessions : \E g \in [1..typed[s] -> 0..client_seqn[s]] : NumbersAre(s, g)


\* Nothing happens to the commands of session t.
LEMMA NumbersSame ==
  ASSUME NEW t \in Sessions, CommandFrame(t), NEW g, NumbersAre(t, g)
  PROVE  NumbersAre(t, g)'
<1>1. /\ \A p : NumberedAs(t, g, p)' <=> NumberedAs(t, g, p)
      /\ \A p : SentAs(t, g, p)' <=> SentAs(t, g, p)
  BY DEF CommandFrame, NumberedAs, SentAs
<1>2. ClientNumbers(t, g)'
  BY <1>1 DEF NumbersAre, CommandFrame, ClientNumbers
<1>3. ThreadNumbers(t, g)'
  <2>1. /\ Count(t)' = Count(t) /\ executed'[t] = executed[t] /\ typed'[t] = typed[t]
        /\ max_reference_seqn'[t] = max_reference_seqn[t]
    BY DEF CommandFrame, Count
  <2>2. PICK was \in [1..Count(t) -> 1..typed[t]] :
          /\ IsStretched(was)
          /\ \A i \in 1..Count(t) :
               /\ executed[t][i].type = Script[t][was[i]].type
               /\ \E k \in was[i]..typed[t] : executed[t][i].data = Script[t][k].data
               /\ g[was[i]] < max_reference_seqn[t]
    BY DEF NumbersAre, ThreadNumbers
  <2>3. /\ was \in [1..Count(t)' -> 1..typed'[t]]
        /\ \A i \in 1..Count(t)' :
             /\ executed'[t][i].type = Script[t][was[i]].type
             /\ \E k \in was[i]..typed'[t] : executed'[t][i].data = Script[t][k].data
             /\ g[was[i]] < max_reference_seqn'[t]
    BY <2>1, <2>2
  <2> QED
    BY <2>2, <2>3 DEF ThreadNumbers
<1>4. ChannelNumbers(t, g, toServer[t])' /\ ChannelNumbers(t, g, inbuf[t])'
  BY <1>1 DEF NumbersAre, CommandFrame, ChannelNumbers
<1>5. g \in [1..typed'[t] -> 0..client_seqn'[t]]
  BY DEF NumbersAre, CommandFrame
<1> QED
  BY <1>2, <1>3, <1>4, <1>5 DEF NumbersAre

\* The types of what the numbers are about.
LEMMA NumbersTypes ==
  ASSUME SessionInv, NEW s \in Sessions
  PROVE  /\ typed[s] \in Nat /\ client_seqn[s] \in Nat /\ Count(s) \in Nat
         /\ max_reference_seqn[s] \in Nat /\ executed[s] \in Seq(CommandsExecuted)
         /\ toServer[s] \in Seq(Packets) /\ inbuf[s] \in Seq(Packets)
         /\ packets_to_send[s] \in Seq(CommandPackets) /\ pending[s] \in CommandPackets
         /\ outgoing[s] \in CommandPackets
         /\ spc[s] = "parse" => inbuf[s] # <<>>
<1>1. WireTypeOK /\ ServerTypeOK /\ ClientTypeOK /\ HasWork
  BY DEF SessionInv, TypeOK
<1>2. /\ typed[s] \in Nat /\ client_seqn[s] \in Nat
      /\ max_reference_seqn[s] \in Nat /\ executed[s] \in Seq(CommandsExecuted)
      /\ toServer[s] \in Seq(Packets) /\ inbuf[s] \in Seq(Packets)
      /\ packets_to_send[s] \in Seq(CommandPackets) /\ pending[s] \in CommandPackets
      /\ outgoing[s] \in CommandPackets
      /\ spc[s] = "parse" => inbuf[s] # <<>>
  BY <1>1 DEF WireTypeOK, ServerTypeOK, ClientTypeOK, HasWork
<1>3. Count(s) \in Nat
  BY <1>2, LenProperties DEF Count
<1> QED
  BY <1>2, <1>3

\* What a channel holds after a write, behind its head, and split by a read,
\* is numbered like what it held and what was written.
LEMMA ChannelNumbersParts ==
  ASSUME NEW s \in Sessions, NEW g, NEW q \in Seq(Packets), ChannelNumbers(s, g, q)
  PROVE  /\ \A p \in Packets : (IsCommand(p) => SentAs(s, g, p))
                                 => ChannelNumbers(s, g, Append(q, p))
         /\ q # <<>> => ChannelNumbers(s, g, Tail(q))
         /\ \A batch \in Batches(q) :
              ChannelNumbers(s, g, batch) /\ ChannelNumbers(s, g, After(q, batch))
<1>1. Len(q) \in Nat
  BY LenProperties
<1>2. ASSUME NEW p \in Packets, IsCommand(p) => SentAs(s, g, p)
      PROVE  ChannelNumbers(s, g, Append(q, p))
  <2>1. /\ Len(Append(q, p)) = Len(q) + 1
        /\ \A i \in 1..Len(q) : Append(q, p)[i] = q[i]
        /\ Append(q, p)[Len(q) + 1] = p
    BY AppendProperties
  <2>2. \A i \in 1..(Len(q) + 1) : i \in 1..Len(q) \/ i = Len(q) + 1
    BY <1>1
  <2> QED
    BY <1>2, <2>1, <2>2 DEF ChannelNumbers
<1>3. ASSUME q # <<>>
      PROVE  ChannelNumbers(s, g, Tail(q))
  <2>1. /\ Len(Tail(q)) = Len(q) - 1
        /\ \A i \in 1..Len(Tail(q)) : Tail(q)[i] = q[i + 1]
    BY <1>3, HeadTailProperties
  <2>2. \A i \in 1..Len(Tail(q)) : i + 1 \in 1..Len(q)
    BY <1>1, <2>1
  <2> QED
    BY <2>1, <2>2 DEF ChannelNumbers
<1>4. ASSUME NEW batch \in Batches(q)
      PROVE  ChannelNumbers(s, g, batch) /\ ChannelNumbers(s, g, After(q, batch))
  <2>1. /\ Len(batch) \in 1..Len(q) /\ Len(After(q, batch)) = Len(q) - Len(batch)
        /\ \A i \in 1..Len(batch) : batch[i] = q[i]
        /\ \A i \in 1..Len(After(q, batch)) : After(q, batch)[i] = q[i + Len(batch)]
    BY BatchProperties
  <2>2. /\ \A i \in 1..Len(batch) : i \in 1..Len(q)
        /\ \A i \in 1..Len(After(q, batch)) : i + Len(batch) \in 1..Len(q)
    BY <1>1, <2>1
  <2> QED
    BY <2>1, <2>2 DEF ChannelNumbers
<1> QED
  BY <1>2, <1>3, <1>4

\* The thread executes a command with a new number: it was typed later.
LEMMA ExecutedNumbers ==
  ASSUME SessionInv, NEW s \in Sessions, UNCHANGED clientVars,
         receive_FOLLOW(s) \/ receive_SEND(s), NEW g, NumbersAre(s, g)
  PROVE  ThreadNumbers(s, g)'
<1>1. /\ typed[s] \in Nat /\ Count(s) \in Nat /\ max_reference_seqn[s] \in Nat
      /\ executed[s] \in Seq(CommandsExecuted) /\ inbuf[s] \in Seq(Packets)
      /\ client_seqn[s] \in Nat
  BY NumbersTypes
<1>2. /\ executed \in [Sessions -> Seq(CommandsExecuted)] /\ inbuf \in [Sessions -> Seq(Packets)]
      /\ max_reference_seqn \in [Sessions -> Nat]
  BY DEF SessionInv, TypeOK, WireTypeOK, ServerTypeOK
<1>3. /\ spc[s] = "parse" /\ Fresh(s) /\ IsCommand(Head(inbuf[s]))
      /\ Remember(s) /\ Execute(s) /\ typed' = typed
  BY DEF receive_FOLLOW, receive_SEND, Parsing, IsCommand, clientVars
<1>4. inbuf[s] # <<>> /\ 1 \in 1..Len(inbuf[s]) /\ Head(inbuf[s]) = inbuf[s][1]
  BY <1>1, <1>3, NumbersTypes, HeadTailProperties, LenProperties
<1>5. Head(inbuf[s]).seqn \in Nat /\ Head(inbuf[s]).data \in Payloads
  <2>1. Head(inbuf[s]) \in Packets
    BY <1>1, <1>4, ElementOfSeq
  <2> QED
    BY <2>1 DEF Packets
<1>6. PICK j \in 1..typed[s] :
        /\ Head(inbuf[s]).type = Script[s][j].type /\ Head(inbuf[s]).seqn = g[j]
        /\ \E k \in j..typed[s] : Head(inbuf[s]).data = Script[s][k].data
  BY <1>3, <1>4 DEF NumbersAre, ChannelNumbers, SentAs
<1>7. PICK was \in [1..Count(s) -> 1..typed[s]] :
        /\ IsStretched(was)
        /\ \A i \in 1..Count(s) :
             /\ executed[s][i].type = Script[s][was[i]].type
             /\ \E k \in was[i]..typed[s] : executed[s][i].data = Script[s][k].data
             /\ g[was[i]] < max_reference_seqn[s]
  BY DEF NumbersAre, ThreadNumbers
<1> DEFINE command == [type |-> Head(inbuf[s]).type, data |-> Head(inbuf[s]).data]
           n == Count(s)
           now == [i \in 1..(n + 1) |-> IF i <= n THEN was[i] ELSE j]
<1>8. executed'[s] = Append(executed[s], command)
  BY <1>2, <1>3 DEF Execute
<1>9. /\ Len(executed'[s]) = n + 1 /\ executed'[s][n + 1] = command
      /\ \A i \in 1..n : executed'[s][i] = executed[s][i]
  <2>1. command \in CommandsExecuted
    BY <1>3, <1>5 DEF CommandsExecuted, IsCommand
  <2> HIDE DEF command
  <2> QED
    BY <1>1, <1>8, <2>1, AppendProperties DEF Count
<1>10. Count(s)' = n + 1
  BY <1>9 DEF Count
<1>11. max_reference_seqn'[s] = g[j] + 1 /\ g[j] >= max_reference_seqn[s] /\ g[j] \in Nat
  BY <1>2, <1>3, <1>5, <1>6 DEF Remember, Fresh
<1>12. now \in [1..(n + 1) -> 1..typed[s]]
  BY <1>1, <1>6, <1>7
<1>13. \A i \in 1..n : was[i] < j
  <2>1. ASSUME NEW i \in 1..n, was[i] >= j
        PROVE  FALSE
    <3>1. was[i] \in 1..typed[s] /\ g[was[i]] < max_reference_seqn[s] /\ g[was[i]] \in Nat
      BY <1>1, <1>7 DEF NumbersAre
    <3>2. g[j] <= g[was[i]]
      <4>1. j = was[i] \/ j < was[i]
        BY <1>1, <2>1, <3>1
      <4>2. DOMAIN g = 1..typed[s] /\ IsStretched(g)
        BY DEF NumbersAre, ClientNumbers
      <4> QED
        BY <1>11, <3>1, <4>1, <4>2 DEF IsStretched
    <3> QED
      BY <1>1, <1>11, <3>1, <3>2
  <2> QED
    BY <1>1, <1>7, <2>1
<1>14. IsStretched(now)
  <2>1. DOMAIN now = 1..(n + 1) /\ DOMAIN was = 1..n
    BY <1>7
  <2>2. ASSUME NEW h \in 1..(n + 1), NEW i \in 1..(n + 1), h < i
        PROVE  now[h] < now[i]
    <3>1. h \in 1..n
      BY <1>1, <2>2
    <3>2. CASE i \in 1..n
      BY <1>1, <1>7, <2>1, <2>2, <3>1, <3>2 DEF IsStretched
    <3>3. CASE i = n + 1
      BY <1>1, <1>13, <3>1, <3>3
    <3> QED
      BY <1>1, <3>2, <3>3
  <2> QED
    BY <2>1, <2>2 DEF IsStretched
<1>15. ASSUME NEW i \in 1..(n + 1)
       PROVE  /\ executed'[s][i].type = Script[s][now[i]].type
              /\ \E k \in now[i]..typed[s] : executed'[s][i].data = Script[s][k].data
              /\ g[now[i]] < max_reference_seqn'[s]
  <2>1. CASE i \in 1..n
    <3>1. now[i] = was[i] /\ executed'[s][i] = executed[s][i]
      BY <1>1, <1>9, <2>1
    <3>2. g[was[i]] \in Nat
      BY <1>1, <1>7, <2>1 DEF NumbersAre
    <3>3. g[was[i]] < max_reference_seqn'[s]
      BY <1>1, <1>7, <1>11, <2>1, <3>2
    <3> QED
      BY <1>7, <2>1, <3>1, <3>3
  <2>2. CASE i = n + 1
    <3>1. now[i] = j /\ executed'[s][i] = command
      BY <1>1, <1>9, <2>2
    <3> QED
      BY <1>6, <1>11, <3>1
  <2> QED
    BY <1>1, <2>1, <2>2
<1> HIDE DEF now
<1> QED
  BY <1>3, <1>10, <1>12, <1>14, <1>15 DEF ThreadNumbers

\* A thread that executes nothing and remembers at least what it did.
LEMMA RememberedNumbers ==
  ASSUME SessionInv, SessionInv', NEW s \in Sessions, UNCHANGED clientVars,
         executed'[s] = executed[s], max_reference_seqn[s] <= max_reference_seqn'[s],
         NEW g, NumbersAre(s, g)
  PROVE  ThreadNumbers(s, g)'
<1>1. PICK was \in [1..Count(s) -> 1..typed[s]] :
        /\ IsStretched(was)
        /\ \A i \in 1..Count(s) :
             /\ executed[s][i].type = Script[s][was[i]].type
             /\ \E k \in was[i]..typed[s] : executed[s][i].data = Script[s][k].data
             /\ g[was[i]] < max_reference_seqn[s]
  BY DEF NumbersAre, ThreadNumbers
<1>2. typed[s] \in Nat /\ client_seqn[s] \in Nat /\ max_reference_seqn[s] \in Nat
  BY NumbersTypes
<1>3. max_reference_seqn'[s] \in Nat
  BY DEF SessionInv, TypeOK, ServerTypeOK
<1>4. Count(s)' = Count(s) /\ typed'[s] = typed[s]
  BY DEF Count, clientVars
<1>5. g \in [1..typed[s] -> 0..client_seqn[s]]
  BY DEF NumbersAre
<1>6. \A i \in 1..Count(s) : g[was[i]] < max_reference_seqn'[s]
  <2>1. ASSUME NEW i \in 1..Count(s)
        PROVE  g[was[i]] < max_reference_seqn'[s]
    <3>1. g[was[i]] \in Nat /\ g[was[i]] < max_reference_seqn[s]
      BY <1>1, <1>2, <1>5
    <3> QED
      BY <1>2, <1>3, <3>1
  <2> QED
    BY <2>1
<1> QED
  BY <1>1, <1>4, <1>6 DEF ThreadNumbers

\* A step of the thread of session s that executes no command: it may read a
\* batch, drop a packet, or remember a higher number.
LEMMA ThreadStep ==
  ASSUME SessionInv, NEW s \in Sessions, UNCHANGED clientVars, Accept(s) \/ Thread(s)
  PROVE  /\ \/ toServer'[s] = toServer[s]
            \/ \E batch \in Batches(toServer[s]) :
                 inbuf'[s] = batch /\ toServer'[s] = After(toServer[s], batch)
         /\ \/ inbuf'[s] = inbuf[s]
            \/ inbuf[s] # <<>> /\ inbuf'[s] = Tail(inbuf[s])
            \/ \E batch \in Batches(toServer[s]) :
                 inbuf'[s] = batch /\ toServer'[s] = After(toServer[s], batch)
         /\ \/ receive_FOLLOW(s) \/ receive_SEND(s)
            \/ /\ executed'[s] = executed[s]
               /\ max_reference_seqn[s] <= max_reference_seqn'[s]
<1>1. /\ toServer \in [Sessions -> Seq(Packets)] /\ inbuf \in [Sessions -> Seq(Packets)]
      /\ max_reference_seqn \in [Sessions -> Nat]
      /\ spc[s] = "parse" => inbuf[s] # <<>>
  BY DEF SessionInv, TypeOK, WireTypeOK, ServerTypeOK, HasWork
<1>2. max_reference_seqn[s] <= max_reference_seqn[s]
  BY <1>1
<1>3. CASE Accept(s) \/ hasNewNotification(s) \/ RecvNothing(s) \/ LoopAgain(s)
  BY <1>2, <1>3 DEF Accept, hasNewNotification, RecvNothing, LoopAgain, wireVars
<1>4. CASE Crash
  BY <1>2, <1>4 DEF Crash, threadVars
<1>5. CASE RecvBatch(s)
  BY <1>1, <1>2, <1>5 DEF RecvBatch
<1>6. CASE (send_notification(s) \/ LeaveLoop(s) \/ popNotification(s)) /\ ~Crash
  BY <1>2, <1>6 DEF send_notification, LeaveLoop, popNotification, wireVars
<1>7. CASE Duplicate(s) \/ StrayAck(s) \/ receive_ACK(s)
  BY <1>1, <1>2, <1>7 DEF Duplicate, StrayAck, receive_ACK, Parsing, Handle, TakePacket, wireVars
<1>8. ASSUME spc[s] = "parse", Fresh(s), Remember(s)
      PROVE  max_reference_seqn[s] <= max_reference_seqn'[s]
  <2>1. Head(inbuf[s]) \in Packets
    BY <1>1, <1>8
  <2>2. Head(inbuf[s]).seqn \in Nat
    BY <2>1 DEF Packets
  <2>3. max_reference_seqn'[s] = Head(inbuf[s]).seqn + 1
    BY <1>1, <1>8 DEF Remember
  <2> QED
    BY <1>1, <1>8, <2>2, <2>3 DEF Fresh
<1>9. CASE receive_CONNECT(s) \/ receive_DISCONNECT(s)
  <2>1. spc[s] = "parse" /\ Fresh(s) /\ Remember(s) /\ UNCHANGED <<toServer, executed>>
    BY <1>9 DEF receive_CONNECT, receive_DISCONNECT, Parsing
  <2>2. inbuf'[s] = Tail(inbuf[s])
    BY <1>1, <1>9 DEF receive_CONNECT, receive_DISCONNECT, Handle, TakePacket
  <2> QED
    BY <1>1, <1>8, <2>1, <2>2
<1>10. CASE receive_FOLLOW(s) \/ receive_SEND(s)
  BY <1>1, <1>10 DEF receive_FOLLOW, receive_SEND, Parsing, Handle, TakePacket
<1>11. CASE \/ get_notification_delivered(s) \/ set_notification_delivered(s)
            \/ WaitReleased(s) \/ WaitTimedOut(s) \/ ClearDelivered(s)
  BY <1>2, <1>11 DEF get_notification_delivered, set_notification_delivered, WaitReleased,
     WaitTimedOut, ClearDelivered, wireVars
<1> QED
  BY <1>3, <1>4, <1>5, <1>6, <1>7, <1>9, <1>10, <1>11 DEF Thread

\* The server keeps the numbers: it executes what is new and drops the rest.
LEMMA ServerNumbers ==
  ASSUME SessionInv, SessionInv', NumbersInv, ServerNext, UNCHANGED clientVars
  PROVE  NumbersInv'
<1>1. /\ serverOpen \in [Sessions -> BOOLEAN] /\ TypeOK
      /\ UNCHANGED <<typed, client_seqn>>
  BY DEF SessionInv, TypeOK, WireTypeOK, clientVars
<1>2. SUFFICES ASSUME NEW t \in Sessions, NEW g \in [1..typed[t] -> 0..client_seqn[t]],
                      NumbersAre(t, g)
               PROVE  NumbersAre(t, g)'
  BY <1>1 DEF NumbersInv
<1>3. CASE set_termination_signal \/ StopListening \/ ExitServer \/ addNotification
  <2>1. CommandFrame(t)
    BY <1>1, <1>3 DEF set_termination_signal, StopListening, ExitServer, addNotification,
       threadVars, wireVars, clientVars, CommandFrame
  <2> QED
    BY <1>2, <2>1, NumbersSame
<1>4. ASSUME NEW s \in Sessions \ {t}, Accept(s) \/ Thread(s)
      PROVE  NumbersAre(t, g)'
  <2>1. CommandFrame(t)
    BY <1>1, <1>4, ThreadFrame
  <2> QED
    BY <1>2, <2>1, NumbersSame
<1>5. ASSUME Accept(t) \/ Thread(t)
      PROVE  NumbersAre(t, g)'
  <2>1. /\ \A p : NumberedAs(t, g, p)' <=> NumberedAs(t, g, p)
        /\ \A p : SentAs(t, g, p)' <=> SentAs(t, g, p)
    BY <1>1 DEF NumberedAs, SentAs
  <2>2. ClientNumbers(t, g)'
    BY <1>2, <2>1 DEF NumbersAre, ClientNumbers, clientVars
  <2>3. toServer[t] \in Seq(Packets) /\ inbuf[t] \in Seq(Packets)
    BY NumbersTypes
  <2>4. ChannelNumbers(t, g, toServer[t]) /\ ChannelNumbers(t, g, inbuf[t])
    BY <1>2 DEF NumbersAre
  <2>5. ChannelNumbers(t, g, toServer'[t]) /\ ChannelNumbers(t, g, inbuf'[t])
    BY <1>5, <2>3, <2>4, ThreadStep, ChannelNumbersParts
  <2>6. ChannelNumbers(t, g, toServer[t])' /\ ChannelNumbers(t, g, inbuf[t])'
    BY <2>1, <2>5 DEF ChannelNumbers
  <2>7. ThreadNumbers(t, g)'
    BY <1>2, <1>5, ThreadStep, RememberedNumbers, ExecutedNumbers
  <2> QED
    BY <1>1, <1>2, <2>2, <2>6, <2>7 DEF NumbersAre
<1> QED
  BY <1>3, <1>4, <1>5 DEF ServerNext


\* A client's step keeps what the server and the channels hold of session s.
LEMMA ClientKeepsNumbers ==
  ASSUME SessionInv, NEW s \in Sessions, UNCHANGED serverVars, typed'[s] = typed[s],
         client_seqn[s] <= client_seqn'[s], client_seqn'[s] \in Nat,
         NEW g, NumbersAre(s, g), ClientNumbers(s, g)',
         \/ toServer'[s] = toServer[s]
         \/ \E p \in Packets :
              /\ toServer'[s] = (IF serverOpen[s] THEN Append(toServer[s], p) ELSE toServer[s])
              /\ IsCommand(p) => SentAs(s, g, p)
  PROVE  NumbersAre(s, g)'
<1>1. /\ UNCHANGED <<executed, inbuf, max_reference_seqn>> /\ Count(s)' = Count(s)
      /\ \A p : SentAs(s, g, p)' <=> SentAs(s, g, p)
  BY DEF serverVars, threadVars, Count, SentAs
<1>2. /\ toServer[s] \in Seq(Packets) /\ typed[s] \in Nat /\ client_seqn[s] \in Nat
      /\ Count(s) \in Nat
  BY NumbersTypes
<1>3. /\ ChannelNumbers(s, g, toServer[s]) /\ ChannelNumbers(s, g, inbuf[s])
      /\ ThreadNumbers(s, g) /\ g \in [1..typed[s] -> 0..client_seqn[s]]
  BY DEF NumbersAre
<1>4. ChannelNumbers(s, g, toServer'[s])
  BY <1>2, <1>3, ChannelNumbersParts
<1>5. ChannelNumbers(s, g, toServer[s])' /\ ChannelNumbers(s, g, inbuf[s])'
  BY <1>1, <1>3, <1>4 DEF ChannelNumbers
<1>6. ThreadNumbers(s, g)'
  <2>1. PICK was \in [1..Count(s) -> 1..typed[s]] :
          /\ IsStretched(was)
          /\ \A i \in 1..Count(s) :
               /\ executed[s][i].type = Script[s][was[i]].type
               /\ \E k \in was[i]..typed[s] : executed[s][i].data = Script[s][k].data
               /\ g[was[i]] < max_reference_seqn[s]
    BY <1>3 DEF ThreadNumbers
  <2>2. /\ Count(s)' = Count(s) /\ executed'[s] = executed[s] /\ typed'[s] = typed[s]
        /\ max_reference_seqn'[s] = max_reference_seqn[s]
    BY <1>1
  <2>3. /\ was \in [1..Count(s)' -> 1..typed'[s]]
        /\ \A i \in 1..Count(s)' :
             /\ executed'[s][i].type = Script[s][was[i]].type
             /\ \E k \in was[i]..typed'[s] : executed'[s][i].data = Script[s][k].data
             /\ g[was[i]] < max_reference_seqn'[s]
    BY <2>1, <2>2
  <2> QED
    BY <2>1, <2>3 DEF ThreadNumbers
<1>7. g \in [1..typed[s] -> 0..client_seqn'[s]]
  <2>1. \A j \in 1..typed[s] : g[j] \in 0..client_seqn'[s]
    BY <1>2, <1>3
  <2> QED
    BY <1>3, <2>1
<1> QED
  BY <1>5, <1>6, <1>7 DEF NumbersAre

\* The user types a command: its number is the present seqn, beyond all
\* before.
LEMMA TypedNumbers ==
  ASSUME SessionInv, NEW s \in Sessions, UNCHANGED serverVars, TypeCommand(s),
         NEW g, NumbersAre(s, g)
  PROVE  \E h \in [1..typed'[s] -> 0..client_seqn'[s]] : NumbersAre(s, h)'
<1> DEFINE n == typed[s]
           m == client_seqn[s]
           command == Script[s][n + 1]
<1>1. /\ n \in Nat /\ m \in Nat /\ Count(s) \in Nat
      /\ packets_to_send[s] \in Seq(CommandPackets)
  BY NumbersTypes
<1>2. /\ ipc[s] = "idle" /\ n < Len(Script[s]) /\ Len(Script[s]) \in Nat
      /\ payload'[s] = command.data /\ typed'[s] = n + 1 /\ ipc'[s] = "push"
      /\ pending'[s] = Packet(command.type, m, NoData)
      /\ UNCHANGED <<cpc, client_seqn, packets_to_send, outgoing, toServer>>
  <2>1. Len(Script[s]) \in Nat
    BY LenProperties, ClientAssumption DEF ClientAssumption
  <2> QED
    BY <2>1, ClientTypes DEF TypeCommand, Set, wireVars
<1>3. /\ UNCHANGED <<executed, inbuf, max_reference_seqn>> /\ Count(s)' = Count(s)
  BY DEF serverVars, threadVars, Count
<1>4. g \in [1..n -> 0..m] /\ ClientNumbers(s, g) /\ ThreadNumbers(s, g)
      /\ ChannelNumbers(s, g, toServer[s]) /\ ChannelNumbers(s, g, inbuf[s])
  BY DEF NumbersAre
<1>5. \A j \in 1..n : g[j] < m
  BY <1>2, <1>4 DEF ClientNumbers
<1>6. PICK h \in [1..(n + 1) -> 0..m] : h[n + 1] = m /\ \A j \in 1..n : h[j] = g[j]
  <2> DEFINE f == [j \in 1..(n + 1) |-> IF j <= n THEN g[j] ELSE m]
  <2>1. f \in [1..(n + 1) -> 0..m] /\ f[n + 1] = m /\ \A j \in 1..n : f[j] = g[j]
    BY <1>1, <1>4
  <2> QED
    BY <2>1
<1>7. IsStretched(h)
  <2>1. DOMAIN h = 1..(n + 1) /\ DOMAIN g = 1..n /\ IsStretched(g)
    BY <1>4, <1>6 DEF ClientNumbers
  <2>2. ASSUME NEW i \in 1..(n + 1), NEW j \in 1..(n + 1), i < j
        PROVE  h[i] < h[j]
    <3>1. n \in Nat
      BY <1>1
    <3> HIDE DEF n
    <3>2. i \in 1..n /\ (j \in 1..n \/ j = n + 1)
      BY <2>2, <3>1
    <3> QED
      BY <1>5, <1>6, <2>1, <2>2, <3>2 DEF IsStretched
  <2> QED
    BY <2>1, <2>2 DEF IsStretched
<1>8. \A p : NumberedAs(s, g, p) => NumberedAs(s, h, p)'
  <2>1. \A j \in 1..n : j \in 1..(n + 1) /\ h[j] = g[j]
    BY <1>1, <1>6
  <2> QED
    BY <1>2, <2>1 DEF NumberedAs
<1>9. \A p : SentAs(s, g, p) => SentAs(s, h, p)'
  <2>1. \A j \in 1..n : /\ j \in 1..(n + 1) /\ h[j] = g[j]
                        /\ \A k \in j..n : k \in j..(n + 1)
    BY <1>1, <1>6
  <2> QED
    BY <1>2, <2>1 DEF SentAs
<1>10. ClientNumbers(s, h)'
  <2>1. n + 1 <= Len(Script[s]) /\ n + 1 \in 1..(n + 1)
    BY <1>1, <1>2
  <2>2. NumberedAs(s, h, pending[s])'
    <3>1. pending'[s].type = Script[s][n + 1].type /\ pending'[s].seqn = h[n + 1]
      BY <1>2, <1>6 DEF Packet
    <3> QED
      BY <1>2, <2>1, <3>1 DEF NumberedAs
  <2>3. /\ \A j \in 1..(n + 1) : h[j] <= m
        /\ pending'[s].seqn = m /\ m <= m
    <3>1. \A j \in 1..(n + 1) : h[j] \in 0..m
      BY <1>6
    <3>2. pending'[s].seqn = m
      BY <1>2 DEF Packet
    <3> QED
      BY <1>1, <3>1, <3>2
  <2>4. /\ \A i \in 1..Len(packets_to_send[s]) : NumberedAs(s, h, packets_to_send[s][i])'
        /\ cpc[s] = "sending" => SentAs(s, h, outgoing[s])'
    BY <1>2, <1>4, <1>8, <1>9 DEF ClientNumbers
  <2> QED
    BY <1>2, <1>7, <2>1, <2>2, <2>3, <2>4 DEF ClientNumbers
<1>11. ThreadNumbers(s, h)'
  <2>1. PICK was \in [1..Count(s) -> 1..n] :
          /\ IsStretched(was)
          /\ \A i \in 1..Count(s) :
               /\ executed[s][i].type = Script[s][was[i]].type
               /\ \E k \in was[i]..n : executed[s][i].data = Script[s][k].data
               /\ g[was[i]] < max_reference_seqn[s]
    BY <1>4 DEF ThreadNumbers
  <2>2. \A i \in 1..Count(s) : /\ was[i] \in 1..(n + 1) /\ h[was[i]] = g[was[i]]
                               /\ \A k \in was[i]..n : k \in was[i]..(n + 1)
    BY <1>1, <1>6, <2>1
  <2>3. was \in [1..Count(s) -> 1..(n + 1)]
    BY <2>1, <2>2
  <2>4. /\ Count(s)' = Count(s) /\ executed'[s] = executed[s] /\ typed'[s] = n + 1
        /\ max_reference_seqn'[s] = max_reference_seqn[s]
    BY <1>2, <1>3
  <2>5. /\ was \in [1..Count(s)' -> 1..typed'[s]]
        /\ \A i \in 1..Count(s)' :
             /\ executed'[s][i].type = Script[s][was[i]].type
             /\ \E k \in was[i]..typed'[s] : executed'[s][i].data = Script[s][k].data
             /\ h[was[i]] < max_reference_seqn'[s]
    BY <2>1, <2>2, <2>3, <2>4
  <2> QED
    BY <2>1, <2>5 DEF ThreadNumbers
<1>12. ChannelNumbers(s, h, toServer[s])' /\ ChannelNumbers(s, h, inbuf[s])'
  BY <1>2, <1>3, <1>4, <1>9 DEF ChannelNumbers
<1>13. h \in [1..typed'[s] -> 0..client_seqn'[s]]
  BY <1>2, <1>6
<1> QED
  BY <1>10, <1>11, <1>12, <1>13 DEF NumbersAre

\* seqn++ and the push: even if it goes back, it goes beyond every command's
\* number.
LEMMA PushedNumbers ==
  ASSUME SessionInv, NEW s \in Sessions, UNCHANGED serverVars, PushCommand(s),
         NEW g, NumbersAre(s, g)
  PROVE  NumbersAre(s, g)'
<1>1. /\ typed[s] \in Nat /\ client_seqn[s] \in Nat /\ Count(s) \in Nat
      /\ packets_to_send[s] \in Seq(CommandPackets) /\ pending[s] \in CommandPackets
      /\ pending[s].seqn \in Nat
  <2>1. pending[s] \in CommandPackets
    BY NumbersTypes
  <2>2. pending[s].seqn \in Nat
    BY <2>1 DEF CommandPackets
  <2> QED
    BY <2>2, NumbersTypes
<1>2. /\ cpc[s] \notin {"dead", "sending"} /\ ipc[s] = "push" /\ ipc'[s] = "idle"
      /\ packets_to_send'[s] = Append(packets_to_send[s], pending[s])
      /\ UNCHANGED <<cpc, payload, outgoing, typed, toServer>>
  BY ClientTypes DEF PushCommand, Set, wireVars
<1>3. PICK n \in {client_seqn[s], pending[s].seqn} : client_seqn'[s] = n + 1
  BY ClientTypes DEF PushCommand, Set
<1>4. /\ ClientNumbers(s, g) /\ ThreadNumbers(s, g) /\ g \in [1..typed[s] -> 0..client_seqn[s]]
      /\ ChannelNumbers(s, g, toServer[s]) /\ ChannelNumbers(s, g, inbuf[s])
  BY DEF NumbersAre
<1>5. /\ NumberedAs(s, g, pending[s]) /\ pending[s].seqn <= client_seqn[s]
      /\ \A j \in 1..typed[s] : g[j] <= pending[s].seqn
  BY <1>2, <1>4 DEF ClientNumbers
<1>6. \A j \in 1..typed[s] : g[j] < client_seqn'[s] /\ g[j] \in 0..client_seqn'[s]
  BY <1>1, <1>3, <1>4, <1>5
<1>7. /\ \A p : NumberedAs(s, g, p)' <=> NumberedAs(s, g, p)
      /\ \A p : SentAs(s, g, p)' <=> SentAs(s, g, p)
  BY <1>2 DEF NumberedAs, SentAs
<1>8. ClientNumbers(s, g)'
  <2>1. \A i \in 1..Len(packets_to_send'[s]) : NumberedAs(s, g, packets_to_send'[s][i])
    <3> DEFINE q == packets_to_send[s]
               p == pending[s]
    <3>1. q \in Seq(CommandPackets) /\ p \in CommandPackets /\ Len(q) \in Nat
      BY <1>1, LenProperties
    <3>2. \A i \in 1..Len(q) : NumberedAs(s, g, q[i])
      BY <1>4 DEF ClientNumbers
    <3>3. NumberedAs(s, g, p)
      BY <1>5
    <3>4. packets_to_send'[s] = Append(q, p)
      BY <1>2
    <3> HIDE DEF q, p
    <3>5. /\ Len(Append(q, p)) = Len(q) + 1 /\ Append(q, p)[Len(q) + 1] = p
          /\ \A i \in 1..Len(q) : Append(q, p)[i] = q[i]
      BY <3>1, AppendProperties
    <3>6. \A i \in 1..(Len(q) + 1) : i \in 1..Len(q) \/ i = Len(q) + 1
      BY <3>1
    <3> QED
      BY <3>2, <3>3, <3>4, <3>5, <3>6
  <2>2. /\ IsStretched(g) /\ typed[s] <= Len(Script[s])
        /\ typed[s] > 0 => payload[s] = Script[s][typed[s]].data
    BY <1>4 DEF ClientNumbers
  <2> QED
    BY <1>2, <1>6, <1>7, <2>1, <2>2 DEF ClientNumbers
<1>9. ThreadNumbers(s, g)'
  <2>1. PICK was \in [1..Count(s) -> 1..typed[s]] :
          /\ IsStretched(was)
          /\ \A i \in 1..Count(s) :
               /\ executed[s][i].type = Script[s][was[i]].type
               /\ \E k \in was[i]..typed[s] : executed[s][i].data = Script[s][k].data
               /\ g[was[i]] < max_reference_seqn[s]
    BY <1>4 DEF ThreadNumbers
  <2>2. UNCHANGED <<executed, max_reference_seqn>> /\ Count(s)' = Count(s)
    BY DEF serverVars, threadVars, Count
  <2> QED
    BY <1>2, <2>1, <2>2 DEF ThreadNumbers
<1>10. ChannelNumbers(s, g, toServer[s])' /\ ChannelNumbers(s, g, inbuf[s])'
  BY <1>2, <1>4, <1>7 DEF ChannelNumbers, serverVars, threadVars
<1>11. g \in [1..typed'[s] -> 0..client_seqn'[s]]
  BY <1>2, <1>4, <1>6
<1> QED
  BY <1>8, <1>9, <1>10, <1>11 DEF NumbersAre


\* The communication thread may count seqn up, take the head off the FIFO, and
\* send a command that was typed.
LEMMA ClientStepNumbers ==
  ASSUME SessionInv, NEW s \in Sessions, UNCHANGED serverVars, NEW g, NumbersAre(s, g),
         typed'[s] = typed[s], payload'[s] = payload[s], ipc'[s] = ipc[s],
         pending'[s] = pending[s],
         client_seqn'[s] \in {client_seqn[s], client_seqn[s] + 1},
         \/ packets_to_send'[s] = packets_to_send[s]
         \/ packets_to_send[s] # <<>> /\ packets_to_send'[s] = Tail(packets_to_send[s]),
         cpc'[s] = "sending" => \/ cpc[s] = "sending" /\ outgoing'[s] = outgoing[s]
                                \/ SentAs(s, g, outgoing'[s]),
         \/ toServer'[s] = toServer[s]
         \/ \E p \in Packets :
              /\ toServer'[s] = (IF serverOpen[s] THEN Append(toServer[s], p) ELSE toServer[s])
              /\ IsCommand(p) => SentAs(s, g, p)
  PROVE  NumbersAre(s, g)'
<1>1. /\ typed[s] \in Nat /\ client_seqn[s] \in Nat
      /\ packets_to_send[s] \in Seq(CommandPackets)
  BY NumbersTypes
<1>2. pending[s].seqn \in Nat
  <2>1. pending[s] \in CommandPackets
    BY NumbersTypes
  <2> QED
    BY <2>1 DEF CommandPackets
<1>3. client_seqn[s] <= client_seqn'[s] /\ client_seqn'[s] \in Nat
  BY <1>1
<1>4. ClientNumbers(s, g) /\ g \in [1..typed[s] -> 0..client_seqn[s]]
  BY DEF NumbersAre
<1>5. /\ \A p : NumberedAs(s, g, p)' <=> NumberedAs(s, g, p)
      /\ \A p : SentAs(s, g, p)' <=> SentAs(s, g, p)
  BY DEF NumberedAs, SentAs
<1>6. \A i \in 1..Len(packets_to_send'[s]) : NumberedAs(s, g, packets_to_send'[s][i])
  <2>1. \A i \in 1..Len(packets_to_send[s]) : NumberedAs(s, g, packets_to_send[s][i])
    BY <1>4 DEF ClientNumbers
  <2>2. CASE packets_to_send'[s] = packets_to_send[s]
    BY <2>1, <2>2
  <2>3. CASE packets_to_send[s] # <<>> /\ packets_to_send'[s] = Tail(packets_to_send[s])
    <3> DEFINE q == packets_to_send[s]
    <3>1. q \in Seq(CommandPackets) /\ q # <<>> /\ packets_to_send'[s] = Tail(q)
      BY <1>1, <2>3
    <3>2. \A i \in 1..Len(q) : NumberedAs(s, g, q[i])
      BY <2>1
    <3> HIDE DEF q
    <3>3. /\ Len(Tail(q)) = Len(q) - 1 /\ Len(q) \in Nat
          /\ \A i \in 1..Len(Tail(q)) : Tail(q)[i] = q[i + 1]
      BY <3>1, HeadTailProperties, LenProperties
    <3>4. \A i \in 1..Len(Tail(q)) : i + 1 \in 1..Len(q)
      BY <3>3
    <3> QED
      BY <3>1, <3>2, <3>3, <3>4
  <2> QED
    BY <2>2, <2>3
<1>7. /\ ipc[s] = "idle" => \A j \in 1..typed[s] : g[j] < client_seqn'[s]
      /\ ipc[s] = "push" => /\ NumberedAs(s, g, pending[s])
                            /\ \A j \in 1..typed[s] : g[j] <= pending[s].seqn
                            /\ pending[s].seqn <= client_seqn'[s]
  <2>1. \A j \in 1..typed[s] : g[j] \in Nat
    BY <1>1, <1>4
  <2>2. /\ ipc[s] = "idle" => \A j \in 1..typed[s] : g[j] < client_seqn[s]
        /\ ipc[s] = "push" => /\ NumberedAs(s, g, pending[s])
                              /\ \A j \in 1..typed[s] : g[j] <= pending[s].seqn
                              /\ pending[s].seqn <= client_seqn[s]
    BY <1>4 DEF ClientNumbers
  <2> QED
    BY <1>1, <1>2, <1>3, <2>1, <2>2
<1>8. cpc'[s] = "sending" => SentAs(s, g, outgoing'[s])
  BY <1>4 DEF ClientNumbers
<1>9. ClientNumbers(s, g)'
  <2>1. /\ IsStretched(g) /\ typed[s] <= Len(Script[s])
        /\ typed[s] > 0 => payload[s] = Script[s][typed[s]].data
    BY <1>4 DEF ClientNumbers
  <2> QED
    BY <1>5, <1>6, <1>7, <1>8, <2>1 DEF ClientNumbers
<1> QED
  BY <1>3, <1>9, ClientKeepsNumbers

\* What a client writes that is no command.
LEMMA PlainWrite ==
  ASSUME SessionInv, NEW s \in Sessions, NEW type \in {"CONNECT", "ACK", "DISCONNECT"},
         NEW n \in Nat, ClientWrites(s, Packet(type, n, NoData))
  PROVE  \E p \in Packets :
           /\ toServer'[s] = (IF serverOpen[s] THEN Append(toServer[s], p) ELSE toServer[s])
           /\ ~IsCommand(p)
<1> DEFINE p == Packet(type, n, NoData)
<1>1. p \in Packets
  BY PacketType DEF PacketTypes, Payloads
<1>2. ~IsCommand(p)
  BY DEF IsCommand, Packet
<1>3. toServer' = Written(toServer, s, p, serverOpen)
  BY DEF ClientWrites
<1> HIDE DEF p
<1>4. toServer'[s] = (IF serverOpen[s] THEN Append(toServer[s], p) ELSE toServer[s])
  BY <1>3, ClientTypes DEF Written
<1> QED
  BY <1>1, <1>2, <1>4

\* Connecting, reading and ending write no command.
LEMMA PlainNumbers ==
  ASSUME SessionInv, NEW s \in Sessions, UNCHANGED serverVars, NEW g, NumbersAre(s, g),
         \/ send_connect_message(s) \/ ReceiveConnectReply(s) \/ LoopReceive(s)
         \/ LoopNothing(s) \/ Kill(s) \/ LoseConnection(s) \/ Disconnect(s)
  PROVE  NumbersAre(s, g)'
<1>1. /\ UNCHANGED <<typed, payload, ipc, pending, packets_to_send>>
      /\ cpc'[s] # "sending"
  BY ClientTypes DEF send_connect_message, ReceiveConnectReply, LoopReceive, LoopNothing,
     Kill, LoseConnection, Disconnect, Exit, CGoto, Set
<1>2. client_seqn'[s] \in {client_seqn[s], client_seqn[s] + 1}
  BY ClientTypes DEF send_connect_message, ReceiveConnectReply, LoopReceive, LoopNothing,
     Kill, LoseConnection, Disconnect, Set
<1>3. \/ toServer'[s] = toServer[s]
      \/ \E p \in Packets :
           /\ toServer'[s] = (IF serverOpen[s] THEN Append(toServer[s], p) ELSE toServer[s])
           /\ ~IsCommand(p)
  <2>1. CASE ReceiveConnectReply(s) \/ LoopNothing(s) \/ Kill(s) \/ LoseConnection(s)
    BY <2>1 DEF ReceiveConnectReply, LoopNothing, Kill, LoseConnection, wireVars
  <2>2. client_seqn[s] \in Nat
    BY ClientTypes
  <2>3. CASE send_connect_message(s) \/ Disconnect(s)
    BY <2>2, <2>3, PlainWrite DEF send_connect_message, Disconnect
  <2>4. CASE LoopReceive(s)
    <3>1. PICK batch \in Batches(toClient[s]) :
            ClientWrites(s, Packet("ACK", Head(batch).seqn, NoData))
      BY <2>4 DEF LoopReceive
    <3>2. Head(batch) \in Packets
      BY BatchProperties, ClientTypes
    <3>3. Head(batch).seqn \in Nat
      BY <3>2 DEF Packets
    <3> QED
      BY <3>1, <3>3, PlainWrite
  <2> QED
    BY <2>1, <2>3, <2>4
<1> QED
  BY <1>1, <1>2, <1>3, ClientStepNumbers

\* A write of a packet sent as one of the commands.
LEMMA SentWrite ==
  ASSUME SessionInv, NEW s \in Sessions, NEW g, NEW p \in Packets, ClientWrites(s, p),
         SentAs(s, g, p)
  PROVE  \E c \in Packets :
           /\ toServer'[s] = (IF serverOpen[s] THEN Append(toServer[s], c) ELSE toServer[s])
           /\ SentAs(s, g, c)
<1>1. toServer' = Written(toServer, s, p, serverOpen)
  BY DEF ClientWrites
<1>2. toServer'[s] = (IF serverOpen[s] THEN Append(toServer[s], p) ELSE toServer[s])
  BY <1>1, ClientTypes DEF Written
<1> QED
  BY <1>2

\* send_message: the head of the FIFO goes out with what payload holds now,
\* which is what it held when the command was typed, or later.
LEMMA SentNumbers ==
  ASSUME SessionInv, NEW s \in Sessions, UNCHANGED serverVars, NEW g, NumbersAre(s, g),
         send_message(s) \/ ReadNothing(s) \/ ReadReply(s)
  PROVE  NumbersAre(s, g)'
<1>1. /\ typed[s] \in Nat /\ client_seqn[s] \in Nat
      /\ packets_to_send[s] \in Seq(CommandPackets)
      /\ outgoing[s] \in CommandPackets /\ payload[s] \in Payloads
  BY NumbersTypes, ClientTypes
<1>2. /\ cpc[s] \in {"send", "sending"} /\ packets_to_send[s] # <<>>
      /\ UNCHANGED <<ipc, payload, typed, pending, serverOpen>>
  <2>1. HasWork
    BY DEF SessionInv
  <2> QED
    BY <2>1 DEF send_message, ReadNothing, ReadReply, CGoto, wireVars, HasWork
<1>3. ClientNumbers(s, g)
  BY DEF NumbersAre
<1>4. CommandPackets \subseteq Packets
  BY CommandPacketTypes
<1>5. CASE send_message(s)
  <2> DEFINE head == Head(packets_to_send[s])
             p == [head EXCEPT !.data = payload[s]]
  <2>1. /\ ClientWrites(s, p) /\ outgoing'[s] = p
        /\ UNCHANGED <<client_seqn, packets_to_send>>
    BY <1>5, ClientTypes DEF send_message, Set
  <2>2. head \in CommandPackets /\ head = packets_to_send[s][1] /\ 1 \in 1..Len(packets_to_send[s])
    BY <1>1, <1>2, HeadTailProperties, LenProperties
  <2>3. PICK j \in 1..typed[s] : head.type = Script[s][j].type /\ head.seqn = g[j]
    BY <1>3, <2>2 DEF ClientNumbers, NumberedAs
  <2>4. payload[s] = Script[s][typed[s]].data /\ typed[s] \in j..typed[s]
    BY <1>1, <1>3, <2>3 DEF ClientNumbers
  <2>5. p \in CommandPackets /\ p.type = head.type /\ p.seqn = head.seqn /\ p.data = payload[s]
    BY <1>1, <2>2 DEF CommandPackets
  <2> HIDE DEF head, p
  <2>6. SentAs(s, g, p)
    BY <2>3, <2>4, <2>5 DEF SentAs
  <2>7. \E c \in Packets :
          /\ toServer'[s] = (IF serverOpen[s] THEN Append(toServer[s], c) ELSE toServer[s])
          /\ SentAs(s, g, c)
    BY <1>4, <2>1, <2>5, <2>6, SentWrite
  <2> QED
    BY <1>2, <2>1, <2>6, <2>7, ClientStepNumbers
<1>6. ASSUME cpc[s] = "sending", Retry(s)
      PROVE  cpc'[s] = "sending" => outgoing'[s] = outgoing[s]
  BY <1>6, ClientTypes DEF Retry, CGoto
<1>7. CASE ReadNothing(s)
  <2>1. /\ cpc[s] = "sending" /\ Retry(s)
        /\ UNCHANGED <<client_seqn, packets_to_send, toServer>>
    BY <1>7 DEF ReadNothing, wireVars
  <2> QED
    BY <1>2, <1>6, <2>1, ClientStepNumbers
<1>8. CASE ReadReply(s)
  <2>1. cpc[s] = "sending"
    BY <1>8 DEF ReadReply
  <2>2. SentAs(s, g, outgoing[s])
    BY <1>3, <2>1 DEF ClientNumbers
  <2>3. \/ /\ packets_to_send'[s] = Tail(packets_to_send[s])
           /\ client_seqn'[s] = client_seqn[s] + 1
           /\ cpc'[s] = "loop"
           /\ UNCHANGED toServer
        \/ /\ ClientWrites(s, outgoing[s])
           /\ Retry(s)
           /\ UNCHANGED <<client_seqn, packets_to_send>>
        \/ Retry(s) /\ UNCHANGED <<client_seqn, packets_to_send, toServer>>
    BY <1>8, ClientTypes DEF ReadReply, CGoto, Set
  <2>4. CASE /\ packets_to_send'[s] = Tail(packets_to_send[s])
             /\ client_seqn'[s] = client_seqn[s] + 1
             /\ cpc'[s] = "loop"
             /\ UNCHANGED toServer
    BY <1>2, <2>4, ClientStepNumbers
  <2>5. CASE /\ ClientWrites(s, outgoing[s])
             /\ Retry(s)
             /\ UNCHANGED <<client_seqn, packets_to_send>>
    <3>1. \E c \in Packets :
            /\ toServer'[s] = (IF serverOpen[s] THEN Append(toServer[s], c) ELSE toServer[s])
            /\ SentAs(s, g, c)
      BY <1>1, <1>4, <2>2, <2>5, SentWrite
    <3> QED
      BY <1>2, <1>6, <2>1, <2>5, <3>1, ClientStepNumbers
  <2>6. CASE Retry(s) /\ UNCHANGED <<client_seqn, packets_to_send, toServer>>
    BY <1>2, <1>6, <2>1, <2>6, ClientStepNumbers
  <2> QED
    BY <2>3, <2>4, <2>5, <2>6
<1> QED
  BY <1>5, <1>7, <1>8

\* A client keeps the numbers in order, whatever its two threads do to seqn.
LEMMA ClientKeepsOrder ==
  ASSUME SessionInv, NumbersInv, ClientNext, UNCHANGED serverVars
  PROVE  NumbersInv'
<1>1. PICK s \in Sessions :
        \/ Communication(s) \/ Interface(s) \/ Quit(s) \/ Kill(s) \/ LoseConnection(s)
  BY DEF ClientNext
<1>2. SUFFICES ASSUME NEW t \in Sessions, NEW g \in [1..typed[t] -> 0..client_seqn[t]],
                      NumbersAre(t, g)
               PROVE  \E h \in [1..typed'[t] -> 0..client_seqn'[t]] : NumbersAre(t, h)'
  BY DEF NumbersInv
<1>3. TypeOK
  BY DEF SessionInv
<1>4. ASSUME NumbersAre(t, g)'
      PROVE  \E h \in [1..typed'[t] -> 0..client_seqn'[t]] : NumbersAre(t, h)'
  <2>1. g \in [1..typed'[t] -> 0..client_seqn'[t]]
    BY <1>4 DEF NumbersAre
  <2> QED
    BY <1>4, <2>1
<1>5. CASE CommandFrame(t)
  BY <1>2, <1>4, <1>5, NumbersSame
<1>6. CASE t # s
  BY <1>1, <1>3, <1>5, <1>6, ClientCommandFrame
<1>7. CASE t = s
  <2>1. CASE Display(s) \/ Quit(s)
    <3>1. CommandFrame(t)
      BY <1>7, <2>1 DEF Display, Quit, CommandFrame, serverVars, threadVars, wireVars
    <3> QED
      BY <1>5, <3>1
  <2>2. CASE TypeCommand(s)
    BY <1>2, <1>7, <2>2, TypedNumbers
  <2>3. CASE PushCommand(s)
    BY <1>2, <1>4, <1>7, <2>3, PushedNumbers
  <2>4. CASE ~(Display(s) \/ Quit(s) \/ Interface(s))
    <3>1. NumbersAre(t, g)'
      BY <1>1, <1>2, <1>7, <2>4, PlainNumbers, SentNumbers DEF Communication
    <3> QED
      BY <1>4, <3>1
  <2> QED
    BY <2>1, <2>2, <2>3, <2>4 DEF Interface
<1> QED
  BY <1>6, <1>7


\* Nothing is numbered at first.
LEMMA InitNumbers ==
  ASSUME Init
  PROVE  NumbersInv
<1>1. ASSUME NEW s \in Sessions
      PROVE  \E g \in [1..typed[s] -> 0..client_seqn[s]] : NumbersAre(s, g)
  <2>1. /\ cpc[s] = "connect" /\ ipc[s] = "idle" /\ typed[s] = 0 /\ client_seqn[s] = 0
        /\ packets_to_send[s] = <<>> /\ executed[s] = <<>>
        /\ max_reference_seqn[s] = 0 /\ inbuf[s] = <<>> /\ toServer[s] = <<>>
    BY <1>1 DEF Init, WireInit, ServerInit, ClientInit
  <2>2. Count(s) = 0 /\ Len(<<>>) = 0 /\ Len(Script[s]) \in Nat
    BY <2>1, EmptySeq, LenProperties, ClientAssumption DEF Count, ClientAssumption
  <2> DEFINE none == [j \in 1..0 |-> 0]
  <2>3. none \in [1..0 -> 0..0] /\ none \in [1..0 -> 1..0] /\ DOMAIN none = {}
    OBVIOUS
  <2> HIDE DEF none
  <2>4. IsStretched(none)
    BY <2>3 DEF IsStretched
  <2>5. ClientNumbers(s, none)
    BY <2>1, <2>2, <2>4 DEF ClientNumbers
  <2>6. ThreadNumbers(s, none)
    BY <2>1, <2>2, <2>3, <2>4 DEF ThreadNumbers
  <2>7. ChannelNumbers(s, none, <<>>)
    BY <2>2 DEF ChannelNumbers
  <2>8. NumbersAre(s, none)
    BY <2>1, <2>3, <2>5, <2>6, <2>7 DEF NumbersAre
  <2> QED
    BY <2>1, <2>3, <2>8
<1> QED
  BY <1>1 DEF NumbersInv

\* The inductive invariant, for users who wait and users who do not: each
\* command has a number beyond those before it, and the thread remembers one
\* beyond those of all it executed.
THEOREM NumbersInvariant == Spec => []NumbersInv
<1>1. SessionInv /\ SessionInv' /\ NumbersInv /\ [Next]_vars => NumbersInv'
  <2>1. ASSUME NumbersInv, UNCHANGED vars
        PROVE  NumbersInv'
    <3>1. UNCHANGED <<typed, client_seqn>> /\ \A t \in Sessions : CommandFrame(t)
      BY <2>1 DEF vars, serverVars, threadVars, clientVars, wireVars, CommandFrame
    <3> QED
      BY <2>1, <3>1, NumbersSame DEF NumbersInv
  <2> QED
    BY <2>1, ServerNumbers, ClientKeepsOrder DEF Next
<1> QED
  BY <1>1, InitNumbers, SessionInvariant, PTL DEF Spec

\* However many commands the user types without waiting, and however the two
\* threads of the client mix up seqn and payload, receive_FOLLOW and
\* receive_SEND execute no command twice or after a later one; what an
\* executed command is about is what it or a later one was typed with.
THEOREM CommandsStayInOrder == Spec => []CommandsInOrder
<1>1. NumbersInv => CommandsInOrder
  <2>1. ASSUME NEW s \in Sessions, NEW g, NumbersAre(s, g)
        PROVE  ObeyedInOrder(s)
    BY <2>1 DEF NumbersAre, ThreadNumbers, ObeyedInOrder
  <2> QED
    BY <2>1 DEF NumbersInv, CommandsInOrder
<1> QED
  BY <1>1, NumbersInvariant, PTL
=============================================================================
