----------------------------- MODULE UartProofs -----------------------------
(***************************************************************************)
(* Both directions of the UART are queues that lose a byte only when an    *)
(* overrun is counted, for every size of the rings and every run of bytes. *)
(***************************************************************************)
EXTENDS VpUart, SequenceTheorems, TLAPS

\* The arrays of a ring, the bytes a slot of this one holds, and those that are
\* offered to it.
Arrays(S) == [Slots -> S]
Cells == 0 .. MaxBytes
Numbers == 1 .. MaxBytes

\* The indices of a ring: a sum is never far past the end.
LEMMA Wraps ==
    ASSUME NEW a \in 0 .. (2 * Size - 1)
    PROVE  a % Size = IF a < Size THEN a ELSE a - Size
<1>1. Size \in Nat /\ Size > 1
  BY RingAssumption
<1>2. CASE a < Size
  BY <1>1, <1>2
<1>3. CASE ~(a < Size)
  BY <1>1, <1>3
<1> QED
  BY <1>2, <1>3

LEMMA UsedIs ==
    ASSUME NEW h \in Slots, NEW t \in Slots
    PROVE  /\ Used(h, t) = IF t < h THEN t + Size - h ELSE t - h
           /\ Used(h, t) \in 0 .. (Size - 1)
           /\ Free(h, t) = Size - 1 - Used(h, t)
<1>1. /\ Size \in Nat /\ Size > 1 /\ h \in 0 .. (Size - 1) /\ t \in 0 .. (Size - 1)
  BY RingAssumption DEF Slots
<1>2. /\ t + Size - h \in 0 .. (2 * Size - 1)
      /\ h + Size - t - 1 \in 0 .. (2 * Size - 1)
  BY <1>1
<1> QED
  BY <1>1, <1>2, Wraps DEF Used, Free

LEMMA ForwardIs ==
    ASSUME NEW s \in Slots, NEW n \in 0 .. Size
    PROVE  /\ Forward(s, n) = IF s + n < Size THEN s + n ELSE s + n - Size
           /\ Forward(s, n) \in Slots
<1>1. Size \in Nat /\ Size > 1 /\ s \in 0 .. (Size - 1) /\ s + n \in 0 .. (2 * Size - 1)
  BY RingAssumption DEF Slots
<1> QED
  BY <1>1, Wraps DEF Forward, Slots

\* What a ring holds is a sequence; its k-th byte is k - 1 slots behind the head.
LEMMA ContentsIs ==
    ASSUME NEW S, NEW buf \in Arrays(S), NEW h \in Slots, NEW t \in Slots
    PROVE  /\ Contents(buf, h, t) \in Seq(S)
           /\ Len(Contents(buf, h, t)) = Used(h, t)
           /\ \A k \in 1 .. Used(h, t) : Contents(buf, h, t)[k] = buf[Forward(h, k - 1)]
<1>1. Used(h, t) \in Nat /\ Used(h, t) < Size /\ Size \in Nat
  BY UsedIs, RingAssumption
<1>2. \A k \in 1 .. Used(h, t) : Forward(h, k - 1) \in Slots
  BY <1>1, ForwardIs
<1>3. \A k \in 1 .. Used(h, t) : buf[Forward(h, k - 1)] \in S
  BY <1>2 DEF Arrays
<1> DEFINE m == Used(h, t)
           e(k) == buf[Forward(h, k - 1)]
<1>4. m \in Nat /\ \A k \in 1 .. m : e(k) \in S
  BY <1>1, <1>3
<1>5. Contents(buf, h, t) = [k \in 1 .. m |-> e(k)]
  BY DEF Contents
<1> HIDE DEF m, e
<1>6. /\ [k \in 1 .. m |-> e(k)] \in Seq(S)
      /\ Len([k \in 1 .. m |-> e(k)]) = m
      /\ \A j \in 1 .. m : [k \in 1 .. m |-> e(k)][j] = e(j)
  BY <1>4
<1> QED
  BY <1>5, <1>6 DEF m, e

\* Bytes for which there is room land behind those already there.
LEMMA StoredAppends ==
    ASSUME NEW S, NEW buf \in Arrays(S), NEW h \in Slots, NEW t \in Slots,
           NEW bytes \in Seq(S), Len(bytes) <= Free(h, t)
    PROVE  /\ Stored(buf, t, bytes) \in Arrays(S)
           /\ Forward(t, Len(bytes)) \in Slots
           /\ Contents(Stored(buf, t, bytes), h, Forward(t, Len(bytes)))
                = Contents(buf, h, t) \o bytes
<1> DEFINE n == Len(bytes)
           u == Used(h, t)
           new == Stored(buf, t, bytes)
           last == Forward(t, n)
<1>1. /\ Size \in Nat /\ Size > 1 /\ n \in Nat /\ u \in Nat /\ n + u <= Size - 1
      /\ h \in 0 .. (Size - 1) /\ t \in 0 .. (Size - 1)
  <2>1. /\ Size \in Nat /\ Size > 1 /\ h \in 0 .. (Size - 1) /\ t \in 0 .. (Size - 1)
    BY RingAssumption DEF Slots
  <2>2. u \in 0 .. (Size - 1) /\ n \in Nat /\ n <= Size - 1 - u
    BY UsedIs
  <2> HIDE DEF n, u
  <2> QED
    BY <2>1, <2>2
<1>2. u = IF t < h THEN t + Size - h ELSE t - h
  BY UsedIs
<1>3. /\ last = IF t + n < Size THEN t + n ELSE t + n - Size
      /\ last \in Slots
  BY <1>1, ForwardIs
<1>4. \A s \in Slots :
        /\ (s + Size - t) % Size = IF s < t THEN s + Size - t ELSE s - t
        /\ new[s] = IF (s + Size - t) % Size < n THEN bytes[((s + Size - t) % Size) + 1]
                                                 ELSE buf[s]
  BY <1>1, UsedIs DEF Stored, Used
<1>5. new \in Arrays(S)
  <2>1. \A s \in Slots : new[s] \in S
    <3> TAKE s \in Slots
    <3>1. s \in 0 .. (Size - 1)
      BY DEF Slots
    <3> DEFINE d == (s + Size - t) % Size
    <3>2. d \in Nat /\ new[s] = IF d < n THEN bytes[d + 1] ELSE buf[s]
      BY <1>1, <1>4, <3>1
    <3> HIDE DEF d, n, new
    <3>3. d < n => d + 1 \in 1 .. Len(bytes)
      BY <1>1, <3>2 DEF n
    <3>4. d < n => bytes[d + 1] \in S
      BY <3>3
    <3> QED
      BY <3>2, <3>4 DEF Arrays
  <2>2. new = [s \in Slots |-> new[s]]
    BY DEF Stored
  <2> QED
    BY <2>1, <2>2 DEF Arrays
<1>6. Used(h, last) = u + n
  <2>1. Used(h, last) = IF last < h THEN last + Size - h ELSE last - h
    BY <1>3, UsedIs
  <2> HIDE DEF u, n, last
  <2> QED
    BY <1>1, <1>2, <1>3, <2>1
<1>7. /\ Contents(new, h, last) \in Seq(S) /\ Len(Contents(new, h, last)) = u + n
      /\ \A k \in 1 .. (u + n) : Contents(new, h, last)[k] = new[Forward(h, k - 1)]
  <2> HIDE DEF n, u, new, last
  <2>1. /\ Contents(new, h, last) \in Seq(S) /\ Len(Contents(new, h, last)) = Used(h, last)
        /\ \A k \in 1 .. Used(h, last) : Contents(new, h, last)[k] = new[Forward(h, k - 1)]
    <3>1. last \in Slots
      BY <1>3
    <3> QED
      BY <1>5, <3>1, ContentsIs, Zenon
  <2> QED
    BY <1>6, <2>1, Zenon
<1>8. /\ Contents(buf, h, t) \in Seq(S) /\ Len(Contents(buf, h, t)) = u
      /\ \A k \in 1 .. u : Contents(buf, h, t)[k] = buf[Forward(h, k - 1)]
  BY ContentsIs
<1>9. ASSUME NEW k \in 1 .. (u + n)
      PROVE  Contents(new, h, last)[k] = (Contents(buf, h, t) \o bytes)[k]
  <2> DEFINE s == Forward(h, k - 1)
             d == (s + Size - t) % Size
  <2>1. /\ s = IF h + k - 1 < Size THEN h + k - 1 ELSE h + k - 1 - Size
        /\ s \in Slots /\ s \in 0 .. (Size - 1)
    <3>1. k - 1 \in 0 .. Size
      <4> HIDE DEF n, u
      <4> QED
        BY <1>1
    <3>2. h + (k - 1) = h + k - 1
      BY <1>1, <3>1
    <3>3. /\ s = IF h + (k - 1) < Size THEN h + (k - 1) ELSE h + (k - 1) - Size
          /\ s \in Slots
      BY <3>1, ForwardIs
    <3> HIDE DEF s
    <3> QED
      BY <3>2, <3>3 DEF Slots
  <2>2. d = IF s < t THEN s + Size - t ELSE s - t
    BY <1>4, <2>1
  <2>3. new[s] = IF d < n THEN bytes[d + 1] ELSE buf[s]
    BY <1>4, <2>1
  <2>4. Contents(new, h, last)[k] = new[s]
    BY <1>7
  <2> HIDE DEF s, d, n, u, new, last
  <2>9. k \in Nat /\ (k <= u \/ k > u)
    BY <1>1
  <2>5. CASE k <= u
    <3>1. ~(d < n)
      BY <1>1, <1>2, <2>1, <2>2, <2>5
    <3>2. (Contents(buf, h, t) \o bytes)[k] = Contents(buf, h, t)[k]
      BY <1>1, <1>8, <2>5 DEF n
    <3> QED
      BY <1>1, <1>8, <2>3, <2>4, <2>5, <3>1, <3>2 DEF s
  <2>6. CASE k > u
    <3>1. d = k - u - 1 /\ d < n
      BY <1>1, <1>2, <2>1, <2>2, <2>6
    <3>2. (Contents(buf, h, t) \o bytes)[k] = bytes[k - u]
      BY <1>1, <1>8, <2>6 DEF n
    <3>3. d + 1 = k - u
      BY <1>1, <3>1
    <3> QED
      BY <2>3, <2>4, <3>1, <3>2, <3>3
  <2> QED
    BY <2>5, <2>6, <2>9
<1>10. /\ Contents(buf, h, t) \o bytes \in Seq(S)
       /\ Len(Contents(buf, h, t) \o bytes) = u + n
  BY <1>8, ConcatProperties
<1> HIDE DEF n, u, new, last
<1>11. Contents(new, h, last) = Contents(buf, h, t) \o bytes
  BY <1>1, <1>7, <1>9, <1>10, SeqEqual
<1> QED
  BY <1>3, <1>5, <1>11 DEF n, new, last

\* The bytes behind the first n.
LEMMA RestIs ==
    ASSUME NEW S, NEW q \in Seq(S), NEW n \in 0 .. Len(q)
    PROVE  /\ SubSeq(q, n + 1, Len(q)) \in Seq(S)
           /\ Len(SubSeq(q, n + 1, Len(q))) = Len(q) - n
           /\ \A k \in 1 .. (Len(q) - n) : SubSeq(q, n + 1, Len(q))[k] = q[n + k]
OBVIOUS

\* The bytes at the head leave first, and without them the others remain.
LEMMA ForwardTakes ==
    ASSUME NEW S, NEW buf \in Arrays(S), NEW h \in Slots, NEW t \in Slots,
           NEW n \in 0 .. Used(h, t)
    PROVE  /\ Forward(h, n) \in Slots
           /\ Contents(buf, Forward(h, n), t)
                = SubSeq(Contents(buf, h, t), n + 1, Len(Contents(buf, h, t)))
<1> DEFINE u == Used(h, t)
           g == Forward(h, n)
           old == Contents(buf, h, t)
           new == Contents(buf, g, t)
<1>1. /\ Size \in Nat /\ Size > 1 /\ h \in 0 .. (Size - 1) /\ t \in 0 .. (Size - 1)
      /\ u \in 0 .. (Size - 1) /\ n \in 0 .. u
      /\ u = IF t < h THEN t + Size - h ELSE t - h
  <2>1. /\ Size \in Nat /\ Size > 1 /\ h \in 0 .. (Size - 1) /\ t \in 0 .. (Size - 1)
    BY RingAssumption DEF Slots
  <2>2. u \in 0 .. (Size - 1) /\ u = IF t < h THEN t + Size - h ELSE t - h
    BY UsedIs
  <2> QED
    BY <2>1, <2>2
<1>2. g = (IF h + n < Size THEN h + n ELSE h + n - Size) /\ g \in Slots
  <2>1. n \in 0 .. Size
    <3> HIDE DEF u
    <3> QED
      BY <1>1
  <2> QED
    BY <2>1, ForwardIs
<1>3. Used(g, t) = u - n
  <2>1. Used(g, t) = IF t < g THEN t + Size - g ELSE t - g
    BY <1>2, UsedIs
  <2> HIDE DEF u, g
  <2> QED
    BY <1>1, <1>2, <2>1 DEF Slots
<1>4. /\ old \in Seq(S) /\ Len(old) = u
      /\ \A k \in 1 .. u : old[k] = buf[Forward(h, k - 1)]
  BY ContentsIs
<1>5. /\ new \in Seq(S) /\ Len(new) = u - n
      /\ \A k \in 1 .. (u - n) : new[k] = buf[Forward(g, k - 1)]
  <2> HIDE DEF u, g, new
  <2>1. /\ new \in Seq(S) /\ Len(new) = Used(g, t)
        /\ \A k \in 1 .. Used(g, t) : new[k] = buf[Forward(g, k - 1)]
    <3>1. g \in Slots
      BY <1>2
    <3> QED
      BY <3>1, ContentsIs, Zenon DEF new
  <2> QED
    BY <1>3, <2>1, Zenon
<1>6. ASSUME NEW k \in 1 .. (u - n)
      PROVE  new[k] = old[n + k]
  <2> HIDE DEF u, g
  <2>1. /\ n + k \in 1 .. u /\ k - 1 \in 0 .. Size /\ (n + k) - 1 \in 0 .. Size
        /\ Size \in Nat /\ h \in Nat /\ n \in Nat /\ k \in Nat
    BY <1>1
  <2>2. Forward(g, k - 1) = IF g + (k - 1) < Size THEN g + (k - 1) ELSE g + (k - 1) - Size
    BY <1>2, <2>1, ForwardIs
  <2>3. Forward(h, (n + k) - 1)
          = IF h + ((n + k) - 1) < Size THEN h + ((n + k) - 1) ELSE h + ((n + k) - 1) - Size
    BY <2>1, ForwardIs
  <2>4. Forward(g, k - 1) = Forward(h, (n + k) - 1)
    BY <1>1, <1>2, <2>1, <2>2, <2>3
  <2>5. old[n + k] = buf[Forward(h, (n + k) - 1)]
    <3> HIDE DEF old
    <3> QED
      BY <1>4, <2>1
  <2>6. new[k] = buf[Forward(g, k - 1)]
    BY <1>5
  <2> QED
    BY <2>4, <2>5, <2>6
<1> HIDE DEF u, g, old, new
<1>7. n \in 0 .. Len(old) /\ n \in Nat /\ u \in Nat
  BY <1>1, <1>4
<1>8. new = SubSeq(old, n + 1, Len(old))
  <2> DEFINE rest == SubSeq(old, n + 1, Len(old))
  <2>1. /\ rest \in Seq(S) /\ Len(rest) = u - n
        /\ \A k \in 1 .. (u - n) : rest[k] = old[n + k]
    BY <1>4, <1>7, RestIs
  <2> HIDE DEF rest
  <2>2. rest = new
    BY <1>5, <1>6, <2>1, SeqEqual
  <2> QED
    BY <2>2 DEF rest
<1> QED
  BY <1>2, <1>8 DEF g, old, new

-----------------------------------------------------------------------------
\* What StoredAppends says of the bytes of this ring.
LEMMA InjectStores ==
    ASSUME NEW buf \in Arrays(Cells), NEW h \in Slots, NEW t \in Slots,
           NEW bytes \in Seq(Cells), Len(bytes) <= Free(h, t)
    PROVE  /\ Stored(buf, t, bytes) \in Arrays(Cells)
           /\ Forward(t, Len(bytes)) \in Slots
           /\ Contents(Stored(buf, t, bytes), h, Forward(t, Len(bytes)))
                = Contents(buf, h, t) \o bytes
<1>1. Contents(Stored(buf, t, bytes), h, Forward(t, Len(bytes)))
        = Contents(buf, h, t) \o bytes
  BY StoredAppends, SMT
<1>2. Stored(buf, t, bytes) \in Arrays(Cells) /\ Forward(t, Len(bytes)) \in Slots
  BY StoredAppends, Zenon
<1> QED
  BY <1>1, <1>2

\* The numbered bytes of a call, and of two calls in a row.
LEMMA FreshIs ==
    ASSUME NEW a \in Nat, NEW n \in Nat, a + n <= MaxBytes
    PROVE  Fresh(a, n) \in Seq(Numbers) /\ Len(Fresh(a, n)) = n
<1>1. MaxBytes \in Nat
  BY UartAssumption
<1>2. \A k \in 1 .. n : a + k \in Numbers
  BY <1>1 DEF Numbers
<1> QED
  BY <1>2 DEF Fresh, Numbers

LEMMA FreshJoins ==
    ASSUME NEW a \in Nat, NEW n \in Nat
    PROVE  Fresh(0, a) \o Fresh(a, n) = Fresh(0, a + n)
<1>1. /\ Fresh(0, a) \in Seq(Nat) /\ Len(Fresh(0, a)) = a
      /\ \A k \in 1 .. a : Fresh(0, a)[k] = k
  BY DEF Fresh
<1>2. /\ Fresh(a, n) \in Seq(Nat) /\ Len(Fresh(a, n)) = n
      /\ \A k \in 1 .. n : Fresh(a, n)[k] = a + k
  BY DEF Fresh
<1>3. /\ Fresh(0, a + n) \in Seq(Nat) /\ Len(Fresh(0, a + n)) = a + n
      /\ \A k \in 1 .. (a + n) : Fresh(0, a + n)[k] = k
  BY DEF Fresh
<1> DEFINE x == Fresh(0, a)
           y == Fresh(a, n)
           z == Fresh(0, a + n)
<1> HIDE DEF x, y, z
<1>4. /\ x \o y \in Seq(Nat) /\ Len(x \o y) = a + n
      /\ \A k \in 1 .. (a + n) : (x \o y)[k] = IF k <= a THEN x[k] ELSE y[k - a]
  <2>1. x \in Seq(Nat) /\ Len(x) = a /\ y \in Seq(Nat) /\ Len(y) = n
    BY <1>1, <1>2 DEF x, y
  <2> QED
    BY <2>1, ConcatProperties
<1>5. ASSUME NEW k \in 1 .. (a + n) PROVE (x \o y)[k] = z[k]
  <2>1. z[k] = k
    BY <1>3 DEF z
  <2>2. CASE k <= a
    BY <1>1, <1>4, <2>1, <2>2 DEF x
  <2>3. CASE ~(k <= a)
    <3>1. k - a \in 1 .. n
      BY <2>3
    <3>2. y[k - a] = a + (k - a)
      BY <1>2, <3>1 DEF y
    <3> QED
      BY <1>4, <2>1, <2>3, <3>2
  <2> QED
    BY <2>2, <2>3
<1>6. z \in Seq(Nat) /\ Len(z) = a + n
  BY <1>3 DEF z
<1>7. x \o y = z
  BY <1>4, <1>5, <1>6, SeqEqual
<1> QED
  BY <1>7 DEF x, y, z

\* Bytes that join a queue are behind all that have left it.
LEMMA JoinsLast ==
    ASSUME NEW r \in Seq(Numbers), NEW s \in Seq(Numbers), NEW bytes \in Seq(Numbers)
    PROVE  r \o (s \o bytes) = (r \o s) \o bytes
  BY ConcatAssociative

\* A sequence is its first n elements and the others.
LEMMA SplitAt ==
    ASSUME NEW S, NEW s \in Seq(S), NEW n \in 0 .. Len(s)
    PROVE  /\ SubSeq(s, 1, n) \in Seq(S) /\ Len(SubSeq(s, 1, n)) = n
           /\ SubSeq(s, n + 1, Len(s)) \in Seq(S)
           /\ Len(SubSeq(s, n + 1, Len(s))) = Len(s) - n
           /\ SubSeq(s, 1, n) \o SubSeq(s, n + 1, Len(s)) = s
<1> DEFINE front == SubSeq(s, 1, n)
           rest == SubSeq(s, n + 1, Len(s))
<1>1. Len(s) \in Nat /\ n \in Nat /\ n <= Len(s) /\ \A i \in 1 .. Len(s) : s[i] \in S
  OBVIOUS
<1>2. /\ front \in Seq(S) /\ Len(front) = n
      /\ \A i \in 1 .. n : front[i] = s[i]
  BY <1>1
<1>3. /\ rest \in Seq(S) /\ Len(rest) = Len(s) - n
      /\ \A i \in 1 .. (Len(s) - n) : rest[i] = s[n + i]
  BY <1>1
<1> HIDE DEF front, rest
<1>4. /\ front \o rest \in Seq(S) /\ Len(front \o rest) = Len(s)
      /\ \A i \in 1 .. Len(s) :
            (front \o rest)[i] = IF i <= n THEN front[i] ELSE rest[i - n]
  <2>1. front \in Seq(S) /\ rest \in Seq(S)
    BY <1>2, <1>3
  <2>2. /\ front \o rest \in Seq(S) /\ Len(front \o rest) = Len(front) + Len(rest)
        /\ \A i \in 1 .. Len(front) + Len(rest) :
              (front \o rest)[i] = IF i <= Len(front) THEN front[i]
                                   ELSE rest[i - Len(front)]
    BY <2>1, ConcatProperties
  <2> QED
    BY <1>1, <1>2, <1>3, <2>2
<1>5. ASSUME NEW i \in 1 .. Len(s) PROVE (front \o rest)[i] = s[i]
  <2>1. CASE i <= n
    BY <1>1, <1>2, <1>4, <2>1
  <2>2. CASE ~(i <= n)
    <3>1. i - n \in 1 .. (Len(s) - n) /\ n + (i - n) = i
      BY <1>1, <2>2
    <3> QED
      BY <1>3, <1>4, <2>2, <3>1
  <2> QED
    BY <2>1, <2>2
<1>6. front \o rest = s
  BY <1>4, <1>5, SeqEqual
<1> QED
  BY <1>2, <1>3, <1>6 DEF front, rest

\* Bytes that move from the front of a queue to what has left it.
LEMMA FrontMoves ==
    ASSUME NEW r \in Seq(Numbers), NEW s \in Seq(Numbers), NEW n \in 0 .. Len(s)
    PROVE  /\ r \o SubSeq(s, 1, n) \in Seq(Numbers)
           /\ SubSeq(s, n + 1, Len(s)) \in Seq(Numbers)
           /\ Len(SubSeq(s, n + 1, Len(s))) = Len(s) - n
           /\ (r \o SubSeq(s, 1, n)) \o SubSeq(s, n + 1, Len(s)) = r \o s
<1> DEFINE front == SubSeq(s, 1, n)
           rest == SubSeq(s, n + 1, Len(s))
<1>1. /\ front \in Seq(Numbers) /\ rest \in Seq(Numbers)
      /\ Len(rest) = Len(s) - n /\ front \o rest = s
  BY SplitAt
<1> HIDE DEF front, rest
<1>2. (r \o front) \o rest = r \o (front \o rest)
  <2>1. front \in Seq(Numbers) /\ rest \in Seq(Numbers)
    BY <1>1
  <2> QED
    BY <2>1, ConcatAssociative
<1>3. r \o front \in Seq(Numbers)
  BY <1>1, ConcatProperties
<1> QED
  BY <1>1, <1>2, <1>3 DEF front, rest
-----------------------------------------------------------------------------
\* The types of the two directions.  The bytes in the ring are numbered.
RxTypes ==
    /\ rx_buf \in Arrays(Cells) /\ rx_head \in Slots /\ rx_tail \in Slots
    /\ injected \in 0 .. MaxBytes
    /\ received \in Seq(Numbers) /\ Incoming \in Seq(Numbers)

TxTypes ==
    /\ tx_buf \in Seq(Numbers) /\ Len(tx_buf) <= Size
    /\ written \in 0 .. MaxBytes /\ taken \in Seq(Numbers)

UartInv == open \in BOOLEAN /\ overrun_errors \in Nat /\ RxTypes /\ TxTypes /\ NoSilentLoss

\* Neither direction holds a byte after an initialisation or a reset.
Cleared ==
    /\ rx_buf = [s \in Slots |-> 0] /\ rx_head = 0 /\ rx_tail = 0
    /\ tx_buf = << >> /\ overrun_errors = 0
    /\ injected = 0 /\ written = 0 /\ received = << >> /\ taken = << >>

LEMMA ClearedIsEmpty == Cleared => Incoming = << >> /\ RxTypes /\ TxTypes /\ NoSilentLoss
<1> SUFFICES ASSUME Cleared
             PROVE  Incoming = << >> /\ RxTypes /\ TxTypes /\ NoSilentLoss
  OBVIOUS
<1>1. Size \in Nat /\ Size > 1 /\ MaxBytes \in Nat /\ 0 \in Slots
  BY RingAssumption, UartAssumption DEF Slots
<1>2. Used(0, 0) = 0
  BY <1>1, UsedIs
<1>3. rx_buf \in Arrays(Cells)
  BY <1>1 DEF Cleared, Arrays, Cells
<1>4. Incoming \in Seq(Cells) /\ Len(Incoming) = 0
  BY <1>1, <1>2, <1>3, ContentsIs DEF Cleared, Incoming
<1>5. Incoming = << >>
  BY <1>4
<1>6. RxTypes /\ TxTypes
  BY <1>1, <1>3, <1>5 DEF Cleared, RxTypes, TxTypes
<1>7. Fresh(0, 0) = << >>
  BY DEF Fresh
<1>8. NoSilentLoss
  BY <1>5, <1>7 DEF Cleared, NoSilentLoss
<1> QED
  BY <1>5, <1>6, <1>8

\* What vp_uart_inject does to the queue of bytes that arrive.
LEMMA InjectAppends ==
    ASSUME UartInv, NEW n \in 1 .. MaxRun, Inject(n)
    PROVE  \E k \in 0 .. n :
             /\ Incoming' = Incoming \o Fresh(injected, k)
             /\ Fresh(injected, k) \in Seq(Numbers)
             /\ Len(Incoming') <= Size - 1
             /\ overrun_errors' = overrun_errors + (IF k < n THEN 1 ELSE 0)
             /\ RxTypes'
<1> DEFINE k == Smaller(n, Free(rx_head, rx_tail))
           bytes == Fresh(injected, k)
<1>1. /\ Size \in Nat /\ Size > 1 /\ MaxBytes \in Nat /\ MaxRun \in Nat
      /\ n \in Nat /\ injected \in Nat /\ injected + n <= MaxBytes
      /\ rx_buf \in Arrays(Cells) /\ rx_head \in Slots /\ rx_tail \in Slots
  BY RingAssumption, UartAssumption DEF UartInv, RxTypes, Inject
<1>2. Free(rx_head, rx_tail) \in Nat /\ Free(rx_head, rx_tail) < Size
  BY <1>1, UsedIs
<1>3. k \in 0 .. n /\ k <= Free(rx_head, rx_tail)
  BY <1>1, <1>2 DEF Smaller
<1>4. /\ rx_buf' = Stored(rx_buf, rx_tail, bytes) /\ rx_tail' = Forward(rx_tail, k)
      /\ overrun_errors' = overrun_errors + (IF k < n THEN 1 ELSE 0)
      /\ injected' = injected + n /\ rx_head' = rx_head /\ received' = received
  BY DEF Inject
<1> HIDE DEF k
<1>5. bytes \in Seq(Numbers) /\ Len(bytes) = k
  BY <1>1, <1>3, FreshIs
<1>6. bytes \in Seq(Cells)
  BY <1>1, <1>5 DEF Cells, Numbers
<1> HIDE DEF bytes
<1>7. /\ rx_buf' \in Arrays(Cells) /\ rx_tail' \in Slots
      /\ Incoming' = Incoming \o bytes
  <2>1. Len(bytes) <= Free(rx_head, rx_tail) /\ rx_tail' = Forward(rx_tail, Len(bytes))
    BY <1>3, <1>4, <1>5
  <2>2. /\ Stored(rx_buf, rx_tail, bytes) \in Arrays(Cells)
        /\ Forward(rx_tail, Len(bytes)) \in Slots
        /\ Contents(Stored(rx_buf, rx_tail, bytes), rx_head, Forward(rx_tail, Len(bytes)))
             = Contents(rx_buf, rx_head, rx_tail) \o bytes
    <3>1. /\ rx_buf \in Arrays(Cells) /\ rx_head \in Slots /\ rx_tail \in Slots
          /\ Len(bytes) <= Free(rx_head, rx_tail)
      BY <1>1, <2>1
    <3> QED
      BY <1>6, <3>1, InjectStores, Zenon
  <2> QED
    BY <1>4, <2>1, <2>2 DEF Incoming
<1>8. Incoming' \in Seq(Numbers)
  BY <1>5, <1>7, ConcatProperties DEF UartInv, RxTypes
<1>9. Len(Incoming') <= Size - 1
  <2>1. Incoming' = Contents(rx_buf', rx_head, rx_tail')
    BY <1>4 DEF Incoming
  <2>2. Len(Contents(rx_buf', rx_head, rx_tail')) = Used(rx_head, rx_tail')
    BY <1>1, <1>7, ContentsIs
  <2>3. Used(rx_head, rx_tail') \in 0 .. (Size - 1)
    BY <1>1, <1>7, UsedIs
  <2> QED
    BY <1>1, <2>1, <2>2, <2>3
<1>10. RxTypes'
  BY <1>1, <1>4, <1>7, <1>8 DEF UartInv, RxTypes
<1> QED
  BY <1>3, <1>4, <1>5, <1>7, <1>9, <1>10 DEF bytes

\* What vp_uart_getc does to it.
LEMMA GetcTakes ==
    ASSUME UartInv, Getc
    PROVE  /\ Len(Incoming) > 0
           /\ Incoming' = SubSeq(Incoming, 2, Len(Incoming))
           /\ received' = received \o SubSeq(Incoming, 1, 1)
           /\ RxTypes'
<1>1. /\ rx_buf \in Arrays(Cells) /\ rx_head \in Slots /\ rx_tail \in Slots /\ rx_head # rx_tail
      /\ rx_head' = Forward(rx_head, 1) /\ rx_buf' = rx_buf /\ rx_tail' = rx_tail
      /\ received' = Append(received, rx_buf[rx_head]) /\ injected' = injected
      /\ Incoming \in Seq(Numbers) /\ received \in Seq(Numbers)
  BY DEF UartInv, RxTypes, Getc
<1>2. /\ rx_head' \in Slots /\ Len(Incoming) > 0 /\ rx_buf[rx_head] = Incoming[1]
      /\ Incoming' = SubSeq(Incoming, 2, Len(Incoming))
  <2>1. /\ Incoming = Contents(rx_buf, rx_head, rx_tail)
        /\ Len(Incoming) = Used(rx_head, rx_tail)
        /\ \A k \in 1 .. Used(rx_head, rx_tail) : Incoming[k] = rx_buf[Forward(rx_head, k - 1)]
    BY <1>1, ContentsIs DEF Incoming
  <2>2. /\ Used(rx_head, rx_tail) \in 1 .. (Size - 1) /\ 1 \in 1 .. Used(rx_head, rx_tail)
        /\ 1 \in 0 .. Used(rx_head, rx_tail) /\ Forward(rx_head, 1 - 1) = rx_head
    <3>1. /\ Size \in Nat /\ Size > 1 /\ rx_head \in 0 .. (Size - 1) /\ rx_tail \in 0 .. (Size - 1)
      BY <1>1, RingAssumption DEF Slots
    <3>2. /\ Used(rx_head, rx_tail)
               = IF rx_tail < rx_head THEN rx_tail + Size - rx_head ELSE rx_tail - rx_head
          /\ Used(rx_head, rx_tail) \in 0 .. (Size - 1)
      BY <1>1, UsedIs
    <3>3. 0 \in 0 .. Size /\ 1 - 1 = 0
      BY <3>1
    <3>4. Forward(rx_head, 0) = IF rx_head + 0 < Size THEN rx_head + 0 ELSE rx_head + 0 - Size
      BY <1>1, <3>3, ForwardIs
    <3> QED
      BY <1>1, <3>1, <3>2, <3>3, <3>4
  <2>3. /\ Forward(rx_head, 1) \in Slots
        /\ Contents(rx_buf, Forward(rx_head, 1), rx_tail)
             = SubSeq(Incoming, 1 + 1, Len(Incoming))
    BY <1>1, <2>1, <2>2, ForwardTakes
  <2>4. Incoming' = Contents(rx_buf', rx_head', rx_tail')
    BY DEF Incoming
  <2> QED
    BY <1>1, <2>1, <2>2, <2>3, <2>4
<1>3. /\ Incoming[1] \in Numbers /\ Len(Incoming) \in Nat
      /\ SubSeq(Incoming, 1, 1) = <<Incoming[1]>>
  <2> DEFINE s == Incoming
  <2>1. s \in Seq(Numbers) /\ Len(s) > 0
    BY <1>1, <1>2
  <2> HIDE DEF s
  <2>2. s[1] \in Numbers /\ Len(s) \in Nat
    BY <2>1
  <2>3. SubSeq(s, 1, 1) = <<s[1]>>
    <3>1. /\ SubSeq(s, 1, 1) \in Seq(Numbers) /\ Len(SubSeq(s, 1, 1)) = 1
          /\ SubSeq(s, 1, 1)[1] = s[1]
      BY <2>1, <2>2
    <3>2. ASSUME NEW x \in Seq(Numbers), Len(x) = 1 PROVE x = <<x[1]>>
      BY <3>2
    <3> QED
      BY <3>1, <3>2
  <2> QED
    BY <2>2, <2>3 DEF s
<1>4. received' = received \o SubSeq(Incoming, 1, 1)
  BY <1>1, <1>2, <1>3, AppendIsConcat
<1>5. /\ received' \in Seq(Numbers)
      /\ Incoming' \in Seq(Numbers)
  <2>1. 1 \in 0 .. Len(Incoming)
    BY <1>2, <1>3
  <2>2. /\ received \o SubSeq(Incoming, 1, 1) \in Seq(Numbers)
        /\ SubSeq(Incoming, 1 + 1, Len(Incoming)) \in Seq(Numbers)
    BY <1>1, <2>1, FrontMoves
  <2> QED
    BY <1>2, <1>4, <2>2
<1>6. RxTypes'
  BY <1>1, <1>2, <1>5 DEF UartInv, RxTypes
<1> QED
  BY <1>2, <1>4, <1>6

\* What vp_uart_write does to the queue of bytes that leave.
LEMMA WriteAppends ==
    ASSUME UartInv, NEW n \in 1 .. MaxRun, Write(n)
    PROVE  \E k \in 0 .. n :
             /\ tx_buf' = tx_buf \o Fresh(written, k)
             /\ Fresh(written, k) \in Seq(Numbers)
             /\ overrun_errors' = overrun_errors + (IF k < n THEN 1 ELSE 0)
             /\ TxTypes'
<1> DEFINE k == Smaller(n, Size - Len(tx_buf))
           bytes == Fresh(written, k)
<1>1. /\ Size \in Nat /\ MaxBytes \in Nat /\ n \in Nat
      /\ written \in Nat /\ written + n <= MaxBytes /\ written' = written + n
      /\ tx_buf \in Seq(Numbers) /\ Len(tx_buf) \in Nat /\ Len(tx_buf) <= Size
      /\ taken' = taken /\ taken \in Seq(Numbers)
  BY RingAssumption, UartAssumption DEF UartInv, TxTypes, Write
<1>2. k \in 0 .. n /\ k <= Size - Len(tx_buf)
  BY <1>1 DEF Smaller
<1>3. /\ tx_buf' = tx_buf \o bytes
      /\ overrun_errors' = overrun_errors + (IF k < n THEN 1 ELSE 0)
  BY DEF Write
<1> HIDE DEF k
<1>4. bytes \in Seq(Numbers) /\ Len(bytes) = k
  BY <1>1, <1>2, FreshIs
<1> HIDE DEF bytes
<1>5. tx_buf' \in Seq(Numbers) /\ Len(tx_buf') = Len(tx_buf) + k
  BY <1>1, <1>3, <1>4, ConcatProperties
<1>6. TxTypes'
  BY <1>1, <1>2, <1>5 DEF TxTypes
<1> QED
  BY <1>2, <1>3, <1>4, <1>6 DEF bytes

\* What vp_uart_tx_take does to it.
LEMMA TxTakeMoves ==
    ASSUME UartInv, NEW cap \in 1 .. MaxRun, TxTake(cap)
    PROVE  \E n \in 0 .. Len(tx_buf) :
             /\ tx_buf' = SubSeq(tx_buf, n + 1, Len(tx_buf))
             /\ taken' = taken \o SubSeq(tx_buf, 1, n)
             /\ TxTypes'
<1> DEFINE n == Smaller(Len(tx_buf), cap)
<1>1. /\ Size \in Nat /\ cap \in Nat /\ written' = written /\ written \in 0 .. MaxBytes
      /\ tx_buf \in Seq(Numbers) /\ Len(tx_buf) \in Nat /\ Len(tx_buf) <= Size
      /\ taken \in Seq(Numbers)
  BY RingAssumption DEF UartInv, TxTypes, TxTake
<1>2. n \in 0 .. Len(tx_buf)
  BY <1>1 DEF Smaller
<1>3. /\ tx_buf' = SubSeq(tx_buf, n + 1, Len(tx_buf))
      /\ taken' = taken \o SubSeq(tx_buf, 1, n)
  BY DEF TxTake
<1> HIDE DEF n
<1>4. /\ taken' \in Seq(Numbers) /\ tx_buf' \in Seq(Numbers)
      /\ Len(tx_buf') = Len(tx_buf) - n
  BY <1>1, <1>2, <1>3, FrontMoves
<1>5. TxTypes'
  BY <1>1, <1>2, <1>4 DEF TxTypes
<1> QED
  BY <1>2, <1>3, <1>5
-----------------------------------------------------------------------------
LEMMA InitUart == UartInit => UartInv
<1> SUFFICES ASSUME UartInit PROVE UartInv
  OBVIOUS
<1>1. Cleared
  BY DEF UartInit, Cleared
<1> QED
  BY <1>1, ClearedIsEmpty DEF UartInit, UartInv

\* One step per operation: which queue it changes, and whether it counts.
LEMMA UartKept == UartInv /\ [UartNext]_uart => UartInv'
<1> SUFFICES ASSUME UartInv PROVE [UartNext]_uart => UartInv'
  OBVIOUS
<1>1. /\ open \in BOOLEAN /\ overrun_errors \in Nat /\ RxTypes /\ TxTypes /\ NoSilentLoss
      /\ injected \in Nat /\ written \in Nat /\ MaxRun \in Nat
  BY UartAssumption DEF UartInv, RxTypes, TxTypes
<1>2. CASE Reset
  <2>1. Cleared' /\ open' = TRUE
    BY <1>2 DEF Reset, Cleared
  <2>2. (RxTypes /\ TxTypes /\ NoSilentLoss)'
    BY <2>1, ClearedIsEmpty, PTL
  <2> QED
    BY <2>1, <2>2 DEF UartInv, Cleared
<1>3. CASE Getc
  <2>1. /\ UNCHANGED <<open, injected, tx, overrun_errors>>
    BY <1>3 DEF Getc
  <2>2. /\ RxTypes' /\ received' \o Incoming' = received \o Incoming
    <3>1. /\ Incoming \in Seq(Numbers) /\ received \in Seq(Numbers)
      BY <1>1 DEF RxTypes
    <3>2. 1 \in 0 .. Len(Incoming) /\ 1 + 1 = 2
      BY <1>3, <3>1, GetcTakes
    <3>3. /\ Incoming' = SubSeq(Incoming, 1 + 1, Len(Incoming))
          /\ received' = received \o SubSeq(Incoming, 1, 1)
          /\ RxTypes'
      BY <1>3, <3>2, GetcTakes
    <3>4. (received \o SubSeq(Incoming, 1, 1)) \o SubSeq(Incoming, 1 + 1, Len(Incoming))
            = received \o Incoming
      BY <3>1, <3>2, FrontMoves
    <3> QED
      BY <3>3, <3>4
  <2>3. TxTypes'
    BY <1>1, <2>1 DEF TxTypes, tx
  <2>4. NoSilentLoss'
    BY <1>1, <2>1, <2>2 DEF NoSilentLoss, tx
  <2> QED
    BY <1>1, <2>1, <2>2, <2>3, <2>4 DEF UartInv
<1>4. ASSUME NEW n \in 1 .. MaxRun, Write(n) PROVE UartInv'
  <2>1. /\ UNCHANGED <<open, rx, taken>> /\ written' = written + n
    BY <1>4 DEF Write
  <2>2. RxTypes' /\ Incoming' = Incoming /\ received' = received /\ injected' = injected
    BY <1>1, <2>1 DEF RxTypes, Incoming, rx
  <2>3. PICK k \in 0 .. n :
          /\ tx_buf' = tx_buf \o Fresh(written, k) /\ Fresh(written, k) \in Seq(Numbers)
          /\ overrun_errors' = overrun_errors + (IF k < n THEN 1 ELSE 0)
          /\ TxTypes'
    BY <1>4, WriteAppends
  <2>4. ASSUME overrun_errors' = 0 PROVE overrun_errors = 0 /\ k = n
    BY <1>1, <2>3, <2>4
  <2>5. taken \o (tx_buf \o Fresh(written, k)) = (taken \o tx_buf) \o Fresh(written, k)
    <3>1. taken \in Seq(Numbers) /\ tx_buf \in Seq(Numbers)
      BY <1>1 DEF TxTypes
    <3> QED
      BY <2>3, <3>1, JoinsLast
  <2>6. NoSilentLoss'
    <3> SUFFICES ASSUME overrun_errors' = 0
                 PROVE  /\ received' \o Incoming' = Fresh(0, injected')
                        /\ taken' \o tx_buf' = Fresh(0, written')
      BY DEF NoSilentLoss
    <3>1. received \o Incoming = Fresh(0, injected) /\ taken \o tx_buf = Fresh(0, written)
      BY <1>1, <2>4 DEF NoSilentLoss
    <3>2. Fresh(0, written) \o Fresh(written, n) = Fresh(0, written + n)
      <4>1. n \in Nat
        BY <1>1
      <4> QED
        BY <1>1, <4>1, FreshJoins
    <3> QED
      BY <2>1, <2>2, <2>3, <2>4, <2>5, <3>1, <3>2
  <2>7. overrun_errors' \in Nat /\ open' \in BOOLEAN
    BY <1>1, <2>1, <2>3
  <2> QED
    BY <2>2, <2>3, <2>6, <2>7 DEF UartInv
<1>5. ASSUME NEW n \in 1 .. MaxRun, Inject(n) PROVE UartInv'
  <2>1. UNCHANGED <<open, received, tx>> /\ injected' = injected + n
    BY <1>5 DEF Inject
  <2>2. TxTypes' /\ tx_buf' = tx_buf /\ taken' = taken /\ written' = written
    BY <1>1, <2>1 DEF TxTypes, tx
  <2>3. PICK k \in 0 .. n :
          /\ Incoming' = Incoming \o Fresh(injected, k)
          /\ Fresh(injected, k) \in Seq(Numbers)
          /\ overrun_errors' = overrun_errors + (IF k < n THEN 1 ELSE 0)
          /\ RxTypes'
    BY <1>5, InjectAppends
  <2>4. ASSUME overrun_errors' = 0 PROVE overrun_errors = 0 /\ k = n
    BY <1>1, <2>3, <2>4
  <2>5. received \o (Incoming \o Fresh(injected, k))
          = (received \o Incoming) \o Fresh(injected, k)
    <3>1. received \in Seq(Numbers) /\ Incoming \in Seq(Numbers)
      BY <1>1 DEF RxTypes
    <3> QED
      BY <2>3, <3>1, JoinsLast
  <2>6. NoSilentLoss'
    <3> SUFFICES ASSUME overrun_errors' = 0
                 PROVE  /\ received' \o Incoming' = Fresh(0, injected')
                        /\ taken' \o tx_buf' = Fresh(0, written')
      BY DEF NoSilentLoss
    <3>1. received \o Incoming = Fresh(0, injected) /\ taken \o tx_buf = Fresh(0, written)
      BY <1>1, <2>4 DEF NoSilentLoss
    <3>2. Fresh(0, injected) \o Fresh(injected, n) = Fresh(0, injected + n)
      <4>1. n \in Nat
        BY <1>1
      <4> QED
        BY <1>1, <4>1, FreshJoins
    <3> QED
      BY <2>1, <2>2, <2>3, <2>4, <2>5, <3>1, <3>2
  <2>7. overrun_errors' \in Nat /\ open' \in BOOLEAN
    BY <1>1, <2>1, <2>3
  <2> QED
    BY <2>2, <2>3, <2>6, <2>7 DEF UartInv
<1>6. ASSUME NEW cap \in 1 .. MaxRun, TxTake(cap) PROVE UartInv'
  <2>1. UNCHANGED <<open, rx, written, overrun_errors>>
    BY <1>6 DEF TxTake
  <2>2. RxTypes' /\ Incoming' = Incoming /\ received' = received /\ injected' = injected
    BY <1>1, <2>1 DEF RxTypes, Incoming, rx
  <2>3. TxTypes' /\ taken' \o tx_buf' = taken \o tx_buf
    <3>1. PICK n \in 0 .. Len(tx_buf) :
            /\ tx_buf' = SubSeq(tx_buf, n + 1, Len(tx_buf))
            /\ taken' = taken \o SubSeq(tx_buf, 1, n)
            /\ TxTypes'
      BY <1>6, TxTakeMoves
    <3>2. taken \in Seq(Numbers) /\ tx_buf \in Seq(Numbers)
      BY <1>1 DEF TxTypes
    <3>3. (taken \o SubSeq(tx_buf, 1, n)) \o SubSeq(tx_buf, n + 1, Len(tx_buf))
            = taken \o tx_buf
      BY <3>2, FrontMoves
    <3> QED
      BY <3>1, <3>3
  <2>4. NoSilentLoss'
    BY <1>1, <2>1, <2>2, <2>3 DEF NoSilentLoss
  <2> QED
    BY <1>1, <2>1, <2>2, <2>3, <2>4 DEF UartInv
<1>7. CASE UNCHANGED uart
  <2>1. UNCHANGED <<open, rx, tx, overrun_errors>>
    BY <1>7 DEF uart
  <2>2. RxTypes' /\ Incoming' = Incoming
    BY <1>1, <2>1 DEF RxTypes, Incoming, rx
  <2>3. TxTypes'
    BY <1>1, <2>1 DEF TxTypes, tx
  <2>4. NoSilentLoss'
    BY <1>1, <2>1, <2>2 DEF NoSilentLoss, rx, tx
  <2> QED
    BY <1>1, <2>1, <2>2, <2>3, <2>4 DEF UartInv
<1> QED
  BY <1>2, <1>3, <1>4, <1>5, <1>6, <1>7 DEF UartNext
-----------------------------------------------------------------------------
\* Bytes behind a queue leave what is in front of them alone.
LEMMA JoiningPuts ==
    ASSUME NEW q \in Seq(Numbers), NEW bytes \in Seq(Numbers)
    PROVE  /\ q \o bytes \in Seq(Numbers)
           /\ Len(q) <= Len(q \o bytes)
           /\ SubSeq(q \o bytes, 1, Len(q)) = q
<1> DEFINE all == q \o bytes
<1>1. /\ all \in Seq(Numbers) /\ Len(all) = Len(q) + Len(bytes)
      /\ Len(q) \in Nat /\ Len(bytes) \in Nat
      /\ \A i \in 1 .. Len(q) : all[i] = q[i]
  BY ConcatProperties
<1> HIDE DEF all
<1>2. /\ SubSeq(all, 1, Len(q)) \in Seq(Numbers) /\ Len(SubSeq(all, 1, Len(q))) = Len(q)
      /\ \A i \in 1 .. Len(q) : SubSeq(all, 1, Len(q))[i] = all[i]
  BY <1>1
<1>3. SubSeq(all, 1, Len(q)) = q
  BY <1>1, <1>2, SeqEqual
<1> QED
  BY <1>1, <1>3 DEF all

\* The bytes that arrive are a queue: inject puts, getc takes one.
LEMMA ReceivingStep ==
    UartInv /\ [UartNext]_uart => [Receiving!Next]_<<Incoming, received>>
<1> SUFFICES ASSUME UartInv
             PROVE  [UartNext]_uart => [Receiving!Next]_<<Incoming, received>>
  OBVIOUS
<1>1. /\ Incoming \in Seq(Numbers) /\ received \in Seq(Numbers)
      /\ Size \in Nat /\ Size > 1 /\ Numbers = 1 .. MaxBytes
  BY RingAssumption DEF UartInv, RxTypes, Numbers
<1>2. ASSUME rx' = rx PROVE UNCHANGED <<Incoming, received>>
  BY <1>2 DEF rx, Incoming
<1>3. CASE Reset
  <2>1. Cleared'
    BY <1>3 DEF Reset, Cleared
  <2>2. (Incoming = << >>)'
    BY <2>1, ClearedIsEmpty, PTL
  <2>3. received' = << >>
    BY <2>1 DEF Cleared
  <2> QED
    BY <2>2, <2>3 DEF Receiving!Clear, Receiving!Next
<1>4. CASE Getc
  <2>1. /\ Len(Incoming) > 0 /\ Len(Incoming) \in Nat
        /\ Incoming' = SubSeq(Incoming, 1 + 1, Len(Incoming))
        /\ received' = received \o SubSeq(Incoming, 1, 1)
    BY <1>1, <1>4, GetcTakes
  <2>2. Receiving!Take(1)
    BY <2>1 DEF Receiving!Take
  <2>3. 1 \in 1 .. (Size - 1)
    BY <1>1
  <2> QED
    BY <2>2, <2>3 DEF Receiving!Next
<1>5. ASSUME NEW n \in 1 .. MaxRun, Inject(n) PROVE Receiving!Next
  <2>1. PICK k \in 0 .. n :
          /\ Incoming' = Incoming \o Fresh(injected, k)
          /\ Fresh(injected, k) \in Seq(Numbers)
          /\ Len(Incoming') <= Size - 1
    BY <1>5, InjectAppends
  <2>2. received' = received
    BY <1>5 DEF Inject
  <2>3. /\ Incoming' \in Seq(Numbers) /\ Len(Incoming) <= Len(Incoming')
        /\ SubSeq(Incoming', 1, Len(Incoming)) = Incoming
    BY <1>1, <2>1, JoiningPuts
  <2> QED
    BY <1>1, <2>1, <2>2, <2>3 DEF Receiving!Put, Receiving!Next
<1>6. ASSUME NEW n \in 1 .. MaxRun, Write(n) PROVE rx' = rx
  BY <1>6 DEF Write, rx
<1>7. ASSUME NEW cap \in 1 .. MaxRun, TxTake(cap) PROVE rx' = rx
  BY <1>7 DEF TxTake, rx
<1>8. ASSUME UNCHANGED uart PROVE rx' = rx
  BY <1>8 DEF uart, rx
<1> QED
  BY <1>2, <1>3, <1>4, <1>5, <1>6, <1>7, <1>8 DEF UartNext

\* The bytes that leave are one too: write puts, tx_take takes.
LEMMA SendingStep ==
    UartInv /\ [UartNext]_uart => [Sending!Next]_<<tx_buf, taken>>
<1> SUFFICES ASSUME UartInv
             PROVE  [UartNext]_uart => [Sending!Next]_<<tx_buf, taken>>
  OBVIOUS
<1>1. /\ tx_buf \in Seq(Numbers) /\ taken \in Seq(Numbers) /\ Len(tx_buf) <= Size
      /\ Len(tx_buf) \in Nat /\ Size \in Nat /\ Numbers = 1 .. MaxBytes
  BY RingAssumption DEF UartInv, TxTypes, Numbers
<1>2. CASE Reset
  BY <1>2 DEF Reset, Sending!Clear, Sending!Next
<1>3. ASSUME NEW n \in 1 .. MaxRun, Write(n) PROVE Sending!Next
  <2>1. PICK k \in 0 .. n :
          /\ tx_buf' = tx_buf \o Fresh(written, k)
          /\ Fresh(written, k) \in Seq(Numbers)
          /\ TxTypes'
    BY <1>3, WriteAppends
  <2>2. taken' = taken
    BY <1>3 DEF Write
  <2>3. /\ tx_buf' \in Seq(Numbers) /\ Len(tx_buf) <= Len(tx_buf')
        /\ SubSeq(tx_buf', 1, Len(tx_buf)) = tx_buf
    BY <1>1, <2>1, JoiningPuts
  <2>4. Len(tx_buf') <= Size
    BY <2>1 DEF TxTypes
  <2> QED
    BY <1>1, <2>2, <2>3, <2>4 DEF Sending!Put, Sending!Next
<1>4. ASSUME NEW cap \in 1 .. MaxRun, TxTake(cap)
      PROVE  Sending!Next \/ UNCHANGED <<tx_buf, taken>>
  <2>1. PICK n \in 0 .. Len(tx_buf) :
          /\ tx_buf' = SubSeq(tx_buf, n + 1, Len(tx_buf))
          /\ taken' = taken \o SubSeq(tx_buf, 1, n)
    BY <1>4, TxTakeMoves
  <2>2. CASE n = 0
    <3>1. SubSeq(tx_buf, 1, 0) = << >> /\ SubSeq(tx_buf, 0 + 1, Len(tx_buf)) = tx_buf
      BY <1>1
    <3>2. taken \o << >> = taken
      BY <1>1, ConcatEmptySeq
    <3> QED
      BY <2>1, <2>2, <3>1, <3>2
  <2>3. CASE n # 0
    <3>1. n \in 1 .. Size /\ n <= Len(tx_buf)
      BY <1>1, <2>3
    <3>2. Sending!Take(n)
      BY <2>1, <3>1 DEF Sending!Take
    <3> QED
      BY <3>1, <3>2 DEF Sending!Next
  <2> QED
    BY <2>2, <2>3
<1>5. ASSUME Getc \/ (\E n \in 1 .. MaxRun : Inject(n)) \/ UNCHANGED uart
      PROVE  UNCHANGED <<tx_buf, taken>>
  BY <1>5 DEF Getc, Inject, uart, tx
<1> QED
  BY <1>2, <1>3, <1>4, <1>5 DEF UartNext
-----------------------------------------------------------------------------
LEMMA UartInvTypes == UartInv => UartTypes
<1> SUFFICES ASSUME UartInv PROVE UartTypes
  OBVIOUS
<1>1. received \in Seq(0 .. MaxBytes)
  BY UartAssumption DEF UartInv, RxTypes, Numbers
<1> QED
  BY <1>1 DEF Numbers, UartInv, RxTypes, TxTypes, UartTypes, Arrays, Cells

\* A UART keeps its types, for every size of the rings.
THEOREM UartTypeCorrect == UartSpec => []UartTypes
  BY InitUart, UartKept, UartInvTypes, PTL DEF UartSpec

\* Unless an overrun is counted, every byte offered since the reset has
\* arrived or is under way, in order, in both directions.
THEOREM NothingLost == UartSpec => []NoSilentLoss
<1>1. UartInv => NoSilentLoss
  BY DEF UartInv
<1> QED
  BY InitUart, UartKept, <1>1, PTL DEF UartSpec

\* Each direction implements a bounded queue: no byte overtakes another, is
\* repeated, or is read from a slot that was not written.
THEOREM Queues == UartSpec => DirectionsAreQueues
<1>1. UartInit => Receiving!Init /\ Sending!Init
  <2> SUFFICES ASSUME UartInit PROVE Receiving!Init /\ Sending!Init
    OBVIOUS
  <2>1. Cleared
    BY DEF UartInit, Cleared
  <2>2. Incoming = << >>
    BY <2>1, ClearedIsEmpty
  <2> QED
    BY <2>2 DEF UartInit, Receiving!Init, Sending!Init
<1> QED
  BY InitUart, UartKept, ReceivingStep, SendingStep, <1>1, PTL
     DEF UartSpec, DirectionsAreQueues, Receiving!Spec, Sending!Spec
=============================================================================
