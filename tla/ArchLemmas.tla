----------------------------- MODULE ArchLemmas -----------------------------
(***************************************************************************)
(* What the operations of the two containers of Arch come to.  For a ring   *)
(* queue: what every operation does to the sequence of elements it holds,   *)
(* wherever its pointers stand, for every capacity.  For a linked list, of  *)
(* any set of nodes and of any length: the links are those of a row of      *)
(* nodes, and each operation makes another row of it; the operations follow *)
(* chains of links, so this takes induction along the row.  ListOf, in the  *)
(* last part, is what the users of a list need: its members, linked in      *)
(* order.                                                                   *)
(***************************************************************************)
EXTENDS QueueOps, LinkedList, SequenceTheorems, WellFoundedInduction, TLAPS

\* What FlagsTellMeeting says of a queue.
Valid(q) ==
    /\ q \in Queues
    /\ q.rd = q.wr <=> q.empty \/ q.full
    /\ ~(q.empty /\ q.full)
-----------------------------------------------------------------------------
\* A slice of a sequence, by the number of elements before and in it.
LEMMA Slice ==
    ASSUME NEW S, NEW s \in Seq(S), NEW a \in Nat, NEW b \in Nat, a + b <= Len(s)
    PROVE  /\ SubSeq(s, a + 1, a + b) \in Seq(S)
           /\ Len(SubSeq(s, a + 1, a + b)) = b
           /\ \A i \in 1..b : SubSeq(s, a + 1, a + b)[i] = s[a + i]
  <1>. DEFINE first == a + 1
              last == a + b
  <1>1. first \in Int /\ last \in Int /\ Len(s) \in Nat
    BY LenProperties
  <1>2. \A i \in first..last : s[i] \in S
    BY <1>1, ElementOfSeq
  <1>3. /\ last - first + 1 = b
        /\ (IF first <= last THEN last - first + 1 ELSE 0) = b
        /\ \A i \in 1..b : first + i - 1 = a + i
    OBVIOUS
  <1>. HIDE DEF first, last
  <1>4. /\ SubSeq(s, first, last) \in Seq(S)
        /\ Len(SubSeq(s, first, last)) = IF first <= last THEN last - first + 1 ELSE 0
        /\ \A i \in 1..(last - first + 1) : SubSeq(s, first, last)[i] = s[first + i - 1]
    BY <1>1, <1>2, SubSeqProperties
  <1>5. /\ SubSeq(s, first, last) \in Seq(S) /\ Len(SubSeq(s, first, last)) = b
        /\ \A i \in 1..b : SubSeq(s, first, last)[i] = s[a + i]
    BY <1>3, <1>4
  <1>. QED
    BY <1>5 DEF first, last

\* The four counting functions agree on a valid queue.
LEMMA Counts ==
    ASSUME NEW q, Valid(q)
    PROVE  /\ QUEUE_getElementCount(q) \in 0..Capacity
           /\ QUEUE_getSpace(q) \in 0..Capacity
           /\ QUEUE_getElementCount(q) + QUEUE_getSpace(q) = Capacity
           /\ QUEUE_getContinuousEleCount(q) \in 0..QUEUE_getElementCount(q)
           /\ QUEUE_getContinuousEleCount(q) = 0 <=> QUEUE_getElementCount(q) = 0
           /\ QUEUE_getContinuousSpace(q) \in 0..QUEUE_getSpace(q)
           /\ QUEUE_getContinuousSpace(q) = 0 <=> QUEUE_getSpace(q) = 0
  <1>1. q.rd \in Slots /\ q.wr \in Slots /\ q.empty \in BOOLEAN /\ q.full \in BOOLEAN
    BY DEF Valid, Queues
  <1>2. q.rd = q.wr <=> q.empty \/ q.full
    BY DEF Valid
  <1>3. ~(q.empty /\ q.full)
    BY DEF Valid
  <1>. QED
    BY <1>1, <1>2, <1>3, QueueAssumption
       DEF Slots, QUEUE_getElementCount, QUEUE_getSpace,
           QUEUE_getContinuousEleCount, QUEUE_getContinuousSpace

\* A queued element lies in a slot of the buffer.
LEMMA SlotInBuffer ==
    ASSUME NEW q, Valid(q), NEW i \in 1..QUEUE_getElementCount(q)
    PROVE  SlotOf(q, i) \in Slots /\ q.buf[SlotOf(q, i)] \in Contents
  <1>1. QUEUE_getElementCount(q) \in 0..Capacity
    BY Counts
  <1>2. q.rd \in Slots /\ q.buf \in [Slots -> Contents]
    BY DEF Valid, Queues
  <1>3. SlotOf(q, i) \in Slots
    BY <1>1, <1>2, QueueAssumption DEF SlotOf, Slots
  <1>. QED
    BY <1>2, <1>3

\* The queued elements are a sequence of the length the queue counts.
LEMMA QueuedIsSeq ==
    ASSUME NEW q, Valid(q)
    PROVE  /\ Queued(q) \in Seq(Contents)
           /\ Len(Queued(q)) = QUEUE_getElementCount(q)
           /\ \A i \in 1..QUEUE_getElementCount(q) :
                Queued(q)[i] = q.buf[SlotOf(q, i)]
  <1>1. QUEUE_getElementCount(q) \in Nat
    BY Counts, QueueAssumption
  <1>2. \A i \in 1..QUEUE_getElementCount(q) : q.buf[SlotOf(q, i)] \in Contents
    BY SlotInBuffer
  <1>. QED
    BY <1>1, <1>2 DEF Queued
-----------------------------------------------------------------------------
\* Writing a stretch keeps the queue valid and appends what was written.
LEMMA WrittenAppends ==
    ASSUME NEW q, Valid(q), NEW data \in Seq(Elements),
           NEW n \in 1..QUEUE_getContinuousSpace(q), n <= Len(data)
    PROVE  /\ Valid(Written(q, n, data))
           /\ Queued(Written(q, n, data)) = Queued(q) \o SubSeq(data, 1, n)
  <1>. DEFINE w == Written(q, n, data)
              held == QUEUE_getElementCount(q)
  <1>1. /\ q.rd \in Slots /\ q.wr \in Slots
        /\ q.empty \in BOOLEAN /\ q.full \in BOOLEAN
        /\ q.buf \in [Slots -> Contents]
    BY DEF Valid, Queues
  <1>2. (q.rd = q.wr <=> q.empty \/ q.full) /\ ~(q.empty /\ q.full)
    BY DEF Valid
  <1>3. n \in Nat /\ n > 0 /\ q.wr + n <= Capacity /\ ~q.full /\ n <= QUEUE_getSpace(q)
    <2>1. n \in Nat /\ n > 0 /\ q.wr + n <= Capacity /\ ~q.full
      BY <1>1, <1>2, QueueAssumption DEF QUEUE_getContinuousSpace, Slots
    <2>2. QUEUE_getContinuousSpace(q) \in 0..QUEUE_getSpace(q) /\ QUEUE_getSpace(q) \in Int
      BY Counts, QueueAssumption
    <2>. QED
      BY <2>1, <2>2
  <1>4. /\ w.rd = q.rd /\ w.wr = Wrapped(q.wr + n) /\ w.empty = FALSE
        /\ w.full = (q.full \/ Wrapped(q.wr + n) = q.rd)
        /\ w.buf = [s \in Slots |-> IF s \in q.wr..(q.wr + n - 1)
                                      THEN data[s - q.wr + 1] ELSE q.buf[s]]
    BY <1>1 DEF Written
  <1>5. Wrapped(q.wr + n) \in Slots
    BY <1>1, <1>3, QueueAssumption DEF Wrapped, Slots
  <1>6. \A s \in Slots : s \in q.wr..(q.wr + n - 1) => data[s - q.wr + 1] \in Elements
    BY <1>1, <1>3, ElementOfSeq DEF Slots
  <1>7. w.buf \in [Slots -> Contents]
    BY <1>1, <1>4, <1>6 DEF Contents
  <1>8. w \in Queues
    BY <1>1, <1>4, <1>5, <1>7 DEF Queues, Written
  <1>9. Valid(w)
    BY <1>8, <1>4, <1>3 DEF Valid
  <1>4a. w.rd = q.rd /\ w.wr = Wrapped(q.wr + n) /\ ~w.empty
         /\ (w.full <=> Wrapped(q.wr + n) = q.rd)
    BY <1>3, <1>4
  <1>4b. n <= IF q.empty THEN Capacity - q.wr
              ELSE IF q.wr > q.rd THEN Capacity - q.wr ELSE q.rd - q.wr
    BY <1>3 DEF QUEUE_getContinuousSpace
  <1>4c. /\ q.empty => held = 0 /\ n <= Capacity - q.wr /\ q.rd = q.wr
         /\ ~q.empty => q.rd # q.wr
         /\ ~q.empty /\ q.wr > q.rd => held = q.wr - q.rd /\ n <= Capacity - q.wr
         /\ ~q.empty /\ q.wr < q.rd =>
              held = Capacity - q.rd + q.wr /\ n <= q.rd - q.wr
    BY <1>1, <1>2, <1>3, <1>4b, QueueAssumption DEF QUEUE_getElementCount, Slots
  <1>4d. q.rd \in 0..(Capacity - 1) /\ q.wr \in 0..(Capacity - 1)
    BY <1>1 DEF Slots
  <1>10. QUEUE_getElementCount(w) = held + n
    <2>. HIDE DEF w, held
    <2>1. CASE q.wr + n = Capacity /\ q.rd = 0
      <3>1. w.full /\ ~w.empty
        BY <2>1, <1>4a, <1>4d, QueueAssumption DEF Wrapped
      <3>2. held + n = Capacity
        BY <2>1, <1>3, <1>4c, <1>4d, QueueAssumption
      <3>. QED
        BY <3>1, <3>2 DEF QUEUE_getElementCount
    <2>2. CASE q.wr + n = Capacity /\ q.rd # 0
      <3>1. ~w.full /\ ~w.empty /\ w.wr = 0 /\ w.rd = q.rd
        BY <2>2, <1>4a, <1>4d, QueueAssumption DEF Wrapped
      <3>2. held + n = Capacity - q.rd
        BY <2>2, <1>3, <1>4c, <1>4d, QueueAssumption
      <3>. QED
        BY <3>1, <3>2, <1>4d, QueueAssumption DEF QUEUE_getElementCount
    <2>3. CASE q.wr + n < Capacity /\ q.wr + n = q.rd
      <3>1. w.full /\ ~w.empty
        BY <2>3, <1>3, <1>4a, <1>4d, QueueAssumption DEF Wrapped
      <3>2. held + n = Capacity
        BY <2>3, <1>3, <1>4c, <1>4d, QueueAssumption
      <3>. QED
        BY <3>1, <3>2 DEF QUEUE_getElementCount
    <2>4. CASE q.wr + n < Capacity /\ q.wr + n # q.rd
      <3>1. ~w.full /\ ~w.empty /\ w.wr = q.wr + n /\ w.rd = q.rd
        BY <2>4, <1>3, <1>4a, <1>4d, QueueAssumption DEF Wrapped
      <3>2. held + n = IF q.wr + n > q.rd THEN q.wr + n - q.rd
                                          ELSE Capacity - q.rd + (q.wr + n)
        BY <2>4, <1>3, <1>4c, <1>4d, QueueAssumption
      <3>. QED
        BY <3>1, <3>2, <1>4d, QueueAssumption DEF QUEUE_getElementCount
    <2>. QED
      BY <2>1, <2>2, <2>3, <2>4, <1>3, <1>4d, QueueAssumption
  <1>11. SubSeq(data, 1, n) \in Seq(Contents) /\ Len(SubSeq(data, 1, n)) = n
         /\ \A i \in 1..n : SubSeq(data, 1, n)[i] = data[i]
    <2>1. \A i \in 1..n : data[i] \in Contents
      BY <1>3, ElementOfSeq DEF Contents
    <2>. QED
      BY <2>1, <1>3, SubSeqProperties
  <1>12. /\ Queued(q) \in Seq(Contents) /\ Len(Queued(q)) = held /\ held \in Nat
         /\ \A i \in 1..held : Queued(q)[i] = q.buf[SlotOf(q, i)]
    BY QueuedIsSeq, Counts, QueueAssumption
  <1>13. /\ Queued(w) \in Seq(Contents) /\ Len(Queued(w)) = held + n
         /\ \A i \in 1..(held + n) : Queued(w)[i] = w.buf[SlotOf(w, i)]
    BY <1>9, <1>10, QueuedIsSeq
  <1>14. \A i \in 1..held : w.buf[SlotOf(w, i)] = q.buf[SlotOf(q, i)]
    <2>. SUFFICES ASSUME NEW i \in 1..held
                  PROVE  w.buf[SlotOf(w, i)] = q.buf[SlotOf(q, i)]
      OBVIOUS
    <2>1. SlotOf(w, i) = SlotOf(q, i) /\ SlotOf(q, i) \in Slots
      BY <1>4, SlotInBuffer DEF SlotOf
    <2>2. SlotOf(q, i) \notin q.wr..(q.wr + n - 1)
      <3>. HIDE DEF held
      <3>. DEFINE j == q.rd + i - 1
      <3>4. i \in Int /\ 1 <= i /\ i <= held
        BY <1>3, <1>4c, <1>4d, <1>12, QueueAssumption
      <3>5. SlotOf(q, i) = IF j < Capacity THEN j ELSE j - Capacity
        BY <3>4, <1>4d, QueueAssumption DEF SlotOf
      <3>1. CASE q.empty
        BY <3>1, <1>4c, QueueAssumption
      <3>2. CASE ~q.empty /\ q.wr > q.rd
        BY SMTT(30), <3>2, <3>4, <3>5, <1>3, <1>4c, <1>4d, QueueAssumption
      <3>3. CASE ~q.empty /\ q.wr < q.rd
        BY SMTT(30), <3>3, <3>4, <3>5, <1>3, <1>4c, <1>4d, QueueAssumption
      <3>. QED
        BY <3>1, <3>2, <3>3, <1>4c, <1>4d
    <2>. QED
      BY <2>1, <2>2, <1>4
  <1>15. \A i \in 1..n : w.buf[SlotOf(w, held + i)] = data[i]
    <2>. SUFFICES ASSUME NEW i \in 1..n
                  PROVE  w.buf[SlotOf(w, held + i)] = data[i]
      OBVIOUS
    <2>1. SlotOf(w, held + i) = q.wr + i - 1
      <3>. HIDE DEF w, held
      <3>. DEFINE j == q.rd + held + i - 1
      <3>4. /\ i \in Int /\ 1 <= i /\ i <= n /\ n \in Int
            /\ held \in Int /\ Capacity \in Int /\ q.rd \in Int /\ q.wr \in Int
        BY <1>3, <1>4d, <1>12, QueueAssumption
      <3>5. SlotOf(w, held + i) = IF j < Capacity THEN j ELSE j - Capacity
        BY <3>4, <1>4a DEF SlotOf
      <3>1. CASE q.empty
        BY SMTT(30), <3>1, <3>4, <3>5, <1>4c, <1>4d
      <3>2. CASE ~q.empty /\ q.wr > q.rd
        BY SMTT(30), <3>2, <3>4, <3>5, <1>4c, <1>4d
      <3>3. CASE ~q.empty /\ q.wr < q.rd
        BY SMTT(30), <3>3, <3>4, <3>5, <1>4c, <1>4d
      <3>. QED
        BY <3>1, <3>2, <3>3, <3>4, <1>4c
    <2>2. q.wr + i - 1 \in Slots /\ q.wr + i - 1 \in q.wr..(q.wr + n - 1)
          /\ (q.wr + i - 1) - q.wr + 1 = i
      BY <1>1, <1>3, QueueAssumption DEF Slots
    <2>. QED
      BY <2>1, <2>2, <1>4
  <1>. DEFINE joined == Queued(q) \o SubSeq(data, 1, n)
  <1>16. /\ joined \in Seq(Contents) /\ Len(joined) = held + n
         /\ \A i \in 1..(held + n) :
              joined[i] = IF i <= held THEN Queued(q)[i]
                                        ELSE SubSeq(data, 1, n)[i - held]
    <2>. DEFINE A == Queued(q)
                B == SubSeq(data, 1, n)
    <2>1. A \in Seq(Contents) /\ Len(A) = held
      BY <1>12
    <2>2. B \in Seq(Contents) /\ Len(B) = n
      BY <1>11
    <2>. HIDE DEF A, B, held
    <2>3. /\ A \o B \in Seq(Contents) /\ Len(A \o B) = held + n
          /\ \A i \in 1..(held + n) :
               (A \o B)[i] = IF i <= held THEN A[i] ELSE B[i - held]
      BY <2>1, <2>2, ConcatProperties
    <2>. QED
      BY <2>3 DEF A, B
  <1>17. \A i \in 1..(held + n) : Queued(w)[i] = joined[i]
    <2>. SUFFICES ASSUME NEW i \in 1..(held + n) PROVE Queued(w)[i] = joined[i]
      OBVIOUS
    <2>1. CASE i <= held
      <3>1. i \in 1..held
        BY <2>1, <1>12
      <3>. QED
        BY <3>1, <2>1, <1>12, <1>13, <1>14, <1>16
    <2>2. CASE i > held
      <3>1. i - held \in 1..n /\ held + (i - held) = i
        BY <2>2, <1>3, <1>12
      <3>2. Queued(w)[i] = data[i - held]
        BY <3>1, <1>13, <1>15
      <3>3. joined[i] = data[i - held]
        BY <3>1, <2>2, <1>11, <1>12, <1>16
      <3>. QED
        BY <3>2, <3>3
    <2>. QED
      BY <2>1, <2>2, <1>12
  <1>18. Queued(w) = joined
    BY <1>13, <1>16, <1>17, SeqEqual
  <1>. QED
    BY <1>9, <1>18

\* Passing a stretch keeps the queue valid, drops its front, and hands it out.
LEMMA TakenDrops ==
    ASSUME NEW q, Valid(q), NEW m \in 1..QUEUE_getContinuousEleCount(q)
    PROVE  /\ Valid(Taken(q, m))
           /\ m <= QUEUE_getElementCount(q)
           /\ QUEUE_getElementCount(Taken(q, m)) = QUEUE_getElementCount(q) - m
           /\ Queued(Taken(q, m)) =
                SubSeq(Queued(q), m + 1, QUEUE_getElementCount(q))
           /\ [i \in 1..m |-> q.buf[q.rd + i - 1]] = SubSeq(Queued(q), 1, m)
  <1>. DEFINE t == Taken(q, m)
              held == QUEUE_getElementCount(q)
  <1>1. /\ q.rd \in 0..(Capacity - 1) /\ q.wr \in 0..(Capacity - 1)
        /\ q.empty \in BOOLEAN /\ q.full \in BOOLEAN
        /\ q.buf \in [Slots -> Contents]
    BY DEF Valid, Queues, Slots
  <1>2. (q.rd = q.wr <=> q.empty \/ q.full) /\ ~(q.empty /\ q.full)
    BY DEF Valid
  <1>3. m \in Nat /\ m > 0 /\ q.rd + m <= Capacity /\ ~q.empty
        /\ m <= IF q.wr > q.rd THEN q.wr - q.rd ELSE Capacity - q.rd
    BY <1>1, <1>2, QueueAssumption DEF QUEUE_getContinuousEleCount
  <1>4. /\ t.rd = Wrapped(q.rd + m) /\ t.wr = q.wr /\ t.full = FALSE
        /\ t.empty = (q.empty \/ Wrapped(q.rd + m) = q.wr)
        /\ t.buf = q.buf
    BY DEF Taken
  <1>5. Wrapped(q.rd + m) \in Slots
    BY <1>1, <1>3, QueueAssumption DEF Wrapped, Slots
  <1>6. t \in Queues
    BY <1>1, <1>4, <1>5 DEF Queues, Taken, Slots
  <1>7. Valid(t)
    BY <1>6, <1>4, <1>3 DEF Valid
  <1>8. /\ q.full => held = Capacity /\ q.rd = q.wr
        /\ ~q.full => q.rd # q.wr
        /\ ~q.full /\ q.wr > q.rd => held = q.wr - q.rd
        /\ ~q.full /\ q.wr < q.rd => held = Capacity - q.rd + q.wr
    BY <1>1, <1>2, <1>3, QueueAssumption DEF QUEUE_getElementCount
  <1>9. ~t.full /\ (t.empty <=> Wrapped(q.rd + m) = q.wr)
    BY <1>3, <1>4
  <1>10. m <= held
    BY <1>1, <1>3, <1>8, QueueAssumption
  <1>11. QUEUE_getElementCount(t) = held - m
    <2>. HIDE DEF t, held
    <2>1. CASE Wrapped(q.rd + m) = q.wr
      <3>1. held = m
        BY <2>1, <1>1, <1>3, <1>8, QueueAssumption DEF Wrapped
      <3>. QED
        BY <2>1, <3>1, <1>3, <1>9 DEF QUEUE_getElementCount
    <2>2. CASE Wrapped(q.rd + m) # q.wr
      <3>1. QUEUE_getElementCount(t) =
              IF q.wr > Wrapped(q.rd + m) THEN q.wr - Wrapped(q.rd + m)
              ELSE Capacity - Wrapped(q.rd + m) + q.wr
        BY <2>2, <1>4, <1>9 DEF QUEUE_getElementCount
      <3>2. CASE q.rd + m < Capacity
        BY <2>2, <3>1, <3>2, <1>1, <1>3, <1>8, QueueAssumption DEF Wrapped
      <3>3. CASE q.rd + m = Capacity
        BY <2>2, <3>1, <3>3, <1>1, <1>3, <1>8, QueueAssumption DEF Wrapped
      <3>. QED
        BY <3>2, <3>3, <1>1, <1>3, QueueAssumption
    <2>. QED
      BY <2>1, <2>2
  <1>12. /\ Queued(q) \in Seq(Contents) /\ Len(Queued(q)) = held
         /\ held \in Nat /\ held <= Capacity
         /\ \A i \in 1..held : Queued(q)[i] = q.buf[SlotOf(q, i)]
    BY QueuedIsSeq, Counts, QueueAssumption
  <1>13. /\ Queued(t) \in Seq(Contents) /\ Len(Queued(t)) = held - m
         /\ \A i \in 1..(held - m) : Queued(t)[i] = t.buf[SlotOf(t, i)]
    BY <1>7, <1>11, QueuedIsSeq
  <1>. HIDE DEF t, held
  <1>14. \A i \in 1..(held - m) : SlotOf(t, i) = SlotOf(q, m + i)
    <2>. SUFFICES ASSUME NEW i \in 1..(held - m)
                  PROVE  SlotOf(t, i) = SlotOf(q, m + i)
      OBVIOUS
    <2>1. i \in Int /\ 1 <= i /\ i <= held - m
      BY <1>3, <1>12
    <2>2. CASE q.rd + m < Capacity
      <3>1. t.rd = q.rd + m
        BY <2>2, <1>1, <1>3, <1>4, QueueAssumption DEF Wrapped
      <3>2. t.rd + i - 1 = q.rd + (m + i) - 1
        BY <3>1, <2>1, <1>1, <1>3
      <3>. QED
        BY <3>1, <3>2, <2>1, <1>1, <1>3, QueueAssumption DEF SlotOf
    <2>3. CASE q.rd + m = Capacity
      <3>1. t.rd = 0
        BY <2>3, <1>1, <1>3, <1>4, QueueAssumption DEF Wrapped
      <3>2. t.rd + i - 1 = i - 1 /\ i - 1 < Capacity
        BY <3>1, <2>1, <1>3, <1>12, QueueAssumption
      <3>3. q.rd + (m + i) - 1 = Capacity + i - 1
        BY <2>1, <2>3, <1>1, <1>3, QueueAssumption
      <3>4. ~(Capacity + i - 1 < Capacity) /\ Capacity + i - 1 - Capacity = i - 1
        BY <2>1, QueueAssumption
      <3>5. SlotOf(t, i) = i - 1
        BY <3>2 DEF SlotOf
      <3>6. SlotOf(q, m + i) = i - 1
        BY <3>3, <3>4, <2>1, <1>1, <1>3, QueueAssumption DEF SlotOf
      <3>. QED
        BY <3>5, <3>6
    <2>. QED
      BY <2>2, <2>3, <1>1, <1>3, QueueAssumption
  <1>15. \A i \in 1..m : SlotOf(q, i) = q.rd + i - 1 /\ q.rd + i - 1 \in Slots
    BY <1>1, <1>3, QueueAssumption DEF SlotOf, Slots
  <1>. DEFINE back == SubSeq(Queued(q), m + 1, held)
              front == SubSeq(Queued(q), 1, m)
              copied == [i \in 1..m |-> q.buf[q.rd + i - 1]]
  <1>16. /\ back \in Seq(Contents) /\ Len(back) = held - m
         /\ \A i \in 1..(held - m) : back[i] = Queued(q)[m + i]
    <2>1. \A i \in (m + 1)..held : Queued(q)[i] \in Contents
      BY <1>3, <1>12, ElementOfSeq
    <2>2. /\ SubSeq(Queued(q), m + 1, held) \in Seq(Contents)
          /\ Len(SubSeq(Queued(q), m + 1, held)) =
               IF m + 1 <= held THEN held - (m + 1) + 1 ELSE 0
          /\ \A i \in 1..(held - (m + 1) + 1) :
               SubSeq(Queued(q), m + 1, held)[i] = Queued(q)[(m + 1) + i - 1]
      BY <2>1, <1>3, <1>12, SubSeqProperties
    <2>3. \A i \in 1..(held - m) : (m + 1) + i - 1 = m + i
      BY <1>3, <1>12
    <2>. QED
      BY <2>2, <2>3, <1>3, <1>10, <1>12
  <1>17. /\ front \in Seq(Contents) /\ Len(front) = m
         /\ \A i \in 1..m : front[i] = Queued(q)[i]
    <2>1. \A i \in 1..m : Queued(q)[i] \in Contents
      BY <1>3, <1>10, <1>12, ElementOfSeq
    <2>. QED
      BY <2>1, <1>3, SubSeqProperties
  <1>18. Queued(t) = back
    <2>1. \A i \in 1..(held - m) : Queued(t)[i] = back[i]
      <3>. SUFFICES ASSUME NEW i \in 1..(held - m) PROVE Queued(t)[i] = back[i]
        OBVIOUS
      <3>1. m + i \in 1..held
        BY <1>3, <1>12
      <3>. QED
        BY <3>1, <1>4, <1>12, <1>13, <1>14, <1>16
    <2>. HIDE DEF back
    <2>. QED
      BY <2>1, <1>13, <1>16, SeqEqual
  <1>19. copied = front
    <2>1. copied \in Seq(Contents) /\ Len(copied) = m
          /\ \A i \in 1..m : copied[i] = q.buf[q.rd + i - 1]
      BY <1>1, <1>3, <1>15
    <2>2. \A i \in 1..m : copied[i] = front[i]
      <3>. SUFFICES ASSUME NEW i \in 1..m PROVE copied[i] = front[i]
        OBVIOUS
      <3>1. i \in 1..held
        BY <1>3, <1>10, <1>12
      <3>. QED
        BY <3>1, <2>1, <1>12, <1>15, <1>17
    <2>. HIDE DEF copied, front
    <2>. QED
      BY <2>1, <2>2, <1>17, SeqEqual
  <1>. QED
    BY <1>7, <1>10, <1>11, <1>18, <1>19 DEF t, held
-----------------------------------------------------------------------------
\* One turn of the push loop pushes what fits in the stretch; when that was
\* not everything, all the space that is left is one stretch.
LEMMA PushInStretchAppends ==
    ASSUME NEW q, Valid(q), NEW data \in Seq(Elements)
    PROVE  LET p == PushInStretch(q, data)
           IN  /\ p.ret = Smaller(QUEUE_getContinuousSpace(q), Len(data))
               /\ p.ret \in 0..Len(data) /\ p.ret <= QUEUE_getSpace(q)
               /\ Valid(p.q)
               /\ Queued(p.q) = Queued(q) \o SubSeq(data, 1, p.ret)
               /\ QUEUE_getSpace(p.q) = QUEUE_getSpace(q) - p.ret
               /\ p.ret < Len(data) =>
                    QUEUE_getContinuousSpace(p.q) = QUEUE_getSpace(p.q)
  <1>. DEFINE n == Smaller(QUEUE_getContinuousSpace(q), Len(data))
              p == PushInStretch(q, data)
  <1>1. /\ Len(data) \in Nat
        /\ QUEUE_getContinuousSpace(q) \in 0..QUEUE_getSpace(q)
        /\ QUEUE_getSpace(q) \in 0..Capacity
        /\ QUEUE_getContinuousSpace(q) = 0 <=> QUEUE_getSpace(q) = 0
    BY Counts, LenProperties
  <1>2. n \in 0..Len(data) /\ n <= QUEUE_getSpace(q) /\ n <= QUEUE_getContinuousSpace(q)
        /\ (n < Len(data) => n = QUEUE_getContinuousSpace(q))
    BY <1>1, QueueAssumption DEF Smaller
  <1>3. Queued(q) \in Seq(Contents)
    BY QueuedIsSeq
  <1>4. CASE n = 0
    <2>1. p = [q |-> q, ret |-> 0]
      BY <1>4 DEF PushInStretch
    <2>2. SubSeq(data, 1, 0) = <<>>
      BY SubSeqEmpty
    <2>3. Queued(q) = Queued(q) \o SubSeq(data, 1, 0)
      BY <2>2, <1>3, ConcatEmptySeq
    <2>4. n < Len(data) => QUEUE_getContinuousSpace(q) = QUEUE_getSpace(q)
      BY <1>1, <1>2, <1>4
    <2>. QED
      BY <2>1, <2>3, <2>4, <1>1, <1>2, <1>4, QueueAssumption
  <1>5. CASE n # 0
    <2>. DEFINE w == Written(q, n, data)
    <2>1. p = [q |-> w, ret |-> n]
      BY <1>5 DEF PushInStretch
    <2>2. n \in 1..QUEUE_getContinuousSpace(q) /\ n <= Len(data)
      BY <1>1, <1>2, <1>5, QueueAssumption
    <2>3. Valid(w) /\ Queued(w) = Queued(q) \o SubSeq(data, 1, n)
      BY <2>2, WrittenAppends
    <2>4. SubSeq(data, 1, n) \in Seq(Contents) /\ Len(SubSeq(data, 1, n)) = n
      <3>1. \A i \in 1..n : data[i] \in Contents
        BY <1>1, <1>2, ElementOfSeq DEF Contents
      <3>. QED
        BY <3>1, <2>2, <1>1, <1>2, SubSeqProperties
    <2>5. Len(Queued(w)) = Len(Queued(q)) + n
      BY <2>3, <2>4, <1>3, ConcatProperties
    <2>6. QUEUE_getElementCount(w) = QUEUE_getElementCount(q) + n
      BY <2>3, <2>5, QueuedIsSeq
    <2>7. /\ QUEUE_getElementCount(w) \in 0..Capacity /\ QUEUE_getSpace(w) \in 0..Capacity
          /\ QUEUE_getElementCount(w) + QUEUE_getSpace(w) = Capacity
      BY <2>3, Counts
    <2>8. /\ QUEUE_getElementCount(q) \in 0..Capacity /\ QUEUE_getSpace(q) \in 0..Capacity
          /\ QUEUE_getElementCount(q) + QUEUE_getSpace(q) = Capacity
      BY Counts
    <2>. HIDE DEF w
    <2>9. QUEUE_getSpace(w) = QUEUE_getSpace(q) - n
      BY <2>6, <2>7, <2>8, <1>2, QueueAssumption
    <2>10. ASSUME n < Len(data)
           PROVE  QUEUE_getContinuousSpace(w) = QUEUE_getSpace(w)
      <3>1. n = QUEUE_getContinuousSpace(q)
        BY <2>10, <1>2
      <3>2. w.rd = q.rd /\ w.wr = Wrapped(q.wr + n) /\ w.empty = FALSE
            /\ w.full = (q.full \/ Wrapped(q.wr + n) = q.rd)
        BY DEF w, Written
      <3>3. q.rd \in 0..(Capacity - 1) /\ q.wr \in 0..(Capacity - 1)
            /\ (q.rd = q.wr <=> q.empty \/ q.full) /\ ~(q.empty /\ q.full)
        BY DEF Valid, Queues, Slots
      <3>. HIDE DEF n
      <3>4. CASE w.full
        BY <3>2, <3>4 DEF QUEUE_getContinuousSpace, QUEUE_getSpace
      <3>5. CASE ~w.full
        <4>1. Wrapped(q.wr + n) # q.rd /\ ~q.full
          BY <3>2, <3>5
        <4>2. Wrapped(q.wr + n) = 0
          BY <4>1, <3>1, <3>3, <1>5, QueueAssumption
             DEF Wrapped, QUEUE_getContinuousSpace
        <4>3. w.wr = 0 /\ w.rd = q.rd /\ ~(0 > q.rd)
          BY <4>2, <3>2, <3>3, QueueAssumption
        <4>. QED
          BY <4>3, <3>2, <3>5 DEF QUEUE_getContinuousSpace, QUEUE_getSpace
      <3>. QED
        BY <3>4, <3>5
    <2>. QED
      BY <2>1, <2>3, <2>9, <2>10, <1>2
  <1>. QED
    BY <1>4, <1>5

\* QUEUE_PushInEleArray appends the prefix that fits and returns its length:
\* its loop needs no third turn.
LEMMA PushInAppends ==
    ASSUME NEW q, Valid(q), NEW data \in Seq(Elements)
    PROVE  LET r == QUEUE_PushInEleArray(q, data)
           IN  /\ Valid(r.q)
               /\ r.ret = Smaller(Len(data), QUEUE_getSpace(q))
               /\ Queued(r.q) = Queued(q) \o SubSeq(data, 1, r.ret)
  <1>. DEFINE f == PushInStretch(q, data)
              n == f.ret
              rest == SubSeq(data, n + 1, Len(data))
              g == PushInStretch(f.q, rest)
              k == g.ret
              r == QUEUE_PushInEleArray(q, data)
  <1>1. r = [q |-> g.q, ret |-> n + k]
    BY DEF QUEUE_PushInEleArray
  <1>2. /\ n = Smaller(QUEUE_getContinuousSpace(q), Len(data))
        /\ n \in 0..Len(data) /\ n <= QUEUE_getSpace(q)
        /\ Valid(f.q)
        /\ Queued(f.q) = Queued(q) \o SubSeq(data, 1, n)
        /\ QUEUE_getSpace(f.q) = QUEUE_getSpace(q) - n
        /\ n < Len(data) => QUEUE_getContinuousSpace(f.q) = QUEUE_getSpace(f.q)
    BY PushInStretchAppends
  <1>3. Len(data) \in Nat /\ QUEUE_getSpace(q) \in 0..Capacity
        /\ QUEUE_getSpace(f.q) \in 0..Capacity
        /\ QUEUE_getContinuousSpace(f.q) \in 0..QUEUE_getSpace(f.q)
    BY <1>2, Counts, LenProperties
  <1>4. rest \in Seq(Elements) /\ Len(rest) = Len(data) - n
        /\ \A i \in 1..(Len(data) - n) : rest[i] = data[n + i]
    <2>1. \A i \in (n + 1)..Len(data) : data[i] \in Elements
      BY <1>2, <1>3, ElementOfSeq
    <2>2. n + 1 \in Int /\ Len(data) \in Int
      BY <1>2, <1>3
    <2>3. /\ rest \in Seq(Elements)
          /\ Len(rest) = IF n + 1 <= Len(data) THEN Len(data) - (n + 1) + 1 ELSE 0
          /\ \A i \in 1..(Len(data) - (n + 1) + 1) : rest[i] = data[(n + 1) + i - 1]
      BY <2>1, <2>2, SubSeqProperties
    <2>4. \A i \in 1..(Len(data) - n) : (n + 1) + i - 1 = n + i
      BY <1>2, <1>3
    <2>. HIDE DEF rest, n
    <2>. QED
      BY <2>3, <2>4, <1>2, <1>3
  <1>5. /\ k = Smaller(QUEUE_getContinuousSpace(f.q), Len(rest))
        /\ k \in 0..Len(rest)
        /\ Valid(g.q)
        /\ Queued(g.q) = Queued(f.q) \o SubSeq(rest, 1, k)
    BY <1>2, <1>4, PushInStretchAppends
  <1>. HIDE DEF f, g, r, rest, n, k
  <1>6a. n \in Nat /\ k \in Nat /\ Len(data) \in Nat /\ n + k <= Len(data)
         /\ Len(rest) = Len(data) - n
    BY <1>2, <1>3, <1>4, <1>5
  <1>6b. QUEUE_getSpace(q) \in Nat /\ QUEUE_getSpace(f.q) = QUEUE_getSpace(q) - n
         /\ QUEUE_getContinuousSpace(f.q) \in 0..QUEUE_getSpace(f.q)
         /\ n <= QUEUE_getSpace(q)
    BY <1>2, <1>3, QueueAssumption
  <1>6. n + k = Smaller(Len(data), QUEUE_getSpace(q))
    <2>1. CASE n < Len(data)
      <3>1. QUEUE_getContinuousSpace(f.q) = QUEUE_getSpace(q) - n
        BY <2>1, <1>2, <1>6b
      <3>2. k = Smaller(QUEUE_getSpace(q) - n, Len(data) - n)
        BY <3>1, <1>5, <1>6a
      <3>. QED
        BY <3>2, <1>6a, <1>6b DEF Smaller
    <2>2. CASE n = Len(data)
      <3>1. k = 0
        BY <2>2, <1>6a
      <3>. QED
        BY <2>2, <3>1, <1>6a, <1>6b DEF Smaller
    <2>. QED
      BY <2>1, <2>2, <1>2, <1>6a
  <1>7. /\ Queued(q) \in Seq(Contents) /\ data \in Seq(Contents)
        /\ SubSeq(data, 1, n) \in Seq(Contents) /\ SubSeq(rest, 1, k) \in Seq(Contents)
    <2>1. \A i \in 1..n : data[i] \in Contents
      BY <1>6a, ElementOfSeq DEF Contents
    <2>2. \A i \in 1..k : rest[i] \in Contents
      BY <1>4, <1>6a, ElementOfSeq DEF Contents
    <2>3. SubSeq(data, 1, n) \in Seq(Contents)
      BY <2>1, <1>6a, SubSeqProperties
    <2>4. SubSeq(rest, 1, k) \in Seq(Contents)
      BY <2>2, <1>6a, SubSeqProperties
    <2>5. data \in Seq(Contents)
      BY SeqMonotonic DEF Contents
    <2>. QED
      BY <2>3, <2>4, <2>5, QueuedIsSeq
  <1>8. SubSeq(rest, 1, k) = SubSeq(data, n + 1, n + k)
    <2>1. \A i \in 1..k : rest[i] \in Elements
      BY <1>3, <1>4, <1>5, ElementOfSeq
    <2>2. /\ SubSeq(rest, 1, k) \in Seq(Elements) /\ Len(SubSeq(rest, 1, k)) = k
          /\ \A i \in 1..k : SubSeq(rest, 1, k)[i] = rest[i]
      BY <2>1, <1>5, <1>4, <1>3, SubSeqProperties
    <2>3. /\ SubSeq(data, n + 1, n + k) \in Seq(Elements)
          /\ Len(SubSeq(data, n + 1, n + k)) = k
          /\ \A i \in 1..k : SubSeq(data, n + 1, n + k)[i] = data[n + i]
      BY <1>6a, Slice
    <2>7. \A i \in 1..k : SubSeq(rest, 1, k)[i] = SubSeq(data, n + 1, n + k)[i]
      <3>. SUFFICES ASSUME NEW i \in 1..k
                    PROVE  SubSeq(rest, 1, k)[i] = SubSeq(data, n + 1, n + k)[i]
        OBVIOUS
      <3>1. i \in 1..(Len(data) - n)
        BY <1>6a
      <3>. QED
        BY <3>1, <2>2, <2>3, <1>4
    <2>. QED
      BY <2>2, <2>3, <2>7, SeqEqual
  <1>9. SubSeq(data, 1, n) \o SubSeq(data, n + 1, n + k) = SubSeq(data, 1, n + k)
    <2>1. 1 \in 1..(Len(data) + 1) /\ n \in (1 - 1)..Len(data)
          /\ n + k \in n..Len(data)
      BY <1>6a
    <2>. QED
      BY <2>1, ConcatAdjacentSubSeq
  <1>10. Queued(g.q) = Queued(q) \o SubSeq(data, 1, n + k)
    <2>1. (Queued(q) \o SubSeq(data, 1, n)) \o SubSeq(rest, 1, k)
            = Queued(q) \o (SubSeq(data, 1, n) \o SubSeq(rest, 1, k))
      <3>. DEFINE one == Queued(q)
                  two == SubSeq(data, 1, n)
                  three == SubSeq(rest, 1, k)
      <3>1. one \in Seq(Contents) /\ two \in Seq(Contents) /\ three \in Seq(Contents)
        BY <1>7
      <3>. HIDE DEF one, two, three
      <3>2. (one \o two) \o three = one \o (two \o three)
        BY <3>1, ConcatAssociative
      <3>. QED
        BY <3>2 DEF one, two, three
    <2>. QED
      BY <2>1, <1>2, <1>5, <1>8, <1>9
  <1>11. r.q = g.q /\ r.ret = n + k
    BY <1>1
  <1>12. /\ Valid(r.q) /\ r.ret = Smaller(Len(data), QUEUE_getSpace(q))
         /\ Queued(r.q) = Queued(q) \o SubSeq(data, 1, r.ret)
    BY <1>5, <1>6, <1>10, <1>11
  <1>. QED
    BY <1>12 DEF r

\* One turn of the removal loop takes what one stretch holds of it; when that
\* was not everything, all the elements that are left are one stretch.
LEMMA PushOutStretchTakes ==
    ASSUME NEW q, Valid(q), NEW n \in Nat
    PROVE  LET p == PushOutStretch(q, n)
           IN  /\ Len(p.ret) = Smaller(QUEUE_getContinuousEleCount(q), n)
               /\ Len(p.ret) \in 0..QUEUE_getElementCount(q)
               /\ p.ret = SubSeq(Queued(q), 1, Len(p.ret))
               /\ Valid(p.q)
               /\ QUEUE_getElementCount(p.q) = QUEUE_getElementCount(q) - Len(p.ret)
               /\ Queued(p.q) =
                    SubSeq(Queued(q), Len(p.ret) + 1, QUEUE_getElementCount(q))
               /\ Len(p.ret) < n =>
                    QUEUE_getContinuousEleCount(p.q) = QUEUE_getElementCount(p.q)
  <1>. DEFINE m == Smaller(QUEUE_getContinuousEleCount(q), n)
              p == PushOutStretch(q, n)
              held == QUEUE_getElementCount(q)
  <1>1. /\ held \in 0..Capacity
        /\ QUEUE_getContinuousEleCount(q) \in 0..held
        /\ QUEUE_getContinuousEleCount(q) = 0 <=> held = 0
    BY Counts
  <1>2. m \in 0..held /\ m <= n /\ m <= QUEUE_getContinuousEleCount(q)
        /\ (m < n => m = QUEUE_getContinuousEleCount(q))
    BY <1>1, QueueAssumption DEF Smaller
  <1>3. Queued(q) \in Seq(Contents) /\ Len(Queued(q)) = held
    BY QueuedIsSeq
  <1>4. CASE m = 0
    <2>1. p = [q |-> q, ret |-> <<>>]
      BY <1>4 DEF PushOutStretch
    <2>2. SubSeq(Queued(q), 1, 0) = <<>> /\ Len(<<>>) = 0
      BY SubSeqEmpty
    <2>3. SubSeq(Queued(q), 0 + 1, held) = Queued(q)
      BY <1>3, SubSeqFull
    <2>4. 0 < n => QUEUE_getContinuousEleCount(q) = held
      BY <1>1, <1>2, <1>4
    <2>5. QUEUE_getElementCount(q) = held - 0 /\ 0 \in 0..held
      BY <1>1
    <2>6. p.q = q /\ p.ret = <<>> /\ Len(p.ret) = 0
      BY <2>1, <2>2
    <2>. HIDE DEF p, m, held
    <2>. QED
      BY <2>2, <2>3, <2>4, <2>5, <2>6, <1>4 DEF p, m, held
  <1>5. CASE m # 0
    <2>. DEFINE t == Taken(q, m)
    <2>1. p = [q |-> t, ret |-> [i \in 1..m |-> q.buf[q.rd + i - 1]]]
      BY <1>5 DEF PushOutStretch
    <2>2. m \in 1..QUEUE_getContinuousEleCount(q)
      BY <1>1, <1>2, <1>5, QueueAssumption
    <2>3. /\ Valid(t) /\ QUEUE_getElementCount(t) = held - m
          /\ Queued(t) = SubSeq(Queued(q), m + 1, held)
          /\ [i \in 1..m |-> q.buf[q.rd + i - 1]] = SubSeq(Queued(q), 1, m)
      BY <2>2, TakenDrops
    <2>4. Len([i \in 1..m |-> q.buf[q.rd + i - 1]]) = m
      BY <1>2
    <2>5. ASSUME m < n
          PROVE  QUEUE_getContinuousEleCount(t) = QUEUE_getElementCount(t)
      <3>1. m = QUEUE_getContinuousEleCount(q)
        BY <2>5, <1>2
      <3>2. t.rd = Wrapped(q.rd + m) /\ t.wr = q.wr /\ t.full = FALSE
            /\ t.empty = (q.empty \/ Wrapped(q.rd + m) = q.wr)
        BY DEF Taken
      <3>3. q.rd \in 0..(Capacity - 1) /\ q.wr \in 0..(Capacity - 1)
            /\ (q.rd = q.wr <=> q.empty \/ q.full) /\ ~(q.empty /\ q.full)
        BY DEF Valid, Queues, Slots
      <3>. HIDE DEF t, m
      <3>4. CASE t.empty
        BY <3>4 DEF QUEUE_getContinuousEleCount, QUEUE_getElementCount
      <3>5. CASE ~t.empty
        <4>1. Wrapped(q.rd + m) # q.wr /\ ~q.empty
          BY <3>2, <3>5
        <4>2. Wrapped(q.rd + m) = 0
          BY <4>1, <3>1, <3>3, <1>5, QueueAssumption
             DEF Wrapped, QUEUE_getContinuousEleCount
        <4>3. t.rd = 0 /\ t.wr = q.wr /\ q.wr > 0 /\ ~t.full
          BY <4>1, <4>2, <3>2, <3>3, QueueAssumption
        <4>. QED
          BY <4>3, <3>3, <3>5 DEF QUEUE_getContinuousEleCount, QUEUE_getElementCount
      <3>. QED
        BY <3>4, <3>5
    <2>6. p.q = t /\ p.ret = SubSeq(Queued(q), 1, m) /\ Len(p.ret) = m
      <3>. DEFINE copied == [i \in 1..m |-> q.buf[q.rd + i - 1]]
      <3>. HIDE DEF p, t, copied
      <3>1. p = [q |-> t, ret |-> copied]
        BY <2>1 DEF copied
      <3>2. p.q = t /\ p.ret = copied
        BY <3>1
      <3>3. copied = SubSeq(Queued(q), 1, m) /\ Len(copied) = m
        BY <2>3, <2>4 DEF copied
      <3>. QED
        BY <3>2, <3>3
    <2>. HIDE DEF p, m, t, held
    <2>. QED
      BY <2>3, <2>5, <2>6, <1>2 DEF p, m, held
  <1>. QED
    BY <1>4, <1>5

\* QUEUE_PushOutEleArray takes the front, as much of it as there is: its loop
\* needs no third turn, and the count it leaves wrong at queue.c:80 is not
\* used again.
LEMMA PushOutTakes ==
    ASSUME NEW q, Valid(q), NEW n \in Nat
    PROVE  LET r == QUEUE_PushOutEleArray(q, n)
               h == Smaller(n, QUEUE_getElementCount(q))
           IN  /\ Valid(r.q)
               /\ r.ret = SubSeq(Queued(q), 1, h)
               /\ Queued(r.q) = SubSeq(Queued(q), h + 1, QUEUE_getElementCount(q))
  <1>. DEFINE f == PushOutStretch(q, n)
              m == Len(f.ret)
              g == PushOutStretch(f.q, n - m)
              k == Len(g.ret)
              r == QUEUE_PushOutEleArray(q, n)
              held == QUEUE_getElementCount(q)
              Q == Queued(q)
  <1>1. r.q = g.q /\ r.ret = f.ret \o g.ret
    BY DEF QUEUE_PushOutEleArray
  <1>2. /\ m = Smaller(QUEUE_getContinuousEleCount(q), n)
        /\ m \in 0..held
        /\ f.ret = SubSeq(Q, 1, m)
        /\ Valid(f.q)
        /\ QUEUE_getElementCount(f.q) = held - m
        /\ Queued(f.q) = SubSeq(Q, m + 1, held)
        /\ m < n => QUEUE_getContinuousEleCount(f.q) = QUEUE_getElementCount(f.q)
    BY PushOutStretchTakes
  <1>3. /\ held \in Nat /\ QUEUE_getContinuousEleCount(q) \in 0..held
        /\ Q \in Seq(Contents) /\ Len(Q) = held
    BY Counts, QueuedIsSeq, QueueAssumption
  <1>4. m \in Nat /\ n - m \in Nat /\ m <= n
    BY <1>2, <1>3 DEF Smaller
  <1>5. /\ k = Smaller(QUEUE_getContinuousEleCount(f.q), n - m)
        /\ k \in 0..(held - m)
        /\ g.ret = SubSeq(Queued(f.q), 1, k)
        /\ Valid(g.q)
        /\ Queued(g.q) = SubSeq(Queued(f.q), k + 1, held - m)
    BY <1>2, <1>4, PushOutStretchTakes
  <1>. HIDE DEF f, g, r, m, k, held, Q
  <1>6. k \in Nat /\ m + k <= held
    BY <1>3, <1>4, <1>5
  <1>7. m + k = Smaller(n, held)
    <2>1. CASE m < n
      <3>1. k = Smaller(held - m, n - m)
        BY <2>1, <1>2, <1>5
      <3>. QED
        BY <3>1, <1>3, <1>4, <1>6 DEF Smaller
    <2>2. CASE m = n
      <3>1. k = 0
        <4>1. /\ QUEUE_getContinuousEleCount(f.q) \in 0..QUEUE_getElementCount(f.q)
              /\ QUEUE_getElementCount(f.q) \in 0..Capacity
          BY <1>2, Counts
        <4>2. QUEUE_getContinuousEleCount(f.q) \in Int
              /\ 0 <= QUEUE_getContinuousEleCount(f.q) /\ n - m = 0
          BY <4>1, <2>2, <1>4, QueueAssumption
        <4>. QED
          BY <4>2, <1>5 DEF Smaller
      <3>. QED
        BY <2>2, <3>1, <1>2, <1>3, <1>4, <1>6 DEF Smaller
    <2>. QED
      BY <2>1, <2>2, <1>4
  <1>. DEFINE F == Queued(f.q)
  <1>8. /\ F \in Seq(Contents) /\ Len(F) = held - m
        /\ \A i \in 1..(held - m) : F[i] = Q[m + i]
    <2>1. m + (held - m) = held /\ held - m \in Nat
      BY <1>3, <1>4, <1>6
    <2>2. /\ SubSeq(Q, m + 1, m + (held - m)) \in Seq(Contents)
          /\ Len(SubSeq(Q, m + 1, m + (held - m))) = held - m
          /\ \A i \in 1..(held - m) :
               SubSeq(Q, m + 1, m + (held - m))[i] = Q[m + i]
      BY <2>1, <1>3, <1>4, Slice
    <2>. QED
      BY <2>1, <2>2, <1>2
  <1>. HIDE DEF F
  <1>9. /\ SubSeq(F, 1, k) \in Seq(Contents) /\ Len(SubSeq(F, 1, k)) = k
        /\ \A i \in 1..k : SubSeq(F, 1, k)[i] = F[i]
    <2>1. \A i \in 1..k : F[i] \in Contents
      BY <1>3, <1>4, <1>6, <1>8, ElementOfSeq
    <2>. QED
      BY <2>1, <1>6, SubSeqProperties
  <1>10. SubSeq(F, 1, k) = SubSeq(Q, m + 1, m + k)
    <2>1. /\ SubSeq(Q, m + 1, m + k) \in Seq(Contents)
          /\ Len(SubSeq(Q, m + 1, m + k)) = k
          /\ \A i \in 1..k : SubSeq(Q, m + 1, m + k)[i] = Q[m + i]
      BY <1>3, <1>4, <1>6, Slice
    <2>2. \A i \in 1..k : SubSeq(F, 1, k)[i] = SubSeq(Q, m + 1, m + k)[i]
      <3>. SUFFICES ASSUME NEW i \in 1..k
                    PROVE  SubSeq(F, 1, k)[i] = SubSeq(Q, m + 1, m + k)[i]
        OBVIOUS
      <3>1. i \in 1..(held - m)
        BY <1>3, <1>4, <1>6
      <3>. QED
        BY <3>1, <2>1, <1>8, <1>9
    <2>. QED
      BY <2>1, <2>2, <1>9, SeqEqual
  <1>11. f.ret \o g.ret = SubSeq(Q, 1, m + k)
    <2>1. 1 \in 1..(Len(Q) + 1) /\ m \in (1 - 1)..Len(Q) /\ m + k \in m..Len(Q)
      BY <1>3, <1>4, <1>6
    <2>2. SubSeq(Q, 1, m) \o SubSeq(Q, m + 1, m + k) = SubSeq(Q, 1, m + k)
      BY <2>1, <1>3, ConcatAdjacentSubSeq
    <2>. QED
      BY <2>2, <1>2, <1>5, <1>10 DEF F
  <1>12. Queued(g.q) = SubSeq(Q, (m + k) + 1, held)
    <2>. DEFINE rest == held - m - k
    <2>1. rest \in Nat /\ k + rest = held - m /\ (m + k) + rest = held
          /\ m + k \in Nat
      BY <1>3, <1>4, <1>6
    <2>. DEFINE taken == m + k
    <2>. HIDE DEF rest, taken
    <2>2. /\ SubSeq(F, k + 1, k + rest) \in Seq(Contents)
          /\ Len(SubSeq(F, k + 1, k + rest)) = rest
          /\ \A i \in 1..rest : SubSeq(F, k + 1, k + rest)[i] = F[k + i]
      <3>1. F \in Seq(Contents) /\ rest \in Nat
        BY <2>1, <1>8
      <3>2. k \in Nat /\ k + rest <= Len(F)
        BY <2>1, <1>3, <1>4, <1>6, <1>8
      <3>. HIDE DEF k
      <3>. QED
        BY <3>1, <3>2, Slice
    <2>3. /\ SubSeq(Q, taken + 1, taken + rest) \in Seq(Contents)
          /\ Len(SubSeq(Q, taken + 1, taken + rest)) = rest
          /\ \A i \in 1..rest :
               SubSeq(Q, taken + 1, taken + rest)[i] = Q[taken + i]
      <3>1. taken \in Nat /\ taken + rest <= Len(Q)
        BY <2>1, <1>3 DEF taken
      <3>. QED
        <4>1. Q \in Seq(Contents) /\ rest \in Nat
          BY <2>1, <1>3
        <4>. HIDE DEF Q
        <4>. QED
          BY <3>1, <4>1, Slice
    <2>4. \A i \in 1..rest : SubSeq(F, k + 1, k + rest)[i]
                               = SubSeq(Q, taken + 1, taken + rest)[i]
      <3>. SUFFICES ASSUME NEW i \in 1..rest
                    PROVE  F[k + i] = Q[taken + i]
        BY <2>2, <2>3
      <3>1. k + i \in 1..(held - m) /\ m + (k + i) = taken + i
        BY <2>1, <1>3, <1>4, <1>6 DEF taken
      <3>. QED
        BY <3>1, <1>8
    <2>5. SubSeq(F, k + 1, k + rest) = SubSeq(Q, taken + 1, taken + rest)
      BY <2>2, <2>3, <2>4, SeqEqual
    <2>. QED
      BY <2>1, <2>5, <1>5 DEF F, taken
  <1>13. /\ Valid(r.q)
         /\ r.ret = SubSeq(Q, 1, Smaller(n, held))
         /\ Queued(r.q) = SubSeq(Q, Smaller(n, held) + 1, held)
    BY <1>1, <1>5, <1>7, <1>11, <1>12
  <1>. QED
    BY <1>13 DEF r, Q, held
-----------------------------------------------------------------------------
\* One element is a sequence of elements.
LEMMA OneIsSeq ==
    ASSUME NEW e \in Elements
    PROVE  <<e>> \in Seq(Elements) /\ Len(<<e>>) = 1
  OBVIOUS
\* A cleared queue is valid and holds nothing.
LEMMA ClearedHoldsNothing ==
    ASSUME NEW b \in [Slots -> Contents], NEW q,
           q = [rd |-> 0, wr |-> 0, empty |-> TRUE, full |-> FALSE, buf |-> b]
    PROVE  Valid(q) /\ Queued(q) = <<>>
  <1>1. 0 \in Slots
    BY QueueAssumption DEF Slots
  <1>2. Valid(q)
    BY <1>1 DEF Valid, Queues
  <1>3. QUEUE_getElementCount(q) = 0
    BY DEF QUEUE_getElementCount
  <1>4. Queued(q) \in Seq(Contents) /\ Len(Queued(q)) = 0
    BY <1>2, <1>3, QueuedIsSeq
  <1>5. Queued(q) = <<>>
    BY <1>4, EmptySeq
  <1>. QED
    BY <1>2, <1>5

\* The initial queue is a cleared one.
LEMMA InitHoldsNothing == Valid(QUEUE_init) /\ Queued(QUEUE_init) = <<>>
  <1>. DEFINE b == [s \in Slots |-> Blank]
  <1>1. b \in [Slots -> Contents]
    BY DEF Contents
  <1>2. QUEUE_init = [rd |-> 0, wr |-> 0, empty |-> TRUE, full |-> FALSE, buf |-> b]
    BY DEF QUEUE_init
  <1>. HIDE DEF b
  <1>. QED
    BY <1>1, <1>2, ClearedHoldsNothing

\* QUEUE_add pushes an array of one element, as QUEUE_getNew does.
LEMMA AddAppends ==
    ASSUME NEW q, Valid(q), NEW e \in Elements
    PROVE  LET r == QUEUE_add(q, e)
           IN  /\ Valid(r.q)
               /\ r.ret = Smaller(1, QUEUE_getSpace(q))
               /\ Queued(r.q) = Queued(q) \o SubSeq(<<e>>, 1, r.ret)
  <1>1. <<e>> \in Seq(Elements) /\ Len(<<e>>) = 1
    BY OneIsSeq
  <1>2. /\ QUEUE_getSpace(q) \in 0..Capacity
        /\ QUEUE_getContinuousSpace(q) \in 0..QUEUE_getSpace(q)
        /\ QUEUE_getContinuousSpace(q) = 0 <=> QUEUE_getSpace(q) = 0
    BY Counts
  <1>3. /\ q.rd \in 0..(Capacity - 1) /\ q.wr \in 0..(Capacity - 1)
        /\ (q.rd = q.wr <=> q.empty \/ q.full) /\ ~(q.empty /\ q.full)
    BY DEF Valid, Queues, Slots
  <1>4. CASE q.full
    <2>1. QUEUE_add(q, e) = [q |-> q, ret |-> 0]
      BY <1>4 DEF QUEUE_add
    <2>2. Smaller(1, QUEUE_getSpace(q)) = 0
      BY <1>4 DEF Smaller, QUEUE_getSpace
    <2>3. SubSeq(<<e>>, 1, 0) = <<>>
      BY SubSeqEmpty
    <2>4. Queued(q) = Queued(q) \o SubSeq(<<e>>, 1, 0)
      BY <2>3, QueuedIsSeq, ConcatEmptySeq
    <2>. QED
      BY <2>1, <2>2, <2>4
  <1>5. CASE ~q.full
    <2>1. QUEUE_add(q, e) = [q |-> Written(q, 1, <<e>>), ret |-> 1]
      BY <1>5 DEF QUEUE_add
    <2>2. QUEUE_getSpace(q) # 0
      BY <1>3, <1>5, QueueAssumption DEF QUEUE_getSpace
    <2>3. 1 \in 1..QUEUE_getContinuousSpace(q) /\ Smaller(1, QUEUE_getSpace(q)) = 1
      BY <2>2, <1>2, QueueAssumption DEF Smaller
    <2>4. /\ Valid(Written(q, 1, <<e>>))
          /\ Queued(Written(q, 1, <<e>>)) = Queued(q) \o SubSeq(<<e>>, 1, 1)
      <3>. DEFINE d == <<e>>
      <3>1. d \in Seq(Elements) /\ 1 <= Len(d)
        BY <1>1
      <3>. HIDE DEF d
      <3>2. /\ Valid(Written(q, 1, d))
            /\ Queued(Written(q, 1, d)) = Queued(q) \o SubSeq(d, 1, 1)
        BY <3>1, <2>3, WrittenAppends
      <3>. QED
        BY <3>2 DEF d
    <2>. QED
      BY <2>1, <2>3, <2>4
  <1>. QED
    BY <1>4, <1>5

\* QUEUE_getHead returns the front and QUEUE_removeHead drops it.
LEMMA HeadIsFront ==
    ASSUME NEW q, Valid(q)
    PROVE  LET h == Smaller(1, QUEUE_getElementCount(q))
           IN  /\ QUEUE_getHead(q) = SubSeq(Queued(q), 1, h)
               /\ Valid(QUEUE_removeHead(q))
               /\ Queued(QUEUE_removeHead(q)) =
                    SubSeq(Queued(q), h + 1, QUEUE_getElementCount(q))
  <1>. DEFINE held == QUEUE_getElementCount(q)
  <1>1. /\ held \in 0..Capacity /\ QUEUE_getContinuousEleCount(q) \in 0..held
        /\ QUEUE_getContinuousEleCount(q) = 0 <=> held = 0
    BY Counts
  <1>2. Queued(q) \in Seq(Contents) /\ Len(Queued(q)) = held
    BY QueuedIsSeq
  <1>3. CASE q.empty
    <2>1. held = 0 /\ Smaller(1, held) = 0
      BY <1>3 DEF QUEUE_getElementCount, Smaller
    <2>2. QUEUE_getHead(q) = <<>> /\ QUEUE_removeHead(q) = q
      BY <1>3 DEF QUEUE_getHead, QUEUE_removeHead
    <2>3. SubSeq(Queued(q), 1, 0) = <<>>
      BY SubSeqEmpty
    <2>4. SubSeq(Queued(q), 0 + 1, held) = Queued(q)
      BY <1>2, SubSeqFull
    <2>. QED
      BY <2>1, <2>2, <2>3, <2>4
  <1>4. CASE ~q.empty
    <2>1. held # 0
      <3>1. q.rd \in 0..(Capacity - 1) /\ q.wr \in 0..(Capacity - 1)
            /\ (q.rd = q.wr <=> q.empty \/ q.full)
        BY DEF Valid, Queues, Slots
      <3>. QED
        BY <3>1, <1>4, QueueAssumption DEF QUEUE_getElementCount
    <2>2. 1 \in 1..QUEUE_getContinuousEleCount(q) /\ Smaller(1, held) = 1
      BY <2>1, <1>1, QueueAssumption DEF Smaller
    <2>3. /\ Valid(Taken(q, 1))
          /\ Queued(Taken(q, 1)) = SubSeq(Queued(q), 1 + 1, held)
          /\ [i \in 1..1 |-> q.buf[q.rd + i - 1]] = SubSeq(Queued(q), 1, 1)
      BY <2>2, TakenDrops
    <2>4. [i \in 1..1 |-> q.buf[q.rd + i - 1]] = <<q.buf[q.rd]>>
      <3>1. q.rd \in Int
        BY DEF Valid, Queues, Slots
      <3>2. q.rd + 1 - 1 = q.rd
        BY <3>1
      <3>. QED
        BY <3>2
    <2>5. QUEUE_getHead(q) = <<q.buf[q.rd]>> /\ QUEUE_removeHead(q) = Taken(q, 1)
      BY <1>4 DEF QUEUE_getHead, QUEUE_removeHead
    <2>. QED
      BY <2>2, <2>3, <2>4, <2>5
  <1>. QED
    BY <1>3, <1>4

\* A cleared queue, and the tail of a queue from which everything was removed.
LEMMA ClearKeepsValid ==
    ASSUME NEW q, Valid(q)
    PROVE  /\ Valid(QUEUE_removeAll(q)) /\ Queued(QUEUE_removeAll(q)) = <<>>
           /\ Valid(QUEUE_reset(q)) /\ Queued(QUEUE_reset(q)) = <<>>
  <1>1. q.buf \in [Slots -> Contents]
    BY DEF Valid, Queues
  <1>. QED
    BY <1>1, ClearedHoldsNothing, InitHoldsNothing DEF QUEUE_removeAll, QUEUE_reset
-----------------------------------------------------------------------------
\* What the links of a list look like: the nodes s[1], ..., s[N], no two of them
\* the same, are linked in both directions, and nothing else is.
Row(l, N, s) ==
    /\ l \in Links /\ N \in Nat /\ s \in [1..N -> Nodes]
    /\ \A i, j \in 1..N : s[i] = s[j] => i = j
    /\ \A i \in 1..N : l.next[s[i]] = IF i = N THEN Null ELSE s[i + 1]
    /\ \A i \in 1..N : l.pre[s[i]] = IF i = 1 THEN Null ELSE s[i - 1]
    /\ \A n \in Nodes : (\A i \in 1..N : s[i] # n) => l.next[n] = Null /\ l.pre[n] = Null

\* The first node of a row, and its members.
HeadIn(N, s) == IF N = 0 THEN Null ELSE s[1]
In(n, N, s) == \E i \in 1..N : s[i] = n

\* A set of naturals with 0 and every successor holds them all.
LEMMA SetInduction ==
    ASSUME NEW S, 0 \in S, \A n \in Nat : n \in S => n + 1 \in S
    PROVE  Nat \subseteq S
<1> DEFINE T == {n \in Nat : n \notin S}
           R == OpToRel(<, Nat)
<1>1. IsWellFoundedOn(R, Nat)
  BY NatLessThanWellFounded
<1>2. \A x, y \in Nat : y < x => <<y, x>> \in R
  BY DEF OpToRel
<1> SUFFICES ASSUME T # {} PROVE FALSE
  OBVIOUS
<1> HIDE DEF R
<1>3. T \subseteq Nat /\ T # {}
  OBVIOUS
<1> HIDE DEF T
<1>4. \E x \in T : \A y \in T : ~ (<<y, x>> \in R)
  BY <1>1, <1>3, WFMin
<1>5. PICK x \in T : \A y \in T : ~ (<<y, x>> \in R)
  BY <1>4
<1>6. x \in Nat /\ x \notin S
  BY <1>3 DEF T
<1>7. x # 0
  BY <1>6
<1>8. x - 1 \in Nat /\ x - 1 < x /\ (x - 1) + 1 = x
  BY <1>6, <1>7
<1>9. x - 1 \in T
  BY <1>6, <1>8 DEF T
<1>. QED BY <1>2, <1>5, <1>6, <1>8, <1>9

\* From the last of N places back to the first.
LEMMA BackInduction ==
    ASSUME NEW N \in Nat, NEW S, N \in S,
           \A i \in 1..(N - 1) : i + 1 \in S => i \in S
    PROVE  1..N \subseteq S
<1> DEFINE T == {k \in Nat : k < N => N - k \in S}
<1>1. 0 \in T
  OBVIOUS
<1>2. ASSUME NEW k \in Nat, k \in T PROVE k + 1 \in T
  <2>1. CASE k + 1 < N
    <3>1. N - k \in S
      BY <1>2, <2>1
    <3>2. N - (k + 1) \in 1..(N - 1) /\ (N - (k + 1)) + 1 = N - k
      BY <2>1
    <3>3. N - (k + 1) \in S
      BY <3>1, <3>2
    <3>. QED BY <3>3
  <2>2. CASE ~(k + 1 < N)
    BY <2>2
  <2>. QED BY <2>1, <2>2
<1> HIDE DEF T
<1>3. Nat \subseteq T
  BY <1>1, <1>2, SetInduction
<1>4. ASSUME NEW i \in 1..N PROVE i \in S
  <2>1. N - i \in Nat /\ N - i < N /\ N - (N - i) = i
    OBVIOUS
  <2>2. N - i \in T
    BY <1>3, <2>1
  <2>. QED BY <2>1, <2>2 DEF T
<1>. QED BY <1>4

\* The pieces of the chain: a node in front of the ones behind it, the nodes
\* from the i-th on, and where a node is.
Put(x, r) == <<x>> \o r
Rest(N, s, i) == [j \in 1..(N - i + 1) |-> s[i + j - 1]]
Place(m, N, s) == CHOOSE i \in 1..N : s[i] = m

\* One element in front of a sequence.
LEMMA Prefixed ==
    ASSUME NEW S, NEW x \in S, NEW m \in Nat, NEW r \in [1..m -> S]
    PROVE  Put(x, r) = [j \in 1..(m + 1) |-> IF j = 1 THEN x ELSE r[j - 1]]
<1>1. r \in Seq(S) /\ Len(r) = m
  OBVIOUS
<1>2. <<x>> \in Seq(S) /\ Len(<<x>>) = 1 /\ <<x>>[1] = x
  OBVIOUS
<1>. QED BY <1>1, <1>2 DEF Put

\* The nodes from the i-th on are the i-th and those behind it.
LEMMA RestStep ==
    ASSUME NEW N \in Nat, NEW S, NEW s \in [1..N -> S], NEW i \in 1..(N - 1)
    PROVE  Put(s[i], Rest(N, s, i + 1)) = Rest(N, s, i)
<1> DEFINE m == N - i
           r == Rest(N, s, i + 1)
<1>1. i \in 1..N /\ m \in Nat /\ s[i] \in S /\ m = N - i /\ N - (i + 1) + 1 = m /\ N - i + 1 = m + 1
  OBVIOUS
<1>2. r = [j \in 1..m |-> s[(i + 1) + j - 1]]
  BY <1>1 DEF Rest
<1>3. \A j \in 1..m : (i + 1) + j - 1 \in 1..N
  BY <1>1
<1>4. r \in [1..m -> S]
  BY <1>2, <1>3
<1>5. Rest(N, s, i) = [j \in 1..(m + 1) |-> s[i + j - 1]]
  BY <1>1 DEF Rest
<1>6. \A j \in 1..(m + 1) : (IF j = 1 THEN s[i] ELSE r[j - 1]) = s[i + j - 1]
  <2> TAKE j \in 1..(m + 1)
  <2>1. CASE j = 1
    BY <2>1
  <2>2. CASE j # 1
    <3>1. j - 1 \in 1..m /\ (i + 1) + (j - 1) - 1 = i + j - 1
      BY <1>1, <2>2
    <3>2. r[j - 1] = s[(i + 1) + (j - 1) - 1]
      BY <1>2, <3>1
    <3>. QED BY <2>2, <3>1, <3>2
  <2>. QED BY <2>1, <2>2
<1> HIDE DEF m, r
<1>7. Put(s[i], r) = [j \in 1..(m + 1) |-> IF j = 1 THEN s[i] ELSE r[j - 1]]
  BY <1>1, <1>4, Prefixed
<1>8. Put(s[i], r) = [j \in 1..(m + 1) |-> s[i + j - 1]]
  BY <1>6, <1>7
<1>. QED BY <1>5, <1>8 DEF r

\* Behind the last node there is nothing.
LEMMA RestLast ==
    ASSUME NEW N \in Nat \ {0}, NEW S, NEW s \in [1..N -> S]
    PROVE  Put(s[N], <<>>) = Rest(N, s, N)
<1>1. N \in 1..N /\ s[N] \in S /\ N - N + 1 = 1 /\ N + 1 - 1 = N
  OBVIOUS
<1>2. Put(s[N], <<>>) = <<s[N]>>
  BY <1>1 DEF Put
<1>3. Rest(N, s, N) = [j \in 1..1 |-> s[N]]
  BY <1>1 DEF Rest
<1>. QED BY <1>2, <1>3

\* No node is in a row twice, so that each has one place.
LEMMA PlaceIs ==
    ASSUME NEW l, NEW N, NEW s, Row(l, N, s), NEW i \in 1..N
    PROVE  In(s[i], N, s) /\ Place(s[i], N, s) = i
<1>1. \E k \in 1..N : s[k] = s[i]
  OBVIOUS
<1>2. Place(s[i], N, s) \in 1..N /\ s[Place(s[i], N, s)] = s[i]
  BY <1>1, Zenon DEF Place
<1>. QED BY <1>1, <1>2 DEF Row, In

\* Following m_pNext from the head finds the nodes of the row, and nothing else.
LEMMA RowChain ==
    ASSUME NEW l, NEW N, NEW s, Row(l, N, s)
    PROVE  Chain(l, HeadIn(N, s)) = s
<1> DEFINE g == [m \in Nodes |-> IF In(m, N, s) THEN Rest(N, s, Place(m, N, s))
                                                ELSE Put(m, <<>>)]
           D(f) == [m \in Nodes |-> Put(m, IF l.next[m] = Null THEN <<>> ELSE f[l.next[m]])]
           F == CHOOSE f : f = D(f)
<1>0. N \in Nat /\ s \in [1..N -> Nodes]
  BY DEF Row
<1>1. CASE N = 0
  <2>1. s = <<>>
    BY <1>0, <1>1
  <2>. QED BY <1>1, <2>1 DEF HeadIn, Chain
<1>2. ASSUME N # 0 PROVE Chain(l, HeadIn(N, s)) = F[s[1]]
  <2>1. s[1] \in Nodes /\ HeadIn(N, s) = s[1]
    BY <1>0, <1>2 DEF HeadIn
  <2>2. s[1] # Null
    BY <2>1, ListAssumption
  <2>. QED BY <2>1, <2>2, Zenon DEF Chain, Put
<1>3. ASSUME NEW m \in Nodes
      PROVE  Put(m, IF l.next[m] = Null THEN <<>> ELSE g[l.next[m]]) = g[m]
  <2>1. CASE ~In(m, N, s)
    <3>1. l.next[m] = Null
      BY <2>1 DEF Row, In
    <3>. QED BY <2>1, <3>1
  <2>2. ASSUME NEW i \in 1..(N - 1), m = s[i]
        PROVE  Put(m, IF l.next[m] = Null THEN <<>> ELSE g[l.next[m]]) = g[m]
    <3>1. l.next[m] = s[i + 1] /\ s[i + 1] \in Nodes /\ i + 1 \in 1..N /\ i \in 1..N
      BY <1>0, <2>2 DEF Row
    <3>2. /\ In(s[i], N, s) /\ Place(s[i], N, s) = i
          /\ In(s[i + 1], N, s) /\ Place(s[i + 1], N, s) = i + 1
      BY <3>1, PlaceIs
    <3>3. g[s[i + 1]] = Rest(N, s, i + 1) /\ g[m] = Rest(N, s, i)
      BY <2>2, <3>1, <3>2
    <3>4. Put(m, g[s[i + 1]]) = g[m]
      BY <1>0, <2>2, <3>3, RestStep
    <3>. QED BY <3>1, <3>4, ListAssumption
  <2>3. CASE N # 0 /\ m = s[N]
    <3>1. N \in 1..N /\ l.next[m] = Null
      BY <1>0, <2>3 DEF Row
    <3>2. In(s[N], N, s) /\ Place(s[N], N, s) = N
      BY <3>1, PlaceIs
    <3>3. g[m] = Rest(N, s, N)
      BY <2>3, <3>2
    <3>4. Rest(N, s, N) = Put(m, <<>>)
      BY <1>0, <2>3, RestLast
    <3>. QED BY <3>1, <3>3, <3>4
  <2>4. ASSUME NEW i \in 1..N, m = s[i] PROVE i \in 1..(N - 1) \/ (N # 0 /\ m = s[N])
    BY <1>0, <2>4
  <2>. HIDE DEF g
  <2>. QED BY <2>1, <2>2, <2>3, <2>4 DEF In
<1>4. g = D(g)
  BY <1>3
<1> HIDE DEF D, g
<1>5. F = D(F)
  BY <1>4, Zenon
<1> HIDE DEF F
<1>6. ASSUME NEW m \in Nodes
      PROVE  F[m] = Put(m, IF l.next[m] = Null THEN <<>> ELSE F[l.next[m]])
  BY <1>5, Zenon DEF D
<1>7. CASE N # 0
  <2> DEFINE S == {i \in 1..N : F[s[i]] = Rest(N, s, i)}
  <2>1. N \in S
    <3>1. N \in 1..N /\ s[N] \in Nodes /\ l.next[s[N]] = Null
      BY <1>0, <1>7 DEF Row
    <3>2. F[s[N]] = Put(s[N], <<>>)
      BY <1>6, <3>1
    <3>. QED BY <1>0, <1>7, <3>1, <3>2, RestLast
  <2>2. ASSUME NEW i \in 1..(N - 1), i + 1 \in S PROVE i \in S
    <3>1. /\ l.next[s[i]] = s[i + 1] /\ s[i] \in Nodes /\ s[i + 1] \in Nodes
          /\ i + 1 \in 1..N /\ i \in 1..N
      BY <1>0 DEF Row
    <3>2. F[s[i]] = Put(s[i], F[s[i + 1]])
      BY <1>6, <3>1, ListAssumption
    <3>3. F[s[i + 1]] = Rest(N, s, i + 1)
      BY <2>2
    <3>. QED BY <1>0, <3>1, <3>2, <3>3, RestStep
  <2> HIDE DEF S
  <2>3. 1..N \subseteq S
    BY <1>0, <2>1, <2>2, BackInduction
  <2>4. F[s[1]] = Rest(N, s, 1)
    BY <1>0, <1>7, <2>3 DEF S
  <2>5. Rest(N, s, 1) = s
    BY <1>0 DEF Rest
  <2>. QED BY <1>2, <1>7, <2>4, <2>5
<1>. QED BY <1>1, <1>7

\* The chain of a row is its nodes in order.
LEMMA RowMembers ==
    ASSUME NEW l, NEW N, NEW s, Row(l, N, s), NEW n
    PROVE  List_isIn(l, HeadIn(N, s), n) <=> In(n, N, s)
<1>1. DOMAIN s = 1..N
  BY DEF Row
<1>. QED BY <1>1, RowChain DEF List_isIn, In

\* The links of a row are in order.
LEMMA RowIsList ==
    ASSUME NEW l, NEW N, NEW s, Row(l, N, s)
    PROVE  IsList(l, HeadIn(N, s))
<1> DEFINE c == Chain(l, HeadIn(N, s))
<1>0. c = s
  BY RowChain
<1>1. c = s /\ N \in Nat /\ s \in [1..N -> Nodes]
  BY <1>0 DEF Row
<1>2. Len(s) = N
  BY <1>1
<1>3. HeadIn(N, s) = Null \/ l.pre[HeadIn(N, s)] = Null
  BY <1>1 DEF HeadIn, Row
<1>4. \A i \in 1..(N - 1) : l.pre[s[i + 1]] = s[i]
  <2> TAKE i \in 1..(N - 1)
  <2>1. i + 1 \in 1..N /\ i + 1 # 1 /\ (i + 1) - 1 = i
    BY <1>1
  <2>. QED BY <2>1 DEF Row
<1>5. ASSUME NEW n \in Nodes, ~List_isIn(l, HeadIn(N, s), n)
      PROVE  l.next[n] = Null /\ l.pre[n] = Null
  <2>1. ~In(n, N, s)
    BY <1>5, RowMembers
  <2>. QED BY <2>1 DEF Row, In
<1>. QED BY <1>1, <1>2, <1>3, <1>4, <1>5 DEF IsList

\* A cleared set of links is the row of no nodes.
LEMMA EmptyRow == Row(List_Init, 0, <<>>)
<1>1. <<>> \in [1..0 -> Nodes]
  OBVIOUS
<1>2. List_Init \in Links
  BY DEF List_Init, Links
<1>3. \A n \in Nodes : List_Init.next[n] = Null /\ List_Init.pre[n] = Null
  BY DEF List_Init
<1>. QED BY <1>1, <1>2, <1>3 DEF Row

\* Following m_pNext to its end finds the last node.
LEMMA RowTail ==
    ASSUME NEW l, NEW N, NEW s, Row(l, N, s), N # 0
    PROVE  Tail_of(l, s[1]) = s[N]
<1> DEFINE g == [m \in Nodes |-> IF In(m, N, s) THEN s[N] ELSE m]
           D(f) == [m \in Nodes |-> IF l.next[m] = Null THEN m ELSE f[l.next[m]]]
           F == CHOOSE f : f = D(f)
<1>0. N \in Nat /\ s \in [1..N -> Nodes] /\ N \in 1..N /\ 1 \in 1..N
  BY DEF Row
<1>1. Tail_of(l, s[1]) = F[s[1]]
  BY Zenon DEF Tail_of
<1>2. ASSUME NEW m \in Nodes
      PROVE  (IF l.next[m] = Null THEN m ELSE g[l.next[m]]) = g[m]
  <2>1. CASE ~In(m, N, s)
    <3>1. l.next[m] = Null
      BY <2>1 DEF Row, In
    <3>. QED BY <2>1, <3>1
  <2>2. ASSUME NEW i \in 1..(N - 1), m = s[i]
        PROVE  (IF l.next[m] = Null THEN m ELSE g[l.next[m]]) = g[m]
    <3>1. l.next[m] = s[i + 1] /\ s[i + 1] \in Nodes /\ i + 1 \in 1..N /\ i \in 1..N
      BY <1>0, <2>2 DEF Row
    <3>2. g[s[i + 1]] = s[N] /\ g[m] = s[N]
      BY <2>2, <3>1 DEF In
    <3>. QED BY <3>1, <3>2, ListAssumption
  <2>3. CASE m = s[N]
    <3>1. l.next[m] = Null
      BY <1>0, <2>3 DEF Row
    <3>. QED BY <1>0, <2>3, <3>1
  <2>4. ASSUME NEW i \in 1..N, m = s[i] PROVE i \in 1..(N - 1) \/ m = s[N]
    BY <1>0, <2>4
  <2>. HIDE DEF g
  <2>. QED BY <2>1, <2>2, <2>3, <2>4 DEF In
<1>3. g = D(g)
  BY <1>2
<1> HIDE DEF D, g
<1>4. F = D(F)
  BY <1>3, Zenon
<1> HIDE DEF F
<1>5. ASSUME NEW m \in Nodes
      PROVE  F[m] = IF l.next[m] = Null THEN m ELSE F[l.next[m]]
  BY <1>4, Zenon DEF D
<1> DEFINE S == {i \in 1..N : F[s[i]] = s[N]}
<1>6. N \in S
  BY <1>0, <1>5 DEF Row
<1>7. ASSUME NEW i \in 1..(N - 1), i + 1 \in S PROVE i \in S
  <2>1. /\ l.next[s[i]] = s[i + 1] /\ s[i] \in Nodes /\ s[i + 1] \in Nodes
        /\ i + 1 \in 1..N /\ i \in 1..N
    BY <1>0 DEF Row
  <2>2. F[s[i]] = F[s[i + 1]]
    BY <1>5, <2>1, ListAssumption
  <2>. QED BY <1>7, <2>1, <2>2
<1> HIDE DEF S
<1>8. 1..N \subseteq S
  BY <1>0, <1>6, <1>7, BackInduction
<1>. QED BY <1>0, <1>1, <1>8 DEF S

\* Adding a node at the tail appends it to the row.
LEMMA RowAdd ==
    ASSUME NEW l, NEW N, NEW s, Row(l, N, s), NEW n \in Nodes, ~In(n, N, s)
    PROVE  LET t == [i \in 1..(N + 1) |-> IF i = N + 1 THEN n ELSE s[i]]
               r == List_AddTail(l, HeadIn(N, s), n)
           IN  /\ Row(r.links, N + 1, t)
               /\ r.head = HeadIn(N + 1, t)
               /\ \A m : In(m, N + 1, t) <=> In(m, N, s) \/ m = n
<1> DEFINE t == [i \in 1..(N + 1) |-> IF i = N + 1 THEN n ELSE s[i]]
           r == List_AddTail(l, HeadIn(N, s), n)
<1>0. /\ N \in Nat /\ s \in [1..N -> Nodes] /\ n \in Nodes
      /\ l.next \in [Nodes -> Nodes \cup {Null}] /\ l.pre \in [Nodes -> Nodes \cup {Null}]
      /\ l = [next |-> l.next, pre |-> l.pre]
  BY DEF Row, Links
<1>1. l.next[n] = Null /\ l.pre[n] = Null /\ (\A i \in 1..N : s[i] # n)
  BY DEF Row, In
<1>2. /\ [l EXCEPT !.next[n] = Null] = l
      /\ [l EXCEPT !.next[n] = Null, !.pre[n] = Null] = l
  BY <1>0, <1>1
<1>3. t \in [1..(N + 1) -> Nodes] /\ t[N + 1] = n /\ (\A i \in 1..N : t[i] = s[i])
  BY <1>0
<1>4. HeadIn(N, s) = Null <=> N = 0
  BY <1>0, ListAssumption DEF HeadIn
<1>5. \A m : In(m, N + 1, t) <=> In(m, N, s) \/ m = n
  BY <1>0, <1>3 DEF In
<1>6. CASE N = 0
  <2>1. r = [links |-> l, head |-> n]
    BY <1>2, <1>4, <1>6 DEF List_AddTail
  <2>2. Row(l, N + 1, t)
    BY <1>0, <1>1, <1>3, <1>6 DEF Row
  <2>3. HeadIn(N + 1, t) = n
    BY <1>3, <1>6 DEF HeadIn
  <2>. QED BY <1>2, <1>4, <1>5, <2>1, <2>2, <2>3
<1>7. CASE N # 0
  <2> DEFINE k == [l EXCEPT !.next[s[N]] = n, !.pre[n] = s[N]]
  <2>1. N \in 1..N /\ s[N] \in Nodes /\ HeadIn(N, s) = s[1]
    BY <1>0, <1>7 DEF HeadIn
  <2>2. r = [links |-> k, head |-> s[1]]
    <3>1. Tail_of(l, s[1]) = s[N]
      BY <1>7, RowTail
    <3>2. HeadIn(N, s) # Null
      BY <1>4, <1>7
    <3>. QED BY <1>2, <2>1, <3>1, <3>2 DEF List_AddTail
  <2>3. /\ k \in Links
        /\ \A m \in Nodes : k.next[m] = IF m = s[N] THEN n ELSE l.next[m]
        /\ \A m \in Nodes : k.pre[m] = IF m = n THEN s[N] ELSE l.pre[m]
    BY <1>0, <2>1 DEF Links
  <2> HIDE DEF k
  <2>4. \A i, j \in 1..(N + 1) : t[i] = t[j] => i = j
    BY <1>0, <1>1, <1>3 DEF Row
  <2>5. ASSUME NEW i \in 1..(N + 1)
        PROVE  /\ k.next[t[i]] = IF i = N + 1 THEN Null ELSE t[i + 1]
               /\ k.pre[t[i]] = IF i = 1 THEN Null ELSE t[i - 1]
    <3>1. CASE i = N + 1
      BY <1>0, <1>1, <1>3, <1>7, <2>1, <2>3, <3>1
    <3>2. CASE i = N
      <4>1. /\ t[i] = s[N] /\ s[N] # n /\ t[i + 1] = n /\ i # N + 1 /\ i \in 1..N
            /\ l.pre[s[N]] = IF i = 1 THEN Null ELSE s[i - 1]
        BY <1>0, <1>1, <1>3, <2>1, <3>2 DEF Row
      <4>2. i # 1 => t[i - 1] = s[i - 1]
        BY <1>0, <1>3, <4>1
      <4>. QED BY <2>1, <2>3, <4>1, <4>2
    <3>3. CASE i \in 1..(N - 1)
      <4>1. /\ t[i] = s[i] /\ s[i] # n /\ i \in 1..N /\ i + 1 \in 1..N /\ t[i + 1] = s[i + 1]
            /\ s[i] # s[N] /\ s[i] \in Nodes
            /\ l.pre[s[i]] = IF i = 1 THEN Null ELSE s[i - 1]
            /\ l.next[s[i]] = s[i + 1]
        <5>1. i \in 1..N /\ i + 1 \in 1..N /\ i # N
          BY <1>0, <3>3
        <5>2. s[i] # s[N]
          BY <2>1, <5>1 DEF Row
        <5>3. l.next[s[i]] = s[i + 1] /\ l.pre[s[i]] = IF i = 1 THEN Null ELSE s[i - 1]
          BY <5>1 DEF Row
        <5>. HIDE DEF t
        <5>. QED BY <1>0, <1>1, <1>3, <5>1, <5>2, <5>3
      <4>2. i # 1 => t[i - 1] = s[i - 1]
        BY <1>0, <1>3, <4>1
      <4>3. i # N + 1
        BY <1>0, <3>3
      <4>. QED BY <2>1, <2>3, <4>1, <4>2, <4>3
    <3>. QED BY <1>0, <3>1, <3>2, <3>3
  <2>6. ASSUME NEW m \in Nodes, \A i \in 1..(N + 1) : t[i] # m
        PROVE  k.next[m] = Null /\ k.pre[m] = Null
    <3>1. m # n /\ m # s[N] /\ (\A i \in 1..N : s[i] # m)
      BY <1>0, <1>3, <2>1, <2>6
    <3>. QED BY <2>3, <3>1 DEF Row
  <2>7. Row(k, N + 1, t)
    BY <1>0, <1>3, <2>3, <2>4, <2>5, <2>6 DEF Row
  <2>8. HeadIn(N + 1, t) = s[1]
    BY <1>0, <1>3, <1>7 DEF HeadIn
  <2> HIDE DEF t
  <2>. QED BY <1>4, <1>5, <1>7, <2>2, <2>7, <2>8 DEF t
<1>. QED BY <1>6, <1>7

\* The links of a row with its k-th node bypassed: the ones beside it lead past
\* it, while its own still lead to them.
BypassedRow(b, N, s, k) ==
    /\ b \in Links
    /\ \A i \in 1..N :
         /\ b.next[s[i]] = IF i = N \/ (i = k - 1 /\ k = N) THEN Null
                           ELSE IF i = k - 1 THEN s[k + 1] ELSE s[i + 1]
         /\ b.pre[s[i]] = IF i = 1 \/ (i = k + 1 /\ k = 1) THEN Null
                          ELSE IF i = k + 1 THEN s[k - 1] ELSE s[i - 1]
    /\ \A n \in Nodes : ~In(n, N, s) => b.next[n] = Null /\ b.pre[n] = Null

\* The first part of List_Remove.
LEMMA RowBypassed ==
    ASSUME NEW l, NEW N, NEW s, Row(l, N, s), NEW k \in 1..N
    PROVE  BypassedRow(Bypassed(l, s[k]), N, s, k)
<1> DEFINE b == Bypassed(l, s[k])
<1>0. /\ N \in Nat /\ s \in [1..N -> Nodes] /\ k \in 1..N /\ s[k] \in Nodes
      /\ l.next \in [Nodes -> Nodes \cup {Null}] /\ l.pre \in [Nodes -> Nodes \cup {Null}]
  BY DEF Row, Links
<1>1. /\ l.next[s[k]] = IF k = N THEN Null ELSE s[k + 1]
      /\ l.pre[s[k]] = IF k = 1 THEN Null ELSE s[k - 1]
  BY DEF Row
<1>2. /\ b \in Links
      /\ \A m \in Nodes : b.next[m] = IF m = l.pre[s[k]] THEN l.next[s[k]] ELSE l.next[m]
      /\ \A m \in Nodes : b.pre[m] = IF m = l.next[s[k]] THEN l.pre[s[k]] ELSE l.pre[m]
  BY <1>0 DEF Bypassed, Links
<1> HIDE DEF b
<1>3. ASSUME NEW i \in 1..N
      PROVE  /\ b.next[s[i]] = IF i = N \/ (i = k - 1 /\ k = N) THEN Null
                               ELSE IF i = k - 1 THEN s[k + 1] ELSE s[i + 1]
             /\ b.pre[s[i]] = IF i = 1 \/ (i = k + 1 /\ k = 1) THEN Null
                              ELSE IF i = k + 1 THEN s[k - 1] ELSE s[i - 1]
  <2>1. /\ l.next[s[i]] = IF i = N THEN Null ELSE s[i + 1]
        /\ l.pre[s[i]] = IF i = 1 THEN Null ELSE s[i - 1]
        /\ s[i] \in Nodes /\ s[i] # Null
    BY <1>0, ListAssumption DEF Row
  <2>2. s[i] = l.pre[s[k]] <=> i = k - 1
    <3>1. CASE k = 1
      BY <1>0, <1>1, <2>1, <3>1
    <3>2. CASE k # 1
      <4>1. k - 1 \in 1..N /\ l.pre[s[k]] = s[k - 1]
        BY <1>0, <1>1, <3>2
      <4>. QED BY <4>1 DEF Row
    <3>. QED BY <3>1, <3>2
  <2>3. s[i] = l.next[s[k]] <=> i = k + 1
    <3>1. CASE k = N
      BY <1>0, <1>1, <2>1, <3>1
    <3>2. CASE k # N
      <4>1. k + 1 \in 1..N /\ l.next[s[k]] = s[k + 1]
        BY <1>0, <1>1, <3>2
      <4>. QED BY <4>1 DEF Row
    <3>. QED BY <3>1, <3>2
  <2>. QED BY <1>0, <1>1, <1>2, <2>1, <2>2, <2>3
<1>4. ASSUME NEW n \in Nodes, ~In(n, N, s) PROVE b.next[n] = Null /\ b.pre[n] = Null
  <2>1. /\ l.next[n] = Null /\ l.pre[n] = Null /\ n # Null
        /\ \A i \in 1..N : s[i] # n
    BY <1>4, ListAssumption DEF Row, In
  <2>2. n # l.pre[s[k]] /\ n # l.next[s[k]]
    BY <1>0, <1>1, <2>1
  <2>. QED BY <1>2, <2>1, <2>2
<1>. QED BY <1>2, <1>3, <1>4 DEF BypassedRow, b

\* Following m_pPre from a node that is being taken out finds the first node.
LEMMA RowHead ==
    ASSUME NEW l, NEW N, NEW s, Row(l, N, s), NEW k \in 2..N
    PROVE  Head_of(Bypassed(l, s[k]), s[k]) = s[1]
<1> DEFINE b == Bypassed(l, s[k])
           g == [m \in Nodes |-> IF In(m, N, s) THEN s[1] ELSE m]
           D(f) == [m \in Nodes |-> IF b.pre[m] = Null THEN m ELSE f[b.pre[m]]]
           F == CHOOSE f : f = D(f)
<1>0. N \in Nat /\ s \in [1..N -> Nodes] /\ 1 \in 1..N /\ k \in 1..N /\ k # 1
  BY DEF Row
<1>1. Head_of(b, s[k]) = F[s[k]]
  BY Zenon DEF Head_of
<1>2. /\ b \in Links
      /\ \A i \in 1..N :
           /\ b.next[s[i]] = IF i = N \/ (i = k - 1 /\ k = N) THEN Null
                             ELSE IF i = k - 1 THEN s[k + 1] ELSE s[i + 1]
           /\ b.pre[s[i]] = IF i = 1 \/ (i = k + 1 /\ k = 1) THEN Null
                            ELSE IF i = k + 1 THEN s[k - 1] ELSE s[i - 1]
      /\ \A n \in Nodes : ~In(n, N, s) => b.next[n] = Null /\ b.pre[n] = Null
  <2> HIDE DEF b, g, D, F
  <2>1. BypassedRow(b, N, s, k)
    BY <1>0, RowBypassed DEF b
  <2>. QED BY <2>1 DEF BypassedRow
<1> HIDE DEF b
<1>3. b.pre[s[1]] = Null
  BY <1>0, <1>2
<1>4. \A i \in 2..N : \E j \in 1..(i - 1) : b.pre[s[i]] = s[j] /\ j \in 1..N
  <2> HIDE DEF g, D, F
  <2> TAKE i \in 2..N
  <2>1. i \in 1..N /\ i # 1 /\ i - 1 \in 1..N /\ i - 1 \in 1..(i - 1)
    BY <1>0
  <2>2. b.pre[s[i]] = IF i = 1 \/ (i = k + 1 /\ k = 1) THEN Null
                      ELSE IF i = k + 1 THEN s[k - 1] ELSE s[i - 1]
    BY <1>2, <2>1
  <2>3. CASE i = k + 1
    <3>1. k - 1 \in 1..(i - 1) /\ k - 1 \in 1..N
      BY <1>0, <2>3
    <3>2. b.pre[s[i]] = s[k - 1]
      BY <1>0, <2>1, <2>2, <2>3
    <3>. QED BY <3>1, <3>2
  <2>4. CASE i # k + 1
    <3>1. b.pre[s[i]] = s[i - 1]
      BY <2>1, <2>2, <2>4
    <3>. QED BY <2>1, <3>1
  <2>. QED BY <2>3, <2>4
<1>5. ASSUME NEW m \in Nodes
      PROVE  (IF b.pre[m] = Null THEN m ELSE g[b.pre[m]]) = g[m]
  <2>1. CASE ~In(m, N, s)
    BY <1>2, <2>1
  <2>2. ASSUME NEW i \in 2..N, m = s[i]
        PROVE  (IF b.pre[m] = Null THEN m ELSE g[b.pre[m]]) = g[m]
    <3>1. PICK j \in 1..N : b.pre[s[i]] = s[j]
      BY <1>4
    <3>2. s[j] \in Nodes /\ In(s[j], N, s) /\ In(m, N, s)
      BY <1>0, <2>2 DEF In
    <3>. QED BY <2>2, <3>1, <3>2, ListAssumption
  <2>3. CASE m = s[1]
    BY <1>0, <1>3, <2>3
  <2>4. ASSUME NEW i \in 1..N, m = s[i] PROVE i \in 2..N \/ m = s[1]
    BY <1>0, <2>4
  <2>. HIDE DEF g
  <2>. QED BY <2>1, <2>2, <2>3, <2>4 DEF In
<1>6. g = D(g)
  BY <1>5
<1> HIDE DEF D, g
<1>7. F = D(F)
  BY <1>6, Zenon
<1> HIDE DEF F
<1>8. ASSUME NEW m \in Nodes
      PROVE  F[m] = IF b.pre[m] = Null THEN m ELSE F[b.pre[m]]
  BY <1>7, Zenon DEF D
<1> DEFINE S == {q \in Nat : \A i \in 1..N : i <= q => F[s[i]] = s[1]}
<1>9. 0 \in S
  OBVIOUS
<1>10. ASSUME NEW q \in Nat, q \in S PROVE q + 1 \in S
  <2> SUFFICES ASSUME NEW i \in 1..N, i = q + 1 PROVE F[s[i]] = s[1]
    BY <1>10
  <2>1. CASE i = 1
    BY <1>0, <1>3, <1>8, <2>1
  <2>2. CASE i # 1
    <3>1. i \in 2..N
      BY <1>0, <2>2
    <3>2. PICK j \in 1..(i - 1) : b.pre[s[i]] = s[j] /\ j \in 1..N
      BY <1>4, <3>1
    <3>3. s[i] \in Nodes /\ s[j] \in Nodes /\ s[j] # Null /\ j <= q
      BY <1>0, <3>2, ListAssumption
    <3>4. F[s[j]] = s[1]
      BY <1>10, <3>2, <3>3
    <3>. QED BY <1>8, <3>2, <3>3, <3>4
  <2>. QED BY <2>1, <2>2
<1> HIDE DEF S
<1>11. Nat \subseteq S
  BY <1>9, <1>10, SetInduction
<1>12. F[s[k]] = s[1]
  BY <1>0, <1>11 DEF S
<1>. QED BY <1>1, <1>12 DEF b

\* Taking the k-th node out leaves the others, in their order.
LEMMA RowRemove ==
    ASSUME NEW l, NEW N, NEW s, Row(l, N, s), NEW k \in 1..N
    PROVE  LET t == [i \in 1..(N - 1) |-> IF i < k THEN s[i] ELSE s[i + 1]]
               r == List_Remove(l, s[k])
           IN  /\ Row(r.links, N - 1, t)
               /\ r.head = HeadIn(N - 1, t)
               /\ \A m : In(m, N - 1, t) <=> In(m, N, s) /\ m # s[k]
<1> DEFINE t == [i \in 1..(N - 1) |-> IF i < k THEN s[i] ELSE s[i + 1]]
           r == List_Remove(l, s[k])
           b == Bypassed(l, s[k])
           c == [b EXCEPT !.next[s[k]] = Null, !.pre[s[k]] = Null]
           From(i) == IF i < k THEN i ELSE i + 1
<1>0. /\ N \in Nat /\ s \in [1..N -> Nodes] /\ k \in 1..N /\ s[k] \in Nodes
      /\ N - 1 \in Nat
      /\ l.next[s[k]] = IF k = N THEN Null ELSE s[k + 1]
      /\ l.pre[s[k]] = IF k = 1 THEN Null ELSE s[k - 1]
      /\ \A i, j \in 1..N : s[i] = s[j] => i = j
  BY DEF Row
<1>1. /\ b \in Links
      /\ \A i \in 1..N :
           /\ b.next[s[i]] = IF i = N \/ (i = k - 1 /\ k = N) THEN Null
                             ELSE IF i = k - 1 THEN s[k + 1] ELSE s[i + 1]
           /\ b.pre[s[i]] = IF i = 1 \/ (i = k + 1 /\ k = 1) THEN Null
                            ELSE IF i = k + 1 THEN s[k - 1] ELSE s[i - 1]
      /\ \A n \in Nodes : ~In(n, N, s) => b.next[n] = Null /\ b.pre[n] = Null
  <2> HIDE DEF b, r, t, c
  <2>1. BypassedRow(b, N, s, k)
    BY RowBypassed DEF b
  <2>. QED BY <2>1 DEF BypassedRow
<1>2. r.links = c /\ r.head = IF l.pre[s[k]] = Null THEN l.next[s[k]] ELSE Head_of(b, s[k])
  BY DEF List_Remove
<1> HIDE DEF b, r
<1>3. /\ c \in Links
      /\ \A m \in Nodes : c.next[m] = IF m = s[k] THEN Null ELSE b.next[m]
      /\ \A m \in Nodes : c.pre[m] = IF m = s[k] THEN Null ELSE b.pre[m]
  BY <1>0, <1>1 DEF Links
<1> HIDE DEF c
<1>4. \A i \in 1..(N - 1) : From(i) \in 1..N /\ From(i) # k /\ t[i] = s[From(i)]
  BY <1>0
<1>5. t \in [1..(N - 1) -> Nodes]
  BY <1>0
<1> HIDE DEF t
<1>6. \A i, j \in 1..(N - 1) : t[i] = t[j] => i = j
  BY <1>0, <1>4
<1>7. \A m : In(m, N - 1, t) <=> In(m, N, s) /\ m # s[k]
  <2> TAKE m
  <2>1. ASSUME NEW i \in 1..N, s[i] = m, m # s[k] PROVE In(m, N - 1, t)
    <3>1. CASE i < k
      <4>1. i \in 1..(N - 1) /\ From(i) = i
        BY <1>0, <3>1
      <4>. QED BY <1>4, <2>1, <4>1 DEF In
    <3>2. CASE ~(i < k)
      <4>1. i # k
        BY <2>1
      <4>2. i - 1 \in 1..(N - 1) /\ From(i - 1) = i
        BY <1>0, <3>2, <4>1
      <4>. QED BY <1>4, <2>1, <4>2 DEF In
    <3>. QED BY <3>1, <3>2
  <2>2. ASSUME NEW i \in 1..(N - 1), t[i] = m PROVE In(m, N, s) /\ m # s[k]
    BY <1>0, <1>4, <2>2 DEF In
  <2>. QED BY <2>1, <2>2 DEF In
<1>8. ASSUME NEW i \in 1..(N - 1)
      PROVE  /\ c.next[t[i]] = IF i = N - 1 THEN Null ELSE t[i + 1]
             /\ c.pre[t[i]] = IF i = 1 THEN Null ELSE t[i - 1]
  <2>1. /\ From(i) \in 1..N /\ t[i] = s[From(i)] /\ s[From(i)] # s[k] /\ t[i] \in Nodes
        /\ i # N - 1 => t[i + 1] = s[From(i + 1)]
        /\ i # 1 => t[i - 1] = s[From(i - 1)]
    BY <1>0, <1>4, <1>5
  <2>2. c.next[t[i]] = b.next[s[From(i)]] /\ c.pre[t[i]] = b.pre[s[From(i)]]
    BY <1>3, <2>1
  <2>3. CASE i < k
    <3>1. From(i) = i /\ i \in 1..N /\ i # N
      BY <1>0, <2>3
    <3>2. /\ b.next[s[i]] = IF i = k - 1 /\ k = N THEN Null
                            ELSE IF i = k - 1 THEN s[k + 1] ELSE s[i + 1]
          /\ b.pre[s[i]] = IF i = 1 THEN Null ELSE s[i - 1]
      <4>1. i # k + 1
        BY <1>0, <2>3
      <4> HIDE DEF From
      <4>. QED BY <1>1, <3>1, <4>1
    <3>3. /\ i = k - 1 => From(i + 1) = k + 1
          /\ i # k - 1 => From(i + 1) = i + 1
          /\ From(i - 1) = i - 1
          /\ i = N - 1 <=> (i = k - 1 /\ k = N)
      BY <1>0, <2>3
    <3>. QED BY <2>1, <2>2, <3>1, <3>2, <3>3
  <2>4. CASE ~(i < k)
    <3>1. From(i) = i + 1 /\ i + 1 \in 1..N /\ i + 1 # k - 1 /\ i + 1 # 1
      BY <1>0, <2>4
    <3>2. /\ b.next[s[i + 1]] = IF i + 1 = N THEN Null ELSE s[(i + 1) + 1]
          /\ b.pre[s[i + 1]] = IF i = k /\ k = 1 THEN Null
                               ELSE IF i = k THEN s[k - 1] ELSE s[(i + 1) - 1]
      <4>1. i + 1 = k + 1 <=> i = k
        BY <1>0
      <4>. QED BY <1>1, <3>1, <4>1
    <3>3. /\ From(i + 1) = (i + 1) + 1
          /\ i = k /\ i # 1 => From(i - 1) = k - 1
          /\ i # k /\ i # 1 => From(i - 1) = (i + 1) - 1
          /\ i = N - 1 <=> i + 1 = N
          /\ i # k => i # 1
      BY <1>0, <2>4
    <3>. QED BY <2>1, <2>2, <3>1, <3>2, <3>3
  <2>. QED BY <2>3, <2>4
<1>9. ASSUME NEW m \in Nodes, \A i \in 1..(N - 1) : t[i] # m
      PROVE  c.next[m] = Null /\ c.pre[m] = Null
  <2>1. ~In(m, N, s) \/ m = s[k]
    BY <1>7, <1>9 DEF In
  <2>. QED BY <1>1, <1>3, <1>9, <2>1
<1>10. Row(c, N - 1, t)
  BY <1>0, <1>3, <1>5, <1>6, <1>8, <1>9 DEF Row
<1>11. r.head = HeadIn(N - 1, t)
  <2>1. CASE k = 1
    <3>1. r.head = IF N = 1 THEN Null ELSE s[2]
      BY <1>0, <1>2, <2>1
    <3>2. N # 1 => t[1] = s[2]
      BY <1>0, <1>4, <2>1
    <3>. QED BY <1>0, <3>1, <3>2 DEF HeadIn
  <2>2. CASE k # 1
    <3>1. k \in 2..N /\ k - 1 \in 1..N /\ l.pre[s[k]] = s[k - 1] /\ s[k - 1] # Null
      BY <1>0, <2>2, ListAssumption
    <3>2. Head_of(b, s[k]) = s[1]
      BY <3>1, RowHead DEF b
    <3>3. t[1] = s[1] /\ N - 1 # 0
      BY <1>0, <1>4, <2>2
    <3>. QED BY <1>2, <3>1, <3>2, <3>3 DEF HeadIn
  <2>. QED BY <2>1, <2>2
<1>. QED BY <1>2, <1>7, <1>10, <1>11 DEF t, r
-----------------------------------------------------------------------------
\* The list that starts at head has the members M, and its links are in order.
ListOf(l, head, M) ==
    \E N, s : Row(l, N, s) /\ head = HeadIn(N, s) /\ \A m : In(m, N, s) <=> m \in M

\* What the users of a list read off it.
LEMMA ListReads ==
    ASSUME NEW l, NEW head, NEW M, ListOf(l, head, M)
    PROVE  /\ l \in Links /\ head \in M \cup {Null} /\ M \subseteq Nodes
           /\ IsList(l, head) /\ \A m : List_isIn(l, head, m) <=> m \in M
           /\ \A m \in M : l.next[m] \in M \cup {Null}
           /\ head = Null <=> M = {}
<1>1. PICK N, s : Row(l, N, s) /\ head = HeadIn(N, s) /\ \A m : In(m, N, s) <=> m \in M
  BY DEF ListOf
<1>2. /\ l \in Links /\ N \in Nat /\ s \in [1..N -> Nodes]
      /\ \A i \in 1..N : l.next[s[i]] = IF i = N THEN Null ELSE s[i + 1]
  BY <1>1 DEF Row
<1>3. IsList(l, head) /\ \A m : List_isIn(l, head, m) <=> m \in M
  BY <1>1, RowIsList, RowMembers
<1>4. \A i \in 1..N : s[i] \in M /\ s[i] \in Nodes /\ s[i] # Null
  BY <1>1, <1>2, ListAssumption DEF In
<1>5. M \subseteq Nodes
  BY <1>1, <1>2 DEF In
<1>6. ASSUME NEW m \in M PROVE l.next[m] \in M \cup {Null}
  <2>1. PICK i \in 1..N : s[i] = m
    BY <1>1 DEF In
  <2>2. i # N => i + 1 \in 1..N
    BY <1>2
  <2>. QED BY <1>2, <1>4, <2>1, <2>2
<1>7. head \in M \cup {Null} /\ (head = Null <=> M = {})
  <2>1. CASE N = 0
    <3>1. M = {}
      BY <1>1, <1>2, <2>1 DEF In
    <3>. QED BY <1>1, <2>1, <3>1 DEF HeadIn
  <2>2. CASE N # 0
    <3>1. 1 \in 1..N
      BY <1>2, <2>2
    <3>. QED BY <1>1, <1>4, <2>2, <3>1 DEF HeadIn
  <2>. QED BY <2>1, <2>2
<1>. QED BY <1>2, <1>3, <1>5, <1>6, <1>7

\* Before anything is added.
LEMMA EmptyList == ListOf(List_Init, Null, {})
<1>1. HeadIn(0, <<>>) = Null /\ \A m : ~In(m, 0, <<>>)
  BY DEF HeadIn, In
<1>. QED BY <1>1, EmptyRow DEF ListOf

\* A node that is not in the list has no links.
LEMMA ListLeavesFree ==
    ASSUME NEW l, NEW head, NEW M, ListOf(l, head, M), NEW n \in Nodes \ M
    PROVE  [l EXCEPT !.next[n] = Null, !.pre[n] = Null] = l
<1>1. PICK N, s : Row(l, N, s) /\ ~In(n, N, s)
  BY DEF ListOf
<1>2. l.next[n] = Null /\ l.pre[n] = Null
  BY <1>1 DEF Row, In
<1>3. /\ l.next \in [Nodes -> Nodes \cup {Null}] /\ l.pre \in [Nodes -> Nodes \cup {Null}]
      /\ l = [next |-> l.next, pre |-> l.pre]
  BY <1>1 DEF Row, Links
<1>. QED BY <1>2, <1>3

\* List_AddTail takes one more node in; in an empty list it has no link to set.
LEMMA ListAdds ==
    ASSUME NEW l, NEW head, NEW M, ListOf(l, head, M), NEW n \in Nodes \ M
    PROVE  /\ head = Null => ListOf(l, n, M \cup {n})
           /\ head # Null => ListOf(List_AddTail(l, head, n).links, head, M \cup {n})
<1>1. PICK N, s : Row(l, N, s) /\ head = HeadIn(N, s) /\ \A m : In(m, N, s) <=> m \in M
  BY DEF ListOf
<1> DEFINE t == [i \in 1..(N + 1) |-> IF i = N + 1 THEN n ELSE s[i]]
           r == List_AddTail(l, HeadIn(N, s), n)
<1>2. Row(l, N, s) /\ n \in Nodes /\ ~In(n, N, s)
  BY <1>1
<1>3. /\ Row(r.links, N + 1, t)
      /\ r.head = HeadIn(N + 1, t)
      /\ \A m : In(m, N + 1, t) <=> In(m, N, s) \/ m = n
  BY <1>2, RowAdd
<1>4. r = List_AddTail(l, head, n) /\ r.head = IF head = Null THEN n ELSE head
  BY <1>1 DEF List_AddTail
<1>5. head = Null => r.links = l
  <2>1. [l EXCEPT !.next[n] = Null, !.pre[n] = Null] = l
    BY ListLeavesFree
  <2>. QED BY <2>1, <1>1 DEF List_AddTail
<1>6. \A m : In(m, N + 1, t) <=> m \in M \cup {n}
  BY <1>1, <1>3
<1> HIDE DEF t, r
<1>7. ListOf(r.links, r.head, M \cup {n})
  BY <1>3, <1>6 DEF ListOf
<1>. QED BY <1>4, <1>5, <1>7

\* List_Remove takes one of the nodes out, wherever it is.
LEMMA ListRemoves ==
    ASSUME NEW l, NEW head, NEW M, ListOf(l, head, M), NEW n \in M
    PROVE  ListOf(List_Remove(l, n).links, List_Remove(l, n).head, M \ {n})
<1>1. PICK N, s : Row(l, N, s) /\ head = HeadIn(N, s) /\ \A m : In(m, N, s) <=> m \in M
  BY DEF ListOf
<1>2. PICK k \in 1..N : s[k] = n
  BY <1>1 DEF In
<1> DEFINE t == [i \in 1..(N - 1) |-> IF i < k THEN s[i] ELSE s[i + 1]]
           r == List_Remove(l, s[k])
<1>3. /\ Row(r.links, N - 1, t)
      /\ r.head = HeadIn(N - 1, t)
      /\ \A m : In(m, N - 1, t) <=> In(m, N, s) /\ m # s[k]
  BY <1>1, RowRemove
<1>4. \A m : In(m, N - 1, t) <=> m \in M \ {n}
  BY <1>1, <1>2, <1>3
<1> HIDE DEF t, r
<1>5. ListOf(r.links, r.head, M \ {n})
  BY <1>3, <1>4 DEF ListOf
<1>. QED BY <1>2, <1>5 DEF r
=============================================================================
