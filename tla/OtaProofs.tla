----------------------------- MODULE OtaProofs ------------------------------
(***************************************************************************)
(* A request that the dialog posts finds the slot of the manager free, for  *)
(* every file and payload, any number of transmissions, faults and clicks,  *)
(* and whatever bytes the line leaves of the frames.  The parser and the    *)
(* handling of packets go through what comes byte by byte and packet by     *)
(* packet, so this takes induction along both.                              *)
(***************************************************************************)
EXTENDS OtaDownload, SequenceTheorems, WellFoundedInduction, TLAPS

\* A sequence, whatever its elements are.
IsSeq(s) == s \in Seq({s[i] : i \in DOMAIN s})

\* A line holds frames, sequences of bytes.
IsLine(l) == IsSeq(l) /\ \A i \in 1..Len(l) : IsSeq(l[i])
-----------------------------------------------------------------------------
\* A sequence over a set is a sequence.
LEMMA SeqIs ==
    ASSUME NEW S, NEW s \in Seq(S)
    PROVE  IsSeq(s) /\ Len(s) \in Nat /\ DOMAIN s = 1..Len(s)
<1>1. /\ Len(s) \in Nat /\ DOMAIN s = 1..Len(s) /\ s = [i \in 1..Len(s) |-> s[i]]
      /\ \A i \in 1..Len(s) : s[i] \in S
  OBVIOUS
<1> DEFINE U == {s[i] : i \in DOMAIN s}
<1>2. \A i \in 1..Len(s) : s[i] \in U
  BY <1>1
<1> HIDE DEF U
<1>3. s \in Seq(U)
  BY <1>1, <1>2
<1>. QED BY <1>1, <1>3 DEF IsSeq, U

\* Its length is a number, and its indices go up to it.
LEMMA IsLen ==
    ASSUME NEW s, IsSeq(s) PROVE Len(s) \in Nat /\ DOMAIN s = 1..Len(s)
<1> DEFINE U == {s[i] : i \in DOMAIN s}
<1>1. s \in Seq(U)
  BY DEF IsSeq
<1> HIDE DEF U
<1>. QED BY <1>1

\* Appending an element keeps a sequence one.
LEMMA AppendIs ==
    ASSUME NEW s, IsSeq(s), NEW e
    PROVE  /\ IsSeq(Append(s, e)) /\ Len(Append(s, e)) = Len(s) + 1
           /\ Append(s, e)[Len(s) + 1] = e
           /\ \A i \in 1..Len(s) : Append(s, e)[i] = s[i]
<1> DEFINE U == {s[i] : i \in DOMAIN s}
           W == U \cup {e}
<1>1. s \in Seq(U)
  BY DEF IsSeq
<1> HIDE DEF U
<1>2. s \in Seq(W) /\ e \in W
  BY <1>1
<1> HIDE DEF W
<1>3. Append(s, e) \in Seq(W)
  BY <1>2
<1>4. /\ Len(Append(s, e)) = Len(s) + 1 /\ Append(s, e)[Len(s) + 1] = e
      /\ \A i \in 1..Len(s) : Append(s, e)[i] = s[i]
  BY <1>2
<1>. QED BY <1>3, <1>4, SeqIs

\* Two sequences in a row are one.
LEMMA ConcatIs ==
    ASSUME NEW s, IsSeq(s), NEW t, IsSeq(t)
    PROVE  /\ IsSeq(s \o t) /\ Len(s \o t) = Len(s) + Len(t)
           /\ \A i \in 1..Len(s) + Len(t) :
                  (s \o t)[i] = IF i <= Len(s) THEN s[i] ELSE t[i - Len(s)]
<1> DEFINE U == {s[i] : i \in DOMAIN s}
           V == {t[i] : i \in DOMAIN t}
           W == U \cup V
<1>1. s \in Seq(U) /\ t \in Seq(V)
  BY DEF IsSeq
<1> HIDE DEF U, V
<1>2. s \in Seq(W) /\ t \in Seq(W)
  BY <1>1
<1> HIDE DEF W
<1>3. s \o t \in Seq(W)
  BY <1>2
<1>4. /\ Len(s \o t) = Len(s) + Len(t)
      /\ \A i \in 1..Len(s) + Len(t) :
                  (s \o t)[i] = IF i <= Len(s) THEN s[i] ELSE t[i - Len(s)]
  BY <1>2
<1>. QED BY <1>3, <1>4, SeqIs

\* A slice of a sequence is one, and empty if it ends before it begins.
LEMMA SubSeqIs ==
    ASSUME NEW s, IsSeq(s), NEW a \in Nat \ {0}, NEW b \in Int, b <= Len(s)
    PROVE  /\ IsSeq(SubSeq(s, a, b))
           /\ Len(SubSeq(s, a, b)) = IF a <= b THEN b - a + 1 ELSE 0
           /\ \A i \in 1..(b - a + 1) : SubSeq(s, a, b)[i] = s[a + i - 1]
<1> DEFINE U == {s[i] : i \in DOMAIN s}
<1>1. s \in Seq(U)
  BY DEF IsSeq
<1> HIDE DEF U
<1>2. \A i \in a..b : s[i] \in U
  BY <1>1
<1>3. /\ SubSeq(s, a, b) \in Seq(U)
      /\ Len(SubSeq(s, a, b)) = IF a <= b THEN b - a + 1 ELSE 0
      /\ \A i \in 1..(b - a + 1) : SubSeq(s, a, b)[i] = s[a + i - 1]
  BY <1>1, <1>2, SubSeqProperties
<1>. QED BY <1>3, SeqIs

\* What is left of a sequence without its first element.
LEMMA TailIs ==
    ASSUME NEW s, IsSeq(s), s # <<>>
    PROVE  /\ Len(s) >= 1 /\ IsSeq(Tail(s)) /\ Len(Tail(s)) = Len(s) - 1
           /\ \A i \in 1..(Len(s) - 1) : Tail(s)[i] = s[i + 1]
<1> DEFINE U == {s[i] : i \in DOMAIN s}
<1>1. s \in Seq(U)
  BY DEF IsSeq
<1> HIDE DEF U
<1>2. /\ Len(s) >= 1 /\ Tail(s) \in Seq(U) /\ Len(Tail(s)) = Len(s) - 1
      /\ \A i \in 1..(Len(s) - 1) : Tail(s)[i] = s[i + 1]
  BY <1>1
<1>. QED BY <1>2, SeqIs

\* Short tuples are sequences.
LEMMA TuplesAre ==
    /\ IsSeq(<<>>) /\ Len(<<>>) = 0
    /\ \A a : IsSeq(<<a>>) /\ Len(<<a>>) = 1 /\ <<a>>[1] = a
    /\ \A a, b : IsSeq(<<a, b>>) /\ Len(<<a, b>>) = 2
    /\ \A a, b, c : IsSeq(<<a, b, c>>)
<1>1. IsSeq(<<>>) /\ Len(<<>>) = 0
  <2>1. <<>> \in Seq({}) /\ Len(<<>>) = 0
    OBVIOUS
  <2>. QED BY <2>1, SeqIs
<1>2. ASSUME NEW a PROVE IsSeq(<<a>>) /\ Len(<<a>>) = 1 /\ <<a>>[1] = a
  <2>1. <<a>> \in Seq({a})
    OBVIOUS
  <2>. QED BY <2>1, SeqIs
<1>3. ASSUME NEW a, NEW b PROVE IsSeq(<<a, b>>) /\ Len(<<a, b>>) = 2
  <2>1. <<a, b>> \in Seq({a, b})
    OBVIOUS
  <2>. QED BY <2>1, SeqIs
<1>4. ASSUME NEW a, NEW b, NEW c PROVE IsSeq(<<a, b, c>>)
  <2>1. <<a, b, c>> \in Seq({a, b, c})
    OBVIOUS
  <2>. QED BY <2>1, SeqIs
<1>. QED BY <1>1, <1>2, <1>3, <1>4

\* A sequence that loses an element is one, of elements it had.
LEMMA RemoveAtIs ==
    ASSUME NEW s, IsSeq(s), NEW k \in DOMAIN s
    PROVE  /\ IsSeq(RemoveAt(s, k)) /\ Len(RemoveAt(s, k)) = Len(s) - 1
           /\ \A i \in 1..(Len(s) - 1) : \E j \in 1..Len(s) : RemoveAt(s, k)[i] = s[j]
<1> DEFINE u == SubSeq(s, 1, k - 1)
           v == SubSeq(s, k + 1, Len(s))
<1>1. Len(s) \in Nat /\ k \in 1..Len(s)
  BY IsLen
<1>2. IsSeq(u) /\ Len(u) = k - 1 /\ \A i \in 1..(k - 1) : u[i] = s[i]
  <2>1. k - 1 \in Int /\ k - 1 <= Len(s) /\ 1 \in Nat \ {0} /\ k - 1 - 1 + 1 = k - 1
        /\ (IF 1 <= k - 1 THEN k - 1 - 1 + 1 ELSE 0) = k - 1
        /\ \A i \in 1..(k - 1) : 1 + i - 1 = i
    BY <1>1
  <2>. QED BY <2>1, SubSeqIs
<1>3. IsSeq(v) /\ Len(v) = Len(s) - k /\ \A i \in 1..(Len(s) - k) : v[i] = s[k + i]
  <2> DEFINE l == Len(s)
             b == k + 1
  <2>1. b \in Nat \ {0} /\ l \in Int /\ l <= Len(s) /\ l - b + 1 = l - k
        /\ (IF b <= l THEN l - b + 1 ELSE 0) = l - k
        /\ \A i \in 1..(l - k) : b + i - 1 = k + i
    BY <1>1
  <2> HIDE DEF l, b
  <2>2. /\ IsSeq(SubSeq(s, b, l)) /\ Len(SubSeq(s, b, l)) = (IF b <= l THEN l - b + 1 ELSE 0)
        /\ \A i \in 1..(l - b + 1) : SubSeq(s, b, l)[i] = s[b + i - 1]
    BY <2>1, SubSeqIs
  <2>3. /\ IsSeq(SubSeq(s, b, l)) /\ Len(SubSeq(s, b, l)) = l - k
        /\ \A i \in 1..(l - k) : SubSeq(s, b, l)[i] = s[k + i]
    BY <2>1, <2>2
  <2>. QED BY <2>3 DEF l, b
<1> HIDE DEF u, v
<1>4. /\ IsSeq(u \o v) /\ Len(u \o v) = Len(u) + Len(v)
      /\ \A i \in 1..Len(u) + Len(v) :
            (u \o v)[i] = IF i <= Len(u) THEN u[i] ELSE v[i - Len(u)]
  BY <1>2, <1>3, ConcatIs
<1>5. ASSUME NEW i \in 1..(Len(s) - 1) PROVE \E j \in 1..Len(s) : (u \o v)[i] = s[j]
  <2>1. CASE i <= k - 1
    <3>1. i \in 1..(k - 1) /\ i \in 1..Len(u) + Len(v) /\ i <= Len(u) /\ i \in 1..Len(s)
      BY <1>1, <1>2, <1>3, <2>1
    <3>2. (u \o v)[i] = s[i]
      BY <1>2, <1>4, <3>1
    <3>. QED BY <3>1, <3>2
  <2>2. CASE ~(i <= k - 1)
    <3>1. i - (k - 1) \in 1..(Len(s) - k) /\ k + (i - (k - 1)) = i + 1 /\ i + 1 \in 1..Len(s)
      BY <1>1, <2>2
    <3>2. i \in 1..Len(u) + Len(v) /\ ~(i <= Len(u)) /\ Len(u) = k - 1
      BY <1>1, <1>2, <1>3, <2>2
    <3>3. (u \o v)[i] = v[i - (k - 1)]
      BY <1>4, <3>2
    <3>4. (u \o v)[i] = s[i + 1]
      BY <1>3, <3>1, <3>3
    <3>. QED BY <3>1, <3>4
  <2>. QED BY <1>1, <2>1, <2>2
<1>6. Len(u \o v) = Len(s) - 1
  BY <1>1, <1>2, <1>3, <1>4
<1>7. RemoveAt(s, k) = u \o v
  BY DEF RemoveAt, u, v
<1>. QED BY <1>4, <1>5, <1>6, <1>7
-----------------------------------------------------------------------------
\* A set of naturals with 0 and every successor holds them all.
LEMMA SetInduction ==
    ASSUME NEW S, 0 \in S, \A n \in Nat : n \in S => n + 1 \in S
    PROVE  Nat \subseteq S
<1> DEFINE T == {n \in Nat : n \notin S}
           R == OpToRel(<, Nat)
<1>1. IsWellFoundedOn(R, Nat)
  BY NatLessThanWellFounded
<1>2. \A x, y \in Nat : y < x => <<y, x>> \in R
  BY DEF OpToRel
<1> SUFFICES ASSUME T # {} PROVE FALSE
  OBVIOUS
<1> HIDE DEF R
<1>3. T \subseteq Nat /\ T # {}
  OBVIOUS
<1> HIDE DEF T
<1>4. \E x \in T : \A y \in T : ~ (<<y, x>> \in R)
  BY <1>1, <1>3, WFMin
<1>5. PICK x \in T : \A y \in T : ~ (<<y, x>> \in R)
  BY <1>4
<1>6. x \in Nat /\ x \notin S
  BY <1>3 DEF T
<1>7. x # 0
  BY <1>6
<1>8. x - 1 \in Nat /\ x - 1 < x /\ (x - 1) + 1 = x
  BY <1>6, <1>7
<1>9. x - 1 \in T
  BY <1>6, <1>8 DEF T
<1>. QED BY <1>2, <1>5, <1>6, <1>8, <1>9

\* All bytes of a line, frame after frame, are a sequence: by induction on the
\* number of frames.
LEMMA FlattenedIs ==
    ASSUME NEW l, IsLine(l) PROVE IsSeq(FlattenSeq(l))
<1> DEFINE n == Len(l)
           Flat(m, f) == [i \in 1..m |-> IF i = 1 THEN l[i] ELSE f[i - 1] \o l[i]]
           S == {m \in Nat : \E f : f = Flat(m, f)}
           F == CHOOSE f : f = Flat(n, f)
           T == {m \in Nat : m + 1 <= n => IsSeq(F[m + 1])}
<1>1. n \in Nat /\ IsSeq(l) /\ \A i \in 1..n : IsSeq(l[i])
  BY IsLen DEF IsLine
<1>2. CASE n = 0
  BY <1>1, <1>2 DEF FlattenSeq
<1>3. CASE n # 0
  <2>1. FlattenSeq(l) = F[n]
    BY <1>3, Zenon DEF FlattenSeq
  <2>2. 0 \in S
    <3> DEFINE f == [i \in 1..0 |-> 0]
    <3>1. \A i \in 1..0 : FALSE
      OBVIOUS
    <3>2. f = Flat(0, f)
      BY <3>1
    <3>. QED BY <3>2, Zenon
  <2>3. ASSUME NEW m \in Nat, m \in S PROVE m + 1 \in S
    <3>1. PICK f : f = Flat(m, f)
      BY <2>3
    <3>2. \A i \in 1..m : f[i] = IF i = 1 THEN l[i] ELSE f[i - 1] \o l[i]
      BY <3>1, Zenon
    <3> DEFINE g == [i \in 1..(m + 1) |->
                       IF i = m + 1 THEN IF i = 1 THEN l[i] ELSE f[m] \o l[i] ELSE f[i]]
    <3>3. ASSUME NEW i \in 1..(m + 1)
          PROVE  g[i] = IF i = 1 THEN l[i] ELSE g[i - 1] \o l[i]
      <4>1. CASE i = m + 1
        <5>1. i # 1 => m \in 1..(m + 1) /\ m # m + 1 /\ i - 1 = m
          BY <4>1
        <5>2. i # 1 => g[m] = f[m] /\ g[i] = f[m] \o l[i]
          BY <4>1, <5>1
        <5>3. i = 1 => g[i] = l[i]
          BY <4>1
        <5>. QED BY <5>1, <5>2, <5>3
      <4>2. CASE i # m + 1
        <5>1. i \in 1..m /\ g[i] = f[i]
          BY <4>2
        <5>2. i # 1 => i - 1 \in 1..(m + 1) /\ i - 1 # m + 1
          OBVIOUS
        <5>3. i # 1 => g[i - 1] = f[i - 1]
          BY <5>2
        <5>. QED BY <3>2, <5>1, <5>3
      <4>. QED BY <4>1, <4>2
    <3>4. g = [i \in 1..(m + 1) |-> g[i]]
      OBVIOUS
    <3> HIDE DEF g
    <3>5. g = Flat(m + 1, g)
      BY <3>3, <3>4, Zenon
    <3>6. m + 1 \in Nat
      OBVIOUS
    <3>. QED BY <3>5, <3>6, Zenon
  <2> HIDE DEF S
  <2>4. n \in S
    BY <1>1, <2>2, <2>3, SetInduction
  <2>5. F = Flat(n, F)
    BY <2>4, Zenon DEF S
  <2> HIDE DEF F
  <2>6. \A i \in 1..n : F[i] = IF i = 1 THEN l[i] ELSE F[i - 1] \o l[i]
    BY <2>5, Zenon
  <2>7. 0 \in T
    BY <1>1, <2>6
  <2>8. ASSUME NEW m \in Nat, m \in T PROVE m + 1 \in T
    <3> SUFFICES ASSUME m + 1 + 1 <= n PROVE IsSeq(F[m + 1 + 1])
      OBVIOUS
    <3>1. m + 1 + 1 \in 1..n /\ m + 1 + 1 # 1 /\ (m + 1 + 1) - 1 = m + 1 /\ m + 1 <= n
      BY <1>1
    <3>2. F[m + 1 + 1] = F[m + 1] \o l[m + 1 + 1]
      BY <2>6, <3>1
    <3>3. IsSeq(F[m + 1]) /\ IsSeq(l[m + 1 + 1])
      BY <1>1, <2>8, <3>1
    <3>. QED BY <3>2, <3>3, ConcatIs
  <2> HIDE DEF T
  <2>9. Nat \subseteq T
    BY <2>7, <2>8, SetInduction
  <2>10. n - 1 \in Nat /\ n - 1 + 1 = n
    BY <1>1, <1>3
  <2>11. n - 1 \in T
    BY <2>9, <2>10
  <2>. QED BY <2>1, <2>10, <2>11 DEF T
<1>. QED BY <1>2, <1>3
-----------------------------------------------------------------------------
\* Lines of no frame and of one.
LEMMA ShortLines == IsLine(<<>>) /\ \A f : IsSeq(f) => IsLine(<<f>>)
<1>1. IsLine(<<>>)
  BY TuplesAre DEF IsLine
<1>2. ASSUME NEW f, IsSeq(f) PROVE IsLine(<<f>>)
  <2>1. IsSeq(<<f>>) /\ Len(<<f>>) = 1 /\ <<f>>[1] = f
    BY TuplesAre
  <2>2. \A i \in 1..1 : i = 1
    OBVIOUS
  <2>. QED BY <1>2, <2>1, <2>2 DEF IsLine
<1>. QED BY <1>1, <1>2

\* Frames behind other frames.
LEMMA LineConcat ==
    ASSUME NEW k, IsLine(k), NEW l, IsLine(l) PROVE IsLine(k \o l)
<1>1. IsSeq(k) /\ Len(k) \in Nat /\ IsSeq(l) /\ Len(l) \in Nat
  BY IsLen DEF IsLine
<1>2. /\ IsSeq(k \o l) /\ Len(k \o l) = Len(k) + Len(l)
      /\ \A i \in 1..Len(k) + Len(l) :
            (k \o l)[i] = IF i <= Len(k) THEN k[i] ELSE l[i - Len(k)]
  BY <1>1, ConcatIs
<1>3. ASSUME NEW i \in 1..Len(k) + Len(l) PROVE IsSeq((k \o l)[i])
  <2>1. CASE i <= Len(k)
    <3>1. i \in 1..Len(k)
      BY <1>1, <2>1
    <3>. QED BY <1>2, <2>1, <3>1 DEF IsLine
  <2>2. CASE ~(i <= Len(k))
    <3>1. i - Len(k) \in 1..Len(l)
      BY <1>1, <2>2
    <3>. QED BY <1>2, <2>2, <3>1 DEF IsLine
  <2>. QED BY <2>1, <2>2
<1>. QED BY <1>2, <1>3 DEF IsLine

\* The first frame of a line, and the others.
LEMMA LineRest ==
    ASSUME NEW l, IsLine(l), l # <<>>
    PROVE  IsSeq(Head(l)) /\ IsLine(Tail(l))
<1>1. IsSeq(l) /\ Len(l) \in Nat
  BY IsLen DEF IsLine
<1>2. /\ Len(l) >= 1 /\ IsSeq(Tail(l)) /\ Len(Tail(l)) = Len(l) - 1
      /\ \A i \in 1..(Len(l) - 1) : Tail(l)[i] = l[i + 1]
  BY <1>1, TailIs
<1>3. 1 \in 1..Len(l) /\ \A i \in 1..(Len(l) - 1) : i + 1 \in 1..Len(l)
  BY <1>1, <1>2
<1>4. Head(l) = l[1]
  <2> DEFINE U == {l[i] : i \in DOMAIN l}
  <2>1. l \in Seq(U)
    BY <1>1 DEF IsSeq
  <2> HIDE DEF U
  <2>. QED BY <2>1
<1>. QED BY <1>2, <1>3, <1>4 DEF IsLine

\* A line that loses a frame or a byte is a line of frames still.
LEMMA LineLost ==
    ASSUME NEW l, IsLine(l), NEW k \in Lossy(l) PROVE IsLine(k)
<1>1. IsSeq(l) /\ Len(l) \in Nat /\ DOMAIN l = 1..Len(l)
  BY IsLen DEF IsLine
<1>2. PICK i \in DOMAIN l :
        k \in {RemoveAt(l, i)} \cup {[l EXCEPT ![i] = RemoveAt(@, j)] : j \in DOMAIN l[i]}
  BY DEF Lossy
<1>3. CASE k = RemoveAt(l, i)
  BY <1>1, <1>3, RemoveAtIs DEF IsLine
<1>4. ASSUME NEW j \in DOMAIN l[i], k = [l EXCEPT ![i] = RemoveAt(@, j)] PROVE IsLine(k)
  <2> DEFINE f == RemoveAt(l[i], j)
             U == {l[m] : m \in DOMAIN l}
             W == U \cup {f}
  <2>1. IsSeq(l[i])
    BY <1>1 DEF IsLine
  <2>2. IsSeq(f)
    BY <1>4, <2>1, RemoveAtIs
  <2> HIDE DEF f
  <2>3. l \in Seq(U)
    BY <1>1 DEF IsSeq
  <2> HIDE DEF U
  <2>4. l \in Seq(W) /\ f \in W
    BY <2>3
  <2> HIDE DEF W
  <2>5. k = [l EXCEPT ![i] = f]
    BY <1>4 DEF f
  <2>6. k \in Seq(W) /\ Len(k) = Len(l) /\ \A m \in 1..Len(l) : k[m] = IF m = i THEN f ELSE l[m]
    BY <1>1, <2>4, <2>5
  <2>. QED BY <2>2, <2>6, SeqIs DEF IsLine
<1>. QED BY <1>2, <1>3, <1>4

\* And so is one that takes frames, or is full or closed (OnTxData).
LEMMA LineTakes ==
    ASSUME NEW l, IsLine(l), NEW k, IsLine(k) PROVE IsLine(Line(l, k))
BY LineConcat DEF Line
-----------------------------------------------------------------------------
\* A packet, and a manager, whatever their numbers and payloads are.
IsPacket(p) == DOMAIN p = {"seq", "control", "cmd", "data"} /\ IsSeq(p.data)

IsManager(m) ==
    /\ DOMAIN m = {"getHead", "rxSeq", "len", "buff", "seq", "req", "rsp"}
    /\ DOMAIN m.req = {"state", "pkt", "tx", "max", "late"}
    /\ IsPacket(m.req.pkt) /\ IsSeq(m.buff)

\* What parsing leaves of manager m, and the packets it received.
Parsed(r, m) ==
    /\ IsManager(r.m) /\ r.m.req = m.req
    /\ IsSeq(r.pkts) /\ \A i \in 1..Len(r.pkts) : IsPacket(r.pkts[i])

\* The frame of a packet with a payload is a sequence of bytes (UtpMgr_Packet).
LEMMA FrameIs ==
    ASSUME NEW p, IsSeq(p.data) PROVE IsSeq(UtpMgr_Packet(p))
<1> DEFINE payload == <<p.control, p.cmd>> \o p.data
           head == <<HEAD_KEY, p.seq, Len(payload)>>
           end == <<Crc_Get(payload), TAIL_KEY>>
<1>1. IsSeq(payload) /\ IsSeq(head) /\ IsSeq(end)
  BY TuplesAre, ConcatIs
<1>2. UtpMgr_Packet(p) = head \o payload \o end
  BY DEF UtpMgr_Packet
<1> HIDE DEF payload, head, end
<1>3. IsSeq(head \o payload)
  BY <1>1, ConcatIs
<1>. QED BY <1>1, <1>2, <1>3, ConcatIs

\* What is in the buffer of the parser makes a packet.
LEMMA ReceivedIs ==
    ASSUME NEW m, IsManager(m) PROVE IsPacket(Received(m))
<1>1. IsSeq(m.buff) /\ Len(m.buff) \in Nat
  BY IsLen DEF IsManager
<1>2. IsSeq(SubSeq(m.buff, 5, Len(m.buff)))
  <2> DEFINE a == 5
             b == Len(m.buff)
  <2>1. a \in Nat \ {0} /\ b \in Int /\ b <= Len(m.buff)
    BY <1>1
  <2> HIDE DEF a, b
  <2>2. IsSeq(SubSeq(m.buff, a, b))
    BY <1>1, <2>1, SubSeqIs
  <2>. QED BY <2>2 DEF a, b
<1>. QED BY <1>2 DEF IsPacket, Received

\* One byte does not touch the request, and what it completes is a packet.
LEMMA ByteParsed ==
    ASSUME NEW m, NEW m0, NEW pkts, NEW b, Parsed([m |-> m, pkts |-> pkts], m0)
    PROVE  Parsed(ParseByte(m, pkts, b), m0)
<1>1. /\ IsManager(m) /\ m.req = m0.req
      /\ IsSeq(pkts) /\ \A i \in 1..Len(pkts) : IsPacket(pkts[i])
  BY DEF Parsed
<1>2. IsSeq(<<>>) /\ IsSeq(Append(m.buff, b))
  BY <1>1, TuplesAre, AppendIs DEF IsManager
<1>3. IsManager(UtpMgr_Reset(m)) /\ UtpMgr_Reset(m).req = m0.req
  BY <1>1, <1>2 DEF IsManager, UtpMgr_Reset
<1>4. CASE ~m.getHead /\ b = HEAD_KEY
  <2> DEFINE n == [m EXCEPT !.getHead = TRUE, !.rxSeq = FALSE, !.len = 0, !.buff = <<>>]
  <2>1. IsManager(n) /\ n.req = m0.req
    BY <1>1, <1>2 DEF IsManager
  <2> HIDE DEF n
  <2>2. ParseByte(m, pkts, b) = [m |-> n, pkts |-> pkts]
    BY <1>4 DEF ParseByte, Filled, n
  <2>. QED BY <1>1, <2>1, <2>2 DEF Parsed
<1>5. CASE ~m.getHead /\ b # HEAD_KEY
  <2>1. ParseByte(m, pkts, b) = [m |-> m, pkts |-> pkts]
    BY <1>5 DEF ParseByte, Filled
  <2>. QED BY <1>1, <2>1 DEF Parsed
<1>6. CASE m.getHead /\ m.rxSeq /\ m.len = 0
  <2> DEFINE n == IF b \in HeadLen..(MaxData + HeadLen)
                    THEN [m EXCEPT !.len = b, !.buff = Append(@, b)] ELSE UtpMgr_Reset(m)
  <2>1. IsManager(n) /\ n.req = m0.req
    BY <1>1, <1>2, <1>3 DEF IsManager
  <2> HIDE DEF n
  <2>2. ~Filled(m)
    BY <1>6 DEF Filled
  <2>3. ParseByte(m, pkts, b) = [m |-> n, pkts |-> pkts]
    BY <1>6, <2>2 DEF ParseByte, n
  <2>. QED BY <1>1, <2>1, <2>3 DEF Parsed
<1>7. CASE Filled(m)
  <2> DEFINE q == IF Receives(m, b) THEN Append(pkts, Received(m)) ELSE pkts
  <2>1. IsSeq(q) /\ \A i \in 1..Len(q) : IsPacket(q[i])
    <3>1. /\ IsSeq(Append(pkts, Received(m))) /\ Len(Append(pkts, Received(m))) = Len(pkts) + 1
          /\ Append(pkts, Received(m))[Len(pkts) + 1] = Received(m)
          /\ \A i \in 1..Len(pkts) : Append(pkts, Received(m))[i] = pkts[i]
      BY <1>1, AppendIs
    <3>2. Len(pkts) \in Nat /\ IsPacket(Received(m))
      BY <1>1, IsLen, ReceivedIs
    <3>3. \A i \in 1..(Len(pkts) + 1) : i \in 1..Len(pkts) \/ i = Len(pkts) + 1
      BY <3>2
    <3>. QED BY <1>1, <3>1, <3>2, <3>3
  <2> HIDE DEF q
  <2>2. m.getHead /\ m.rxSeq /\ m.len # 0
    BY <1>7 DEF Filled
  <2>3. ParseByte(m, pkts, b) = [m |-> UtpMgr_Reset(m), pkts |-> q]
    BY <1>7, <2>2 DEF ParseByte, q
  <2>. QED BY <1>3, <2>1, <2>3 DEF Parsed
<1>8. CASE m.getHead /\ ~(m.rxSeq /\ m.len = 0) /\ ~Filled(m)
  <2> DEFINE n == [m EXCEPT !.rxSeq = TRUE, !.buff = Append(@, b)]
  <2>1. IsManager(n) /\ n.req = m0.req
    BY <1>1, <1>2 DEF IsManager
  <2> HIDE DEF n
  <2>2. ParseByte(m, pkts, b) = [m |-> n, pkts |-> pkts]
    BY <1>8 DEF ParseByte, n
  <2>. QED BY <1>1, <2>1, <2>2 DEF Parsed
<1>. QED BY <1>4, <1>5, <1>6, <1>7, <1>8

\* Nor do any bytes: by induction on their number (UtpMgr_Parse).
LEMMA ParsedIs ==
    ASSUME NEW m, IsManager(m), NEW bytes, IsSeq(bytes)
    PROVE  Parsed(UtpMgr_Parse(m, bytes), m)
<1> DEFINE n == Len(bytes)
           First == {[m |-> m, pkts |-> <<>>]}
           Then(x, i) == {ParseByte(r.m, r.pkts, bytes[i]) : r \in x}
           After(k, f) == [i \in 0..k |-> IF i = 0 THEN First ELSE Then(f[i - 1], i)]
           S == {k \in Nat : \E f : f = After(k, f)}
           F == CHOOSE f : f = After(n, f)
           Fine(x) == \E r : x = {r} /\ r = [m |-> r.m, pkts |-> r.pkts] /\ Parsed(r, m)
           T == {k \in Nat : k <= n => Fine(F[k])}
<1>1. n \in Nat
  BY IsLen
<1>2. UtpMgr_Parse(m, bytes) = CHOOSE r \in F[n] : TRUE
  BY Zenon DEF UtpMgr_Parse
<1>3. Fine(First)
  <2>1. Parsed([m |-> m, pkts |-> <<>>], m)
    <3>1. \A i \in 1..0 : FALSE
      OBVIOUS
    <3>. QED BY <3>1, TuplesAre DEF Parsed
  <2>. QED BY <2>1
<1>4. ASSUME NEW x, Fine(x), NEW i PROVE Fine(Then(x, i))
  <2>1. PICK r : x = {r} /\ r = [m |-> r.m, pkts |-> r.pkts] /\ Parsed(r, m)
    BY <1>4
  <2>2. Parsed(ParseByte(r.m, r.pkts, bytes[i]), m)
    BY <2>1, ByteParsed
  <2> DEFINE q == ParseByte(r.m, r.pkts, bytes[i])
  <2>3. q = [m |-> q.m, pkts |-> q.pkts]
    BY DEF ParseByte
  <2>4. Then(x, i) = {q}
    BY <2>1
  <2>. QED BY <2>2, <2>3, <2>4
<1> HIDE DEF First, Then, Fine
<1>5. 0 \in S
  <2> DEFINE f == [i \in 0..0 |-> First]
  <2>1. \A i \in 0..0 : (IF i = 0 THEN First ELSE Then(f[i - 1], i)) = First
    OBVIOUS
  <2>2. f = After(0, f)
    BY <2>1
  <2>. QED BY <2>2, Zenon
<1>6. ASSUME NEW k \in Nat, k \in S PROVE k + 1 \in S
  <2>1. PICK f : f = After(k, f)
    BY <1>6
  <2>2. \A i \in 0..k : f[i] = IF i = 0 THEN First ELSE Then(f[i - 1], i)
    BY <2>1, Zenon
  <2> DEFINE g == [i \in 0..(k + 1) |-> IF i = k + 1 THEN Then(f[k], i) ELSE f[i]]
  <2>3. ASSUME NEW i \in 0..(k + 1)
        PROVE  g[i] = IF i = 0 THEN First ELSE Then(g[i - 1], i)
    <3>1. CASE i = k + 1
      <4>1. k \in 0..(k + 1) /\ k # k + 1 /\ i # 0 /\ i - 1 = k
        BY <3>1
      <4>2. g[k] = f[k] /\ g[i] = Then(f[k], i)
        BY <3>1, <4>1
      <4>. QED BY <4>1, <4>2
    <3>2. CASE i # k + 1
      <4>1. i \in 0..k /\ g[i] = f[i]
        BY <3>2
      <4>2. i # 0 => i - 1 \in 0..(k + 1) /\ i - 1 # k + 1
        OBVIOUS
      <4>3. i # 0 => g[i - 1] = f[i - 1]
        BY <4>2
      <4>. QED BY <2>2, <4>1, <4>3
    <3>. QED BY <3>1, <3>2
  <2>4. g = [i \in 0..(k + 1) |-> g[i]]
    OBVIOUS
  <2> HIDE DEF g
  <2>5. g = After(k + 1, g)
    BY <2>3, <2>4, Zenon
  <2>6. k + 1 \in Nat
    OBVIOUS
  <2>. QED BY <2>5, <2>6, Zenon
<1> HIDE DEF S
<1>7. n \in S
  BY <1>1, <1>5, <1>6, SetInduction
<1>8. F = After(n, F)
  BY <1>7, Zenon DEF S
<1> HIDE DEF F
<1>9. \A i \in 0..n : F[i] = IF i = 0 THEN First ELSE Then(F[i - 1], i)
  BY <1>8, Zenon
<1>10. 0 \in T
  BY <1>1, <1>3, <1>9
<1>11. ASSUME NEW k \in Nat, k \in T PROVE k + 1 \in T
  <2> SUFFICES ASSUME k + 1 <= n PROVE Fine(F[k + 1])
    OBVIOUS
  <2>1. k + 1 \in 0..n /\ k + 1 # 0 /\ (k + 1) - 1 = k /\ k <= n
    BY <1>1
  <2>2. F[k + 1] = Then(F[k], k + 1)
    BY <1>9, <2>1
  <2>3. Fine(F[k])
    BY <1>11, <2>1
  <2>. QED BY <2>2, <2>3, <1>4
<1> HIDE DEF T
<1>12. Fine(F[n])
  <2>1. Nat \subseteq T
    BY <1>10, <1>11, SetInduction
  <2>. QED BY <1>1, <2>1 DEF T
<1>13. PICK r : F[n] = {r} /\ Parsed(r, m)
  BY <1>12, Zenon DEF Fine
<1>. QED BY <1>2, <1>13

\* The largest of some numbers, which the folds of the library take first.
LEMMA MaxIs ==
    ASSUME NEW m \in Nat, NEW s \in SUBSET (1..m), s # {}
    PROVE  Max(s) \in s /\ \A i \in s : i <= Max(s)
<1> DEFINE S == {k \in Nat : \A r \in SUBSET (1..k) :
                    r # {} => \E x \in r : \A y \in r : x >= y}
<1>1. 0 \in S
  BY \A i \in 1..0 : FALSE
<1>2. ASSUME NEW k \in Nat, k \in S PROVE k + 1 \in S
  <2> SUFFICES ASSUME NEW r \in SUBSET (1..(k + 1)), r # {}
               PROVE  \E x \in r : \A y \in r : x >= y
    OBVIOUS
  <2>1. CASE k + 1 \in r
    BY <2>1
  <2>2. CASE k + 1 \notin r
    <3>1. r \in SUBSET (1..k)
      BY <2>2
    <3>. QED BY <1>2, <3>1
  <2>. QED BY <2>1, <2>2
<1> HIDE DEF S
<1>3. m \in S
  BY <1>1, <1>2, SetInduction
<1>4. \E x \in s : \A y \in s : x >= y
  BY <1>3 DEF S
<1>5. Max(s) \in s /\ \A y \in s : Max(s) >= y
  BY <1>4, Zenon DEF Max
<1>. QED BY <1>5
-----------------------------------------------------------------------------
\* A posted request, and the requests of a download.
IsSend(m) == m.msg = "OTA_SEND"

OtaRequests == {REQ_OTA_START, REQ_OTA_UPDATE, REQ_OTA_COMPLETE, REQ_OTA_VERIFY}

\* Among the messages p is one request at most, and the slot of h is free for it.
Mail(p, h) ==
    /\ IsSeq(p)
    /\ \A i \in 1..Len(p) : IsSend(p[i]) =>
          /\ p[i].req \in OtaRequests /\ h.req.state = "INIT"
          /\ \A j \in 1..Len(p) : IsSend(p[j]) => i = j

\* Only requests of a download are ever outstanding, so RspProc knows what is next.
HostFit(h) == IsManager(h) /\ (h.req.state = "TX_REQ" => h.req.pkt.cmd \in OtaRequests)

\* The thread at work on a message, between any two steps of its handler.
ThreadFields == {"host", "dlg", "posted", "out", "given", "told", "result"}

Fit(t) ==
    /\ DOMAIN t = ThreadFields
    /\ HostFit(t.host) /\ IsLine(t.out) /\ Mail(t.posted, t.host)

\* No message of p is a request.
NoSend(p) == IsSeq(p) /\ \A i \in 1..Len(p) : ~IsSend(p[i])

\* A message that is no request may be posted any time.
LEMMA MailAppend ==
    ASSUME NEW p, NEW h, Mail(p, h), NEW m, ~IsSend(m)
    PROVE  Mail(Append(p, m), h)
<1>1. /\ IsSeq(Append(p, m)) /\ Len(Append(p, m)) = Len(p) + 1 /\ Len(p) \in Nat
      /\ Append(p, m)[Len(p) + 1] = m
      /\ \A i \in 1..Len(p) : Append(p, m)[i] = p[i]
  BY AppendIs, IsLen DEF Mail
<1>2. \A i \in 1..(Len(p) + 1) : i \in 1..Len(p) \/ i = Len(p) + 1
  BY <1>1
<1>. QED BY <1>1, <1>2 DEF Mail

\* One that is may be posted when there is no other, and the slot is free.
LEMMA SendAppend ==
    ASSUME NEW p, NoSend(p), NEW h, h.req.state = "INIT", NEW m, m.req \in OtaRequests
    PROVE  Mail(Append(p, m), h)
<1>1. /\ IsSeq(Append(p, m)) /\ Len(Append(p, m)) = Len(p) + 1 /\ Len(p) \in Nat
      /\ Append(p, m)[Len(p) + 1] = m
      /\ \A i \in 1..Len(p) : Append(p, m)[i] = p[i]
  BY AppendIs, IsLen DEF NoSend
<1>2. \A i \in 1..(Len(p) + 1) : i \in 1..Len(p) \/ i = Len(p) + 1
  BY <1>1
<1>. QED BY <1>1, <1>2 DEF Mail, NoSend

\* Messages that are no requests, and one more.
LEMMA NoSendAppend ==
    ASSUME NEW p, NoSend(p), NEW m, ~IsSend(m) PROVE NoSend(Append(p, m))
<1>1. /\ IsSeq(Append(p, m)) /\ Len(Append(p, m)) = Len(p) + 1 /\ Len(p) \in Nat
      /\ Append(p, m)[Len(p) + 1] = m
      /\ \A i \in 1..Len(p) : Append(p, m)[i] = p[i]
  BY AppendIs, IsLen DEF NoSend
<1>2. \A i \in 1..(Len(p) + 1) : i \in 1..Len(p) \/ i = Len(p) + 1
  BY <1>1
<1>. QED BY <1>1, <1>2 DEF NoSend

\* While a request is outstanding none is posted.
LEMMA MailNoSend ==
    ASSUME NEW p, NEW h, Mail(p, h), h.req.state # "INIT" PROVE NoSend(p)
BY DEF Mail, NoSend

\* Without posted requests the slot does not matter.
LEMMA NoSendMail ==
    ASSUME NEW p, NEW h, NoSend(p) PROVE Mail(p, h)
BY DEF Mail, NoSend

\* What a handler leaves when it takes the first message: if that was a request,
\* no other one.
LEMMA MailTail ==
    ASSUME NEW p, NEW h, Mail(p, h), p # <<>>
    PROVE  Mail(Tail(p), h) /\ (IsSend(p[1]) => NoSend(Tail(p)))
<1>1. /\ Len(p) >= 1 /\ IsSeq(Tail(p)) /\ Len(Tail(p)) = Len(p) - 1 /\ Len(p) \in Nat
      /\ \A i \in 1..(Len(p) - 1) : Tail(p)[i] = p[i + 1]
  BY TailIs, IsLen DEF Mail
<1>2. 1 \in 1..Len(p) /\ \A i \in 1..(Len(p) - 1) : i + 1 \in 1..Len(p) /\ i + 1 # 1
  BY <1>1
<1>3. \A i, j \in 1..(Len(p) - 1) : i + 1 = j + 1 => i = j
  OBVIOUS
<1>4. Mail(Tail(p), h)
  BY <1>1, <1>2, <1>3 DEF Mail
<1>5. ASSUME IsSend(p[1]) PROVE NoSend(Tail(p))
  BY <1>1, <1>2, <1>5 DEF Mail, NoSend
<1>. QED BY <1>4, <1>5

\* A download that is done.
LEMMA DoneIs ==
    ASSUME NEW t, DOMAIN t = ThreadFields, NEW how
    PROVE  LET u == DownloadDone(t, how) IN
           /\ DOMAIN u = DOMAIN t /\ u.host = t.host /\ u.out = t.out
           /\ \/ u.posted = t.posted
              \/ u.posted = Append(t.posted, Download(TRUE))
<1> DEFINE v == IF t.dlg.fileLen = 0 THEN t
             ELSE [PostMessage(t, Download(TRUE)) EXCEPT
                     !.dlg.fileLen = 0, !.dlg.handler = FALSE, !.result = how]
           P(w) == /\ DOMAIN w = DOMAIN t /\ w.host = t.host /\ w.out = t.out
                   /\ \/ w.posted = t.posted
                      \/ w.posted = Append(t.posted, Download(TRUE))
<1>1. P(v)
  <2> DEFINE w == PostMessage(t, Download(TRUE))
  <2>1. P(w)
    BY DEF PostMessage, ThreadFields
  <2> HIDE DEF w
  <2>2. P([w EXCEPT !.dlg.fileLen = 0, !.dlg.handler = FALSE, !.result = how])
    BY <2>1 DEF ThreadFields
  <2>. QED BY <2>2 DEF w
<1>2. DownloadDone(t, how) = [v EXCEPT !.dlg.timer = FALSE]
  BY DEF DownloadDone
<1> HIDE DEF v
<1>. QED BY <1>1, <1>2 DEF ThreadFields

\* One at most, and it is the last.
OneSend(p) ==
    \/ NoSend(p)
    \/ \E q, m : NoSend(q) /\ m.req \in OtaRequests /\ p = Append(q, m)

\* u is t but for the dialog, the history and what was posted.
Like(t, u) == DOMAIN u = ThreadFields /\ u.host = t.host /\ u.out = t.out

\* Posting touches nothing but the queue.
LEMMA PostedIs ==
    ASSUME NEW t, DOMAIN t = ThreadFields, NEW m
    PROVE  Like(t, PostMessage(t, m)) /\ PostMessage(t, m).posted = Append(t.posted, m)
BY DEF Like, PostMessage, ThreadFields

\* RspProc posts one request at most, and none when the download is done.
LEMMA RspIs ==
    ASSUME NEW t, DOMAIN t = ThreadFields, NoSend(t.posted), NEW req, req.cmd \in OtaRequests,
           NEW data, NEW errCode
    PROVE  LET u == Utp_RspProc(t, req, data, errCode)
           IN  Like(t, u) /\ OneSend(u.posted)
<1> DEFINE P(u) == Like(t, u) /\ OneSend(u.posted)
<1>1. ASSUME NEW how PROVE P(DownloadDone(t, how))
  <2> DEFINE u == DownloadDone(t, how)
  <2>1. /\ DOMAIN u = DOMAIN t /\ u.host = t.host /\ u.out = t.out
        /\ \/ u.posted = t.posted
           \/ u.posted = Append(t.posted, Download(TRUE))
    BY DoneIs DEF ThreadFields
  <2> HIDE DEF u
  <2>2. ~IsSend(Download(TRUE))
    BY DEF IsSend, Download, Msg
  <2>3. NoSend(Append(t.posted, Download(TRUE)))
    BY <2>2, NoSendAppend
  <2>4. P(u)
    BY <2>1, <2>3 DEF Like, OneSend
  <2>. QED BY <2>4 DEF u
<1>2. ASSUME NEW r \in OtaRequests, NEW offset PROVE P(PostMessage(t, OtaSendMsg(r, offset)))
  <2>1. OtaSendMsg(r, offset).req \in OtaRequests
    BY DEF OtaSendMsg
  <2>2. OneSend(Append(t.posted, OtaSendMsg(r, offset)))
    BY <2>1 DEF OneSend
  <2>. QED BY <2>2, PostedIs
<1>3. ASSUME NEW r \in OtaRequests, NEW offset
      PROVE  P(PostMessage(PostMessage(t, Download(FALSE)), OtaSendMsg(r, offset)))
  <2> DEFINE v == PostMessage(t, Download(FALSE))
  <2>1. Like(t, v) /\ v.posted = Append(t.posted, Download(FALSE))
    BY PostedIs
  <2>2. ~IsSend(Download(FALSE))
    BY DEF IsSend, Download, Msg
  <2>3. NoSend(v.posted)
    BY <2>1, <2>2, NoSendAppend
  <2> HIDE DEF v
  <2>4. OtaSendMsg(r, offset).req \in OtaRequests
    BY DEF OtaSendMsg
  <2>5. OneSend(Append(v.posted, OtaSendMsg(r, offset)))
    BY <2>3, <2>4 DEF OneSend
  <2>6. Like(v, PostMessage(v, OtaSendMsg(r, offset)))
        /\ PostMessage(v, OtaSendMsg(r, offset)).posted
             = Append(v.posted, OtaSendMsg(r, offset))
    BY <2>1, PostedIs DEF Like
  <2>7. P(PostMessage(v, OtaSendMsg(r, offset)))
    BY <2>1, <2>5, <2>6 DEF Like
  <2>. QED BY <2>7 DEF v
<1> HIDE DEF P
<1>4. REQ_OTA_UPDATE \in OtaRequests /\ REQ_OTA_COMPLETE \in OtaRequests /\ REQ_OTA_VERIFY \in OtaRequests
  BY DEF OtaRequests
<1>5. CASE ~t.dlg.isUpdate
  <2>1. Utp_RspProc(t, req, data, errCode) = DownloadDone(t, "stopped")
    BY <1>5 DEF Utp_RspProc
  <2>. QED BY <1>1, <2>1 DEF P
<1>6. CASE t.dlg.isUpdate /\ Refused(t, errCode, data)
  <2>1. Utp_RspProc(t, req, data, errCode) = DownloadDone(t, "failed")
    BY <1>6 DEF Utp_RspProc
  <2>. QED BY <1>1, <2>1 DEF P
<1>7. CASE t.dlg.isUpdate /\ ~Refused(t, errCode, data)
  <2>0. Utp_RspProc(t, req, data, errCode) =
           CASE req.cmd = REQ_OTA_START ->
                  PostMessage(PostMessage(t, Download(FALSE)), OtaSendMsg(REQ_OTA_UPDATE, 0))
             [] req.cmd = REQ_OTA_UPDATE ->
                  PostMessage(t, IF NextOffset(req) < t.dlg.fileLen
                                   THEN OtaSendMsg(REQ_OTA_UPDATE, NextOffset(req))
                                   ELSE OtaSendMsg(REQ_OTA_COMPLETE, 0))
             [] req.cmd = REQ_OTA_COMPLETE -> PostMessage(t, OtaSendMsg(REQ_OTA_VERIFY, 0))
             [] req.cmd = REQ_OTA_VERIFY -> DownloadDone(t, "success")
    BY <1>7 DEF Utp_RspProc
  <2>1. CASE req.cmd = REQ_OTA_START
    <3>1. Utp_RspProc(t, req, data, errCode)
            = PostMessage(PostMessage(t, Download(FALSE)), OtaSendMsg(REQ_OTA_UPDATE, 0))
      BY <2>0, <2>1 DEF REQ_OTA_START, REQ_OTA_UPDATE, REQ_OTA_COMPLETE, REQ_OTA_VERIFY
    <3>. QED BY <1>3, <1>4, <3>1 DEF P
  <2>2. CASE req.cmd = REQ_OTA_UPDATE
    <3>1. Utp_RspProc(t, req, data, errCode)
            = PostMessage(t, IF NextOffset(req) < t.dlg.fileLen
                                   THEN OtaSendMsg(REQ_OTA_UPDATE, NextOffset(req))
                                   ELSE OtaSendMsg(REQ_OTA_COMPLETE, 0))
      BY <2>0, <2>2 DEF REQ_OTA_START, REQ_OTA_UPDATE, REQ_OTA_COMPLETE, REQ_OTA_VERIFY
    <3>2. P(PostMessage(t, OtaSendMsg(REQ_OTA_UPDATE, NextOffset(req))))
          /\ P(PostMessage(t, OtaSendMsg(REQ_OTA_COMPLETE, 0)))
      BY <1>2, <1>4
    <3>3. P(Utp_RspProc(t, req, data, errCode))
      BY <3>1, <3>2
    <3>. QED BY <3>3 DEF P
  <2>3. CASE req.cmd = REQ_OTA_COMPLETE
    <3>1. Utp_RspProc(t, req, data, errCode) = PostMessage(t, OtaSendMsg(REQ_OTA_VERIFY, 0))
      BY <2>0, <2>3 DEF REQ_OTA_START, REQ_OTA_UPDATE, REQ_OTA_COMPLETE, REQ_OTA_VERIFY
    <3>. QED BY <1>2, <1>4, <3>1 DEF P
  <2>4. CASE req.cmd = REQ_OTA_VERIFY
    <3>1. Utp_RspProc(t, req, data, errCode) = DownloadDone(t, "success")
      BY <2>0, <2>4 DEF REQ_OTA_START, REQ_OTA_UPDATE, REQ_OTA_COMPLETE, REQ_OTA_VERIFY
    <3>. QED BY <1>1, <3>1 DEF P
  <2>. QED BY <2>1, <2>2, <2>3, <2>4 DEF OtaRequests
<1>. QED BY <1>5, <1>6, <1>7

\* The slot is free when the request that RspProc posted is there: it is reset
\* before the next message is looked at (UtpMgr_ProcRxPkt).
LEMMA ProcIs ==
    ASSUME NEW t, Fit(t), t.host.req.state = "TX_REQ", NEW data, NEW errCode
    PROVE  Fit(Proc(t, data, errCode))
<1> DEFINE u == Utp_RspProc(t, t.host.req.pkt, data, errCode)
           h == UtpReq_Reset(t.host)
<1>1. /\ DOMAIN t = ThreadFields /\ NoSend(t.posted)
      /\ t.host.req.pkt.cmd \in OtaRequests /\ IsManager(t.host) /\ IsLine(t.out)
  BY MailNoSend DEF Fit, HostFit, ThreadFields
<1>2. Like(t, u) /\ OneSend(u.posted)
  BY <1>1, RspIs
<1>3. Proc(t, data, errCode) = [u EXCEPT !.host = UtpReq_Reset(@), !.told = data]
  BY DEF Proc
<1> HIDE DEF u
<1>4. IsManager(h) /\ h.req.state = "INIT"
  BY <1>1 DEF UtpReq_Reset, IsManager
<1> HIDE DEF h
<1>5. Proc(t, data, errCode) = [u EXCEPT !.host = h, !.told = data]
  BY <1>2, <1>3 DEF Like, ThreadFields, h
<1>6. Mail(u.posted, h)
  BY <1>2, <1>4, SendAppend, NoSendMail DEF OneSend
<1>7. HostFit(h)
  BY <1>4 DEF HostFit
<1>. QED BY <1>1, <1>2, <1>5, <1>6, <1>7 DEF Fit, Like, ThreadFields

\* A packet that answers nothing is dropped.
LEMMA ProcRxIs ==
    ASSUME NEW t, Fit(t), NEW p PROVE Fit(ProcRxPkt(t, p))
BY ProcIs DEF ProcRxPkt, Answers

\* Transmitting leaves the state of the slot alone.
LEMMA TxPktIs ==
    ASSUME NEW m, HostFit(m)
    PROVE  LET r == UtpMgr_TxPkt(m)
           IN  /\ HostFit(r.m) /\ r.m.req.state = m.req.state
               /\ r.tx # <<>> /\ IsLine(r.tx)
<1> DEFINE f == UtpMgr_Packet(m.req.pkt)
           n == [m EXCEPT !.req.tx = @ + 1, !.req.late = FALSE]
<1>1. UtpMgr_TxPkt(m).m = n /\ UtpMgr_TxPkt(m).tx = <<f>>
  BY DEF UtpMgr_TxPkt, With
<1>2. IsSeq(f)
  BY FrameIs DEF HostFit, IsManager, IsPacket
<1>3. HostFit(n) /\ n.req.state = m.req.state
  BY DEF HostFit, IsManager
<1> HIDE DEF f, n
<1>4. <<f>> # <<>> /\ IsLine(<<f>>)
  BY <1>2, ShortLines
<1>. QED BY <1>1, <1>3, <1>4

\* A request that is given up is answered as well, and one that is sent again
\* stays outstanding (UtpMgr_Run).
LEMMA RunIs ==
    ASSUME NEW t, Fit(t) PROVE Fit(UtpMgr_Run(t))
<1>1. CASE GivesUp(t.host)
  BY <1>1, ProcIs DEF UtpMgr_Run, GivesUp
<1>2. CASE ~GivesUp(t.host)
  <2> DEFINE r == UtpMgr_ReTx(t.host)
  <2>1. UtpMgr_Run(t) = [t EXCEPT !.host = r.m, !.out = @ \o r.tx]
    BY <1>2 DEF UtpMgr_Run
  <2>2. HostFit(r.m) /\ r.m.req.state = t.host.req.state /\ IsLine(r.tx)
    <3>1. CASE ReSends(t.host)
      BY <3>1, TxPktIs DEF UtpMgr_ReTx, Fit
    <3>2. CASE ~ReSends(t.host)
      BY <3>2, ShortLines DEF UtpMgr_ReTx, With, Fit
    <3>. QED BY <3>1, <3>2
  <2> HIDE DEF r
  <2>3. Mail(t.posted, r.m) /\ IsLine(t.out \o r.tx)
    BY <2>2, LineConcat DEF Fit, Mail
  <2>. QED BY <2>1, <2>2, <2>3 DEF Fit
<1>. QED BY <1>1, <1>2

\* A request is only made when none is posted, and is outstanding then.
LEMMA PostReqIs ==
    ASSUME NEW t, Fit(t), NoSend(t.posted), NEW cmd \in OtaRequests, NEW data, IsSeq(data)
    PROVE  Fit(PostReq(t, cmd, data))
<1> DEFINE h == t.host
           seq == IF h.seq = MaxSeq THEN 1 ELSE h.seq + 1
           i == [h EXCEPT !.req.max = MaxTx,
                !.req.pkt = [seq |-> 0, control |-> REQ, cmd |-> cmd, data |-> data]]
           n == [i EXCEPT !.seq = seq, !.req.pkt.seq = seq, !.req.state = "TX_REQ"]
           r == UtpMgr_PostReq(h, cmd, data, MaxTx)
<1>1. CASE h.req.state # "INIT"
  <2>1. r.tx = <<>>
    BY <1>1 DEF UtpMgr_PostReq, With
  <2>. QED BY <2>1 DEF PostReq
<1>2. CASE h.req.state = "INIT"
  <2>1. IsManager(h)
    BY DEF Fit, HostFit
  <2>2. i.seq = h.seq
    BY <2>1 DEF IsManager
  <2>3. HostFit(n)
    <3>1. IsManager(i) /\ i.req.pkt.cmd = cmd
      BY <2>1 DEF IsManager, IsPacket
    <3> HIDE DEF i, seq
    <3>2. IsManager(n) /\ n.req.pkt.cmd = cmd
      BY <3>1 DEF IsManager, IsPacket
    <3>. QED BY <3>2 DEF HostFit
  <2>4. r = UtpMgr_TxPkt(n)
    BY <1>2, <2>2 DEF UtpMgr_PostReq, UtpMgr_Post
  <2> HIDE DEF n, i, seq, h
  <2>5. HostFit(r.m) /\ r.tx # <<>> /\ IsLine(r.tx)
    BY <2>3, <2>4, TxPktIs
  <2> HIDE DEF r
  <2>6. PostReq(t, cmd, data)
          = [t EXCEPT !.host = r.m, !.out = @ \o r.tx, !.given = {}, !.told = <<>>]
    BY <2>5 DEF PostReq, r, h
  <2>7. Mail(t.posted, r.m) /\ IsLine(t.out \o r.tx)
    BY <2>5, NoSendMail, LineConcat DEF Fit
  <2>. QED BY <2>5, <2>6, <2>7 DEF Fit
<1>. QED BY <1>1, <1>2

\* All packets of a read in turn: by induction on their number, along the sets
\* of indices that FoldLeft goes through.
LEMMA ProcessedIs ==
    ASSUME NEW t, Fit(t), NEW pkts, IsSeq(pkts)
    PROVE  Fit(FoldLeft(ProcRxPkt, t, pkts))
<1> DEFINE n == Len(pkts)
           Fold(k, f) == [s \in SUBSET (1..k) |->
                            IF s = {} THEN t ELSE ProcRxPkt(f[s \ {Max(s)}], pkts[Max(s)])]
           S == {k \in Nat : \E f : f = Fold(k, f)}
           F == CHOOSE f : f = Fold(n, f)
           R == FoldLeft(ProcRxPkt, t, pkts)
           T == {k \in Nat : k <= n => Fit(F[1..k])}
<1>1. n \in Nat /\ DOMAIN pkts = 1..n
  BY IsLen
<1>2. R = F[1..n]
  <2>1. R =
          (CHOOSE f : f = [s \in SUBSET (DOMAIN pkts) |->
                IF s = {} THEN t ELSE ProcRxPkt(f[s \ {Max(s)}], pkts[Max(s)])])[DOMAIN pkts]
    BY Zenon DEF FoldLeft, MapThenFoldSet
  <2>. QED BY <1>1, <2>1
<1>3. 0 \in S
  <2> DEFINE f == [s \in SUBSET (1..0) |-> t]
  <2>1. \A s \in SUBSET (1..0) : s = {}
    OBVIOUS
  <2>2. f = Fold(0, f)
    BY <2>1, Zenon
  <2>. QED BY <2>2, Zenon
<1>4. ASSUME NEW k \in Nat, k \in S PROVE k + 1 \in S
  <2>1. PICK f : f = Fold(k, f)
    BY <1>4
  <2>2. \A s \in SUBSET (1..k) :
          f[s] = IF s = {} THEN t ELSE ProcRxPkt(f[s \ {Max(s)}], pkts[Max(s)])
    BY <2>1, Zenon
  <2> DEFINE g == [s \in SUBSET (1..(k + 1)) |->
                     IF k + 1 \in s THEN ProcRxPkt(f[s \ {k + 1}], pkts[k + 1]) ELSE f[s]]
  <2>3. ASSUME NEW s \in SUBSET (1..(k + 1))
        PROVE  g[s] = IF s = {} THEN t ELSE ProcRxPkt(g[s \ {Max(s)}], pkts[Max(s)])
    <3>1. CASE k + 1 \in s
      <4>1. k + 1 \in Nat /\ s # {}
        BY <3>1
      <4>2. Max(s) \in s /\ k + 1 <= Max(s)
        BY <3>1, <4>1, MaxIs
      <4>3. Max(s) = k + 1
        <5>1. Max(s) \in 1..(k + 1)
          BY <4>2
        <5>. QED BY <4>2, <5>1
      <4>4. s \ {k + 1} \in SUBSET (1..(k + 1)) /\ k + 1 \notin s \ {k + 1}
        OBVIOUS
      <4>5. g[s \ {k + 1}] = f[s \ {k + 1}]
        BY <4>4
      <4>6. g[s] = ProcRxPkt(f[s \ {k + 1}], pkts[k + 1])
        BY <3>1
      <4>. QED BY <4>1, <4>3, <4>5, <4>6
    <3>2. CASE k + 1 \notin s
      <4>1. s \in SUBSET (1..k) /\ g[s] = f[s]
        BY <3>2
      <4>2. s \ {Max(s)} \in SUBSET (1..(k + 1)) /\ k + 1 \notin s \ {Max(s)}
        BY <3>2
      <4>3. g[s \ {Max(s)}] = f[s \ {Max(s)}]
        BY <4>2
      <4>. QED BY <2>2, <4>1, <4>3
    <3>. QED BY <3>1, <3>2
  <2>4. g = [s \in SUBSET (1..(k + 1)) |-> g[s]]
    OBVIOUS
  <2> HIDE DEF g
  <2>5. g = Fold(k + 1, g)
    BY <2>3, <2>4, Zenon
  <2>6. k + 1 \in Nat
    OBVIOUS
  <2>. QED BY <2>5, <2>6, Zenon
<1> HIDE DEF S
<1>5. n \in S
  BY <1>1, <1>3, <1>4, SetInduction
<1>6. F = Fold(n, F)
  BY <1>5, Zenon DEF S
<1> HIDE DEF F
<1>7. \A s \in SUBSET (1..n) :
        F[s] = IF s = {} THEN t ELSE ProcRxPkt(F[s \ {Max(s)}], pkts[Max(s)])
  BY <1>6, Zenon
<1>8. 0 \in T
  <2>1. 1..0 \in SUBSET (1..n) /\ 1..0 = {}
    OBVIOUS
  <2>2. F[1..0] = t
    BY <1>7, <2>1
  <2>. QED BY <2>2
<1>9. ASSUME NEW k \in Nat, k \in T PROVE k + 1 \in T
  <2> SUFFICES ASSUME k + 1 <= n PROVE Fit(F[1..(k + 1)])
    OBVIOUS
  <2> DEFINE s == 1..(k + 1)
  <2>1. /\ s \in SUBSET (1..n) /\ s # {} /\ k + 1 \in s /\ k + 1 \in Nat /\ k <= n
        /\ k + 1 \in 1..n /\ s \ {k + 1} = 1..k /\ \A i \in s : i <= k + 1
    <3>1. s \in SUBSET (1..n) /\ k + 1 \in s /\ k <= n /\ k + 1 \in 1..n
      BY <1>1
    <3>2. s \ {k + 1} = 1..k
      OBVIOUS
    <3>3. s # {} /\ k + 1 \in Nat /\ \A i \in s : i <= k + 1
      OBVIOUS
    <3> HIDE DEF s
    <3>. QED BY <3>1, <3>2, <3>3
  <2>2. Max(s) = k + 1
    <3> HIDE DEF s
    <3>1. Max(s) \in s /\ \A i \in s : i <= Max(s)
      BY <1>1, <2>1, MaxIs
    <3>2. Max(s) \in 1..n /\ Max(s) <= k + 1 /\ k + 1 <= Max(s)
      BY <2>1, <3>1
    <3>. QED BY <1>1, <2>1, <3>2
  <2> HIDE DEF s
  <2>3. F[s] = ProcRxPkt(F[1..k], pkts[k + 1])
    BY <1>7, <2>1, <2>2
  <2>4. Fit(F[1..k])
    BY <1>9, <2>1
  <2>5. Fit(F[s])
    BY <2>1, <2>3, <2>4, ProcRxIs
  <2>. QED BY <2>5 DEF s
<1> HIDE DEF T, R
<1>10. Nat \subseteq T
  BY <1>8, <1>9, SetInduction
<1>11. Fit(R)
  BY <1>1, <1>2, <1>10 DEF T
<1>. QED BY <1>11, Zenon DEF R
-----------------------------------------------------------------------------
\* The device at work on packets.
DevFit(d) ==
    DOMAIN d = {"dev", "image", "out", "given"} /\ IsManager(d.dev) /\ IsLine(d.out)

\* What the device answers is a frame, and its parser and slot stay what they are.
LEMMA DevProcIs ==
    ASSUME NEW d, DevFit(d), NEW p, IsPacket(p), NEW ret
    PROVE  DevFit(DevProc(d, p, ret))
<1>1. CASE ~Accepts(d.dev, p)
  BY <1>1 DEF DevProc
<1>2. CASE Accepts(d.dev, p)
  <2> DEFINE img == IF ret = RC_SUCCESS THEN Stored(d.image, p) ELSE d.image
             status == Status(img, p)
             r == Answered(d.dev, p, ret, status)
             answer == [p EXCEPT !.control = RSP,
                          !.data = IF ret = RC_UNKNOWN THEN <<RC_UNKNOWN>> ELSE status]
             e == DevProc(d, p, ret)
  <2>1. IsSeq(status)
    BY TuplesAre DEF Status
  <2>2. IsSeq(answer.data)
    BY <2>1, TuplesAre DEF IsPacket
  <2>3. IsManager(r.m) /\ IsLine(r.tx)
    <3> HIDE DEF answer, status
    <3>1. IsLine(<<>>) /\ IsLine(<<UtpMgr_Packet(answer)>>)
      BY <2>2, FrameIs, ShortLines
    <3>2. CASE p.control = BROADCAST \/ ret = RC_ABORTED
      BY <3>1, <3>2 DEF Answered, With, DevFit
    <3>3. CASE ~(p.control = BROADCAST \/ ret = RC_ABORTED) /\ ret = RC_PENDING
      BY <3>1, <3>3 DEF Answered, With, DevFit, IsManager
    <3>4. CASE ~(p.control = BROADCAST \/ ret = RC_ABORTED) /\ ret # RC_PENDING
      <4>1. r.m = d.dev /\ r.tx = <<UtpMgr_Packet(answer)>>
        BY <3>4 DEF Answered, With, answer
      <4>. QED BY <3>1, <4>1 DEF DevFit
    <3>. QED BY <3>2, <3>3, <3>4
  <2>4. /\ DOMAIN e = {"dev", "image", "out", "given"}
        /\ e.dev = r.m /\ e.out = d.out \o r.tx
    BY <1>2 DEF DevProc
  <2> HIDE DEF r, e
  <2>5. DevFit(e)
    BY <2>3, <2>4, LineConcat DEF DevFit
  <2>. QED BY <2>5 DEF e
<1>. QED BY <1>1, <1>2

\* What the device does with packets.
CarriedOut(d, pkts, ret) == FoldLeft(LAMBDA e, p : DevProc(e, p, ret), d, pkts)

\* All packets the device received in turn, as in ProcessedIs.
LEMMA CarriedOutIs ==
    ASSUME NEW t, DevFit(t), NEW pkts, IsSeq(pkts), \A i \in 1..Len(pkts) : IsPacket(pkts[i]),
           NEW ret
    PROVE  DevFit(CarriedOut(t, pkts, ret))
<1> DEFINE n == Len(pkts)
           Fold(k, f) == [s \in SUBSET (1..k) |->
                            IF s = {} THEN t ELSE DevProc(f[s \ {Max(s)}], pkts[Max(s)], ret)]
           S == {k \in Nat : \E f : f = Fold(k, f)}
           F == CHOOSE f : f = Fold(n, f)
           R == CarriedOut(t, pkts, ret)
           T == {k \in Nat : k <= n => DevFit(F[1..k])}
<1>1. n \in Nat /\ DOMAIN pkts = 1..n
  BY IsLen
<1>2. R = F[1..n]
  <2>1. R =
          (CHOOSE f : f = [s \in SUBSET (DOMAIN pkts) |->
                IF s = {} THEN t ELSE DevProc(f[s \ {Max(s)}], pkts[Max(s)], ret)])[DOMAIN pkts]
    BY Zenon DEF CarriedOut, FoldLeft, MapThenFoldSet
  <2>. QED BY <1>1, <2>1
<1>3. 0 \in S
  <2> DEFINE f == [s \in SUBSET (1..0) |-> t]
  <2>1. \A s \in SUBSET (1..0) : s = {}
    OBVIOUS
  <2>2. f = Fold(0, f)
    BY <2>1, Zenon
  <2>. QED BY <2>2, Zenon
<1>4. ASSUME NEW k \in Nat, k \in S PROVE k + 1 \in S
  <2>1. PICK f : f = Fold(k, f)
    BY <1>4
  <2>2. \A s \in SUBSET (1..k) :
          f[s] = IF s = {} THEN t ELSE DevProc(f[s \ {Max(s)}], pkts[Max(s)], ret)
    BY <2>1, Zenon
  <2> DEFINE g == [s \in SUBSET (1..(k + 1)) |->
                     IF k + 1 \in s THEN DevProc(f[s \ {k + 1}], pkts[k + 1], ret) ELSE f[s]]
  <2>3. ASSUME NEW s \in SUBSET (1..(k + 1))
        PROVE  g[s] = IF s = {} THEN t ELSE DevProc(g[s \ {Max(s)}], pkts[Max(s)], ret)
    <3>1. CASE k + 1 \in s
      <4>1. k + 1 \in Nat /\ s # {}
        BY <3>1
      <4>2. Max(s) \in s /\ k + 1 <= Max(s)
        BY <3>1, <4>1, MaxIs
      <4>3. Max(s) = k + 1
        <5>1. Max(s) \in 1..(k + 1)
          BY <4>2
        <5>. QED BY <4>2, <5>1
      <4>4. s \ {k + 1} \in SUBSET (1..(k + 1)) /\ k + 1 \notin s \ {k + 1}
        OBVIOUS
      <4>5. g[s \ {k + 1}] = f[s \ {k + 1}]
        BY <4>4
      <4>6. g[s] = DevProc(f[s \ {k + 1}], pkts[k + 1], ret)
        BY <3>1
      <4>. QED BY <4>1, <4>3, <4>5, <4>6
    <3>2. CASE k + 1 \notin s
      <4>1. s \in SUBSET (1..k) /\ g[s] = f[s]
        BY <3>2
      <4>2. s \ {Max(s)} \in SUBSET (1..(k + 1)) /\ k + 1 \notin s \ {Max(s)}
        BY <3>2
      <4>3. g[s \ {Max(s)}] = f[s \ {Max(s)}]
        BY <4>2
      <4>. QED BY <2>2, <4>1, <4>3
    <3>. QED BY <3>1, <3>2
  <2>4. g = [s \in SUBSET (1..(k + 1)) |-> g[s]]
    OBVIOUS
  <2> HIDE DEF g
  <2>5. g = Fold(k + 1, g)
    BY <2>3, <2>4, Zenon
  <2>6. k + 1 \in Nat
    OBVIOUS
  <2>. QED BY <2>5, <2>6, Zenon
<1> HIDE DEF S
<1>5. n \in S
  BY <1>1, <1>3, <1>4, SetInduction
<1>6. F = Fold(n, F)
  BY <1>5, Zenon DEF S
<1> HIDE DEF F
<1>7. \A s \in SUBSET (1..n) :
        F[s] = IF s = {} THEN t ELSE DevProc(F[s \ {Max(s)}], pkts[Max(s)], ret)
  BY <1>6, Zenon
<1>8. 0 \in T
  <2>1. 1..0 \in SUBSET (1..n) /\ 1..0 = {}
    OBVIOUS
  <2>2. F[1..0] = t
    BY <1>7, <2>1
  <2>. QED BY <2>2
<1>9. ASSUME NEW k \in Nat, k \in T PROVE k + 1 \in T
  <2> SUFFICES ASSUME k + 1 <= n PROVE DevFit(F[1..(k + 1)])
    OBVIOUS
  <2> DEFINE s == 1..(k + 1)
  <2>1. /\ s \in SUBSET (1..n) /\ s # {} /\ k + 1 \in s /\ k + 1 \in Nat /\ k <= n
        /\ k + 1 \in 1..n /\ s \ {k + 1} = 1..k /\ \A i \in s : i <= k + 1
    <3>1. s \in SUBSET (1..n) /\ k + 1 \in s /\ k <= n /\ k + 1 \in 1..n
      BY <1>1
    <3>2. s \ {k + 1} = 1..k
      OBVIOUS
    <3>3. s # {} /\ k + 1 \in Nat /\ \A i \in s : i <= k + 1
      OBVIOUS
    <3> HIDE DEF s
    <3>. QED BY <3>1, <3>2, <3>3
  <2>2. Max(s) = k + 1
    <3> HIDE DEF s
    <3>1. Max(s) \in s /\ \A i \in s : i <= Max(s)
      BY <1>1, <2>1, MaxIs
    <3>2. Max(s) \in 1..n /\ Max(s) <= k + 1 /\ k + 1 <= Max(s)
      BY <2>1, <3>1
    <3>. QED BY <1>1, <2>1, <3>2
  <2> HIDE DEF s
  <2>3. F[s] = DevProc(F[1..k], pkts[k + 1], ret)
    BY <1>7, <2>1, <2>2
  <2>4. DevFit(F[1..k])
    BY <1>9, <2>1
  <2>5. DevFit(F[s])
    BY <2>1, <2>3, <2>4, DevProcIs
  <2>. QED BY <2>5 DEF s
<1> HIDE DEF T, R
<1>10. Nat \subseteq T
  BY <1>8, <1>9, SetInduction
<1>11. DevFit(R)
  BY <1>1, <1>2, <1>10 DEF T
<1>. QED BY <1>11 DEF R
-----------------------------------------------------------------------------
\* SlotFreeWhenPosting with what keeps it: no second request is posted, the
\* outstanding one is one the dialog knows, and the parsers and the lines hold
\* sequences, so that what a read brings can be gone through.
OtaInv ==
    /\ HostFit(host) /\ Mail(posted, host)
    /\ IsLine(toHost) /\ IsLine(toDev) /\ IsManager(dev)

\* A handler that leaves its thread fit keeps the invariant.
LEMMA EndsIs ==
    ASSUME OtaInv, NEW t, Fit(t), Ends(t), IsLine(toHost')
    PROVE  OtaInv'
<1>1. /\ host' = t.host /\ posted' = t.posted /\ toDev' = Line(toDev, t.out) /\ dev' = dev
  BY DEF Ends, devVars
<1>2. HostFit(t.host) /\ Mail(t.posted, t.host) /\ IsLine(Line(toDev, t.out))
  BY LineTakes DEF Fit, OtaInv
<1>. QED BY <1>1, <1>2 DEF OtaInv

\* Every handler begins with a fit thread; the one of a request finds no other.
LEMMA ThreadIs ==
    ASSUME OtaInv
    PROVE  /\ Fit(Thread)
           /\ posted # <<>> => Fit(Handling) /\ (IsSend(posted[1]) => NoSend(Handling.posted))
<1>1. Fit(Thread)
  BY ShortLines DEF Thread, Fit, ThreadFields, OtaInv
<1>2. ASSUME posted # <<>>
      PROVE  Fit(Handling) /\ (IsSend(posted[1]) => NoSend(Handling.posted))
  <2>1. Mail(Tail(posted), host) /\ (IsSend(posted[1]) => NoSend(Tail(posted)))
    BY <1>2, MailTail DEF OtaInv
  <2>2. /\ DOMAIN Handling = DOMAIN Thread /\ Handling.host = host /\ Handling.out = <<>>
        /\ Handling.posted = Tail(posted)
    BY DEF Handling, Thread
  <2>. QED BY <1>1, <2>1, <2>2, ShortLines DEF Fit, OtaInv
<1>. QED BY <1>1, <1>2

\* A download that is done posts that, and no request.
LEMMA DoneFits ==
    ASSUME NEW t, Fit(t), NEW how PROVE Fit(DownloadDone(t, how))
<1> DEFINE u == DownloadDone(t, how)
<1>1. /\ DOMAIN u = DOMAIN t /\ u.host = t.host /\ u.out = t.out
      /\ \/ u.posted = t.posted
         \/ u.posted = Append(t.posted, Download(TRUE))
  BY DoneIs DEF Fit
<1> HIDE DEF u
<1>2. ~IsSend(Download(TRUE))
  BY DEF IsSend, Download, Msg
<1>3. Mail(Append(t.posted, Download(TRUE)), t.host)
  BY <1>2, MailAppend DEF Fit
<1>4. Fit(u)
  BY <1>1, <1>3 DEF Fit
<1>. QED BY <1>4 DEF u

\* The button acts only when no message is left, so no request is posted.
LEMMA ButtonStep == ASSUME OtaInv, OnBnClickedButtonDownload PROVE OtaInv'
<1>1. posted = <<>> /\ toHost' = toHost
  BY DEF OnBnClickedButtonDownload, Input
<1>2. CASE dlg.fileLen # 0
  BY <1>2 DEF OnBnClickedButtonDownload, OtaInv, devVars
<1>3. CASE ~(dlg.fileLen # 0)
  <2> DEFINE t == [Thread EXCEPT !.posted = <<Download(FALSE)>>, !.result = "none",
                     !.dlg.handler = TRUE, !.dlg.isUpdate = TRUE, !.dlg.fileLen = Len(File)]
  <2>1. Ends(PostReq(t, REQ_OTA_START, <<Len(File)>>))
    BY <1>3 DEF OnBnClickedButtonDownload
  <2>2. /\ DOMAIN t = DOMAIN Thread /\ t.host = host /\ t.out = <<>>
        /\ t.posted = <<Download(FALSE)>>
    BY DEF Thread
  <2> HIDE DEF t
  <2>3. NoSend(<<Download(FALSE)>>)
    <3>1. ~IsSend(Download(FALSE))
      BY DEF IsSend, Download, Msg
    <3>2. \A i \in 1..1 : i = 1
      OBVIOUS
    <3>. QED BY <3>1, <3>2, TuplesAre DEF NoSend
  <2>4. Fit(t)
    BY <2>2, <2>3, ThreadIs, NoSendMail, ShortLines DEF Fit, OtaInv
  <2>5. Fit(PostReq(t, REQ_OTA_START, <<Len(File)>>))
    BY <2>2, <2>3, <2>4, PostReqIs, TuplesAre DEF OtaRequests
  <2>. QED BY <1>1, <2>1, <2>5, EndsIs DEF OtaInv
<1>. QED BY <1>2, <1>3

\* The timer's message.
LEMMA RunStep == ASSUME OtaInv, UtpRun PROVE OtaInv'
<1>1. posted # <<>> /\ Ends(UtpMgr_Run(Handling)) /\ toHost' = toHost
  BY DEF UtpRun, Dispatches
<1>2. Fit(UtpMgr_Run(Handling))
  BY <1>1, ThreadIs, RunIs
<1>. QED BY <1>1, <1>2, EndsIs DEF OtaInv

\* The posted request: the slot it finds free is taken now.
LEMMA SendStep == ASSUME OtaInv, OtaSend PROVE OtaInv'
<1>1. posted # <<>> /\ IsSend(posted[1]) /\ toHost' = toHost
  BY DEF OtaSend, Dispatches, IsSend
<1>2. Fit(Handling) /\ NoSend(Handling.posted)
  BY <1>1, ThreadIs
<1> DEFINE m == posted[1]
           data == IF m.req = REQ_OTA_UPDATE THEN <<m.offset, Block(m.offset)>> ELSE <<>>
<1>3. CASE Ends(DownloadDone(Handling, "failed"))
  BY <1>1, <1>2, <1>3, DoneFits, EndsIs DEF OtaInv
<1>4. CASE Ends(PostReq(Handling, m.req, data))
  <2>1. m.req \in OtaRequests
    <3>1. 1 \in 1..Len(posted)
      BY <1>1, TailIs, IsLen DEF OtaInv, Mail
    <3>. QED BY <1>1, <3>1 DEF OtaInv, Mail
  <2>2. IsSeq(data)
    BY TuplesAre
  <2> HIDE DEF m, data
  <2>3. Fit(PostReq(Handling, m.req, data))
    BY <1>2, <2>1, <2>2, PostReqIs
  <2>. QED BY <1>1, <1>4, <2>3, EndsIs DEF OtaInv
<1>. QED BY <1>3, <1>4 DEF OtaSend

\* Received bytes: parsed, their packets handled, then the request looked after.
LEMMA SerialStep == ASSUME OtaInv, OnSerialMsg PROVE OtaInv'
<1>1. posted # <<>> /\ toHost' = <<>>
  BY DEF OnSerialMsg, Dispatches
<1>2. Fit(Handling) /\ IsLine(toHost')
  BY <1>1, ThreadIs, ShortLines
<1>3. CASE ~dlg.handler
  BY <1>2, <1>3, EndsIs DEF OnSerialMsg
<1>4. CASE dlg.handler
  <2> DEFINE bytes == FlattenSeq(toHost)
             r == UtpMgr_Parse(Handling.host, bytes)
             t == [Handling EXCEPT !.host = r.m]
             u == FoldLeft(ProcRxPkt, t, r.pkts)
  <2>1. Utp_RxDataHandler(Handling, bytes)
    BY <1>4 DEF OnSerialMsg
  <2>2. IsSeq(bytes)
    BY FlattenedIs DEF OtaInv
  <2> HIDE DEF bytes
  <2>3. Parsed(r, Handling.host)
    BY <1>2, <2>2, ParsedIs DEF Fit, HostFit
  <2>4. Ends(UtpMgr_Run(u))
    BY <2>1 DEF Utp_RxDataHandler
  <2> HIDE DEF r
  <2>5. Fit(t)
    BY <1>2, <2>3 DEF Fit, HostFit, Parsed, Mail
  <2> HIDE DEF t
  <2>6. Fit(u)
    BY <2>3, <2>5, ProcessedIs DEF Parsed
  <2> HIDE DEF u
  <2>. QED BY <1>2, <2>4, <2>6, RunIs, EndsIs
<1>. QED BY <1>3, <1>4

\* The messages to the main window.
LEMMA DownloadStep == ASSUME OtaInv, OnDownload PROVE OtaInv'
<1>1. posted # <<>> /\ toHost' = toHost
  BY DEF OnDownload, Dispatches
<1>2. Fit(Handling)
  BY <1>1, ThreadIs
<1>3. Fit([Handling EXCEPT !.dlg.button = FALSE])
  BY <1>2 DEF Fit
<1>4. Fit([Handling EXCEPT !.dlg.fileLen = 0, !.dlg.button = TRUE])
  BY <1>2 DEF Fit
<1>5. CASE Ends([Handling EXCEPT !.dlg.button = FALSE])
  BY <1>1, <1>3, <1>5, EndsIs DEF OtaInv
<1>6. CASE Ends(DownloadDone([Handling EXCEPT !.dlg.fileLen = 0, !.dlg.button = TRUE], "failed"))
  BY <1>1, <1>4, <1>6, DoneFits, EndsIs DEF OtaInv
<1>. QED BY <1>5, <1>6 DEF OnDownload

\* The device touches neither the slot nor the posted messages.
LEMMA DeviceStep == ASSUME OtaInv, NEW ret, DeviceReceives(ret) PROVE OtaInv'
<1> DEFINE r == UtpMgr_Parse(dev, Head(toDev))
           t == [dev |-> r.m, image |-> image, out |-> <<>>, given |-> given]
           d == CarriedOut(t, r.pkts, ret)
<1>1. /\ toDev # <<>> /\ dev' = d.dev /\ toHost' = Line(toHost, d.out)
      /\ toDev' = Tail(toDev) /\ host' = host /\ posted' = posted
  BY DEF DeviceReceives, CarriedOut
<1>2. IsSeq(Head(toDev)) /\ IsLine(Tail(toDev))
  BY <1>1, LineRest DEF OtaInv
<1>3. Parsed(r, dev)
  BY <1>2, ParsedIs DEF OtaInv
<1> HIDE DEF r
<1>4. DevFit(t)
  BY <1>3, ShortLines DEF DevFit, Parsed
<1> HIDE DEF t
<1>5. DevFit(d)
  BY <1>3, <1>4, CarriedOutIs DEF Parsed
<1> HIDE DEF d
<1>6. IsLine(Line(toHost, d.out))
  BY <1>5, LineTakes DEF DevFit, OtaInv
<1>. QED BY <1>1, <1>2, <1>5, <1>6 DEF OtaInv, DevFit

\* Messages of the timer and of the listener are no requests.
LEMMA PostedStep == ASSUME OtaInv, OnTimer \/ SerialEvent PROVE OtaInv'
<1>1. CASE OnTimer
  <2>1. NoSend(<<Msg("UTP_RUN")>>)
    <3>1. ~IsSend(Msg("UTP_RUN"))
      BY DEF IsSend, Msg
    <3>2. \A i \in 1..1 : i = 1
      OBVIOUS
    <3>. QED BY <3>1, <3>2, TuplesAre DEF NoSend
  <2>. QED BY <1>1, <2>1, NoSendMail DEF OnTimer, OtaInv, devVars
<1>2. CASE SerialEvent
  <2>1. ~IsSend(Msg("SERIAL"))
    BY DEF IsSend, Msg
  <2>. QED BY <1>2, <2>1, MailAppend DEF SerialEvent, OtaInv, devVars
<1>. QED BY <1>1, <1>2

\* The clock, the line and the port.
LEMMA OtherStep ==
    ASSUME OtaInv, TimePasses \/ LineLoses \/ \E opens \in BOOLEAN : OnCbnSelchangeComNum(opens)
    PROVE  OtaInv'
<1>1. CASE TimePasses
  BY <1>1 DEF TimePasses, OtaInv, devVars, HostFit, IsManager, Mail
<1>2. CASE LineLoses
  BY <1>2, LineLost DEF LineLoses, OtaInv, devVars
<1>3. ASSUME NEW opens, OnCbnSelchangeComNum(opens) PROVE OtaInv'
  BY <1>3, ShortLines DEF OnCbnSelchangeComNum, OtaInv, devVars
<1>. QED BY <1>1, <1>2, <1>3

\* The invariant holds.
LEMMA OtaInvHolds == Spec => []OtaInv
<1>1. Init => OtaInv
  <2> SUFFICES ASSUME Init PROVE OtaInv
    OBVIOUS
  <2>1. /\ host = UtpMgr_Init /\ dev = UtpMgr_Init /\ posted = <<>> /\ toDev = <<>> /\ toHost = <<>>
    BY DEF Init
  <2>2. HostFit(UtpMgr_Init)
    BY TuplesAre DEF HostFit, IsManager, IsPacket, UtpMgr_Init, NoPacket
  <2>3. NoSend(<<>>)
    BY TuplesAre, \A i \in 1..0 : FALSE DEF NoSend
  <2>. QED BY <2>1, <2>2, <2>3, ShortLines, NoSendMail DEF OtaInv, HostFit
<1>2. OtaInv /\ [Next]_vars => OtaInv'
  <2> SUFFICES ASSUME OtaInv, [Next]_vars PROVE OtaInv'
    OBVIOUS
  <2>1. CASE Handlers
    BY <2>1, RunStep, SendStep, SerialStep, DownloadStep DEF Handlers
  <2>2. CASE OnBnClickedButtonDownload
    BY <2>2, ButtonStep
  <2>3. ASSUME NEW ret, DeviceReceives(ret) PROVE OtaInv'
    BY <2>3, DeviceStep
  <2>4. CASE OnTimer \/ SerialEvent
    BY <2>4, PostedStep
  <2>5. CASE TimePasses \/ LineLoses \/ \E opens \in BOOLEAN : OnCbnSelchangeComNum(opens)
    BY <2>5, OtherStep
  <2>6. CASE UNCHANGED vars
    BY <2>6 DEF vars, OtaInv, devVars
  <2>. QED BY <2>1, <2>2, <2>3, <2>4, <2>5, <2>6 DEF Next
<1>. QED BY <1>1, <1>2, PTL DEF Spec

\* A request that the dialog posts is never refused because another is still
\* outstanding: RspProc runs before the slot is reset and makes no request itself,
\* it posts one, and whatever else makes one waits until no message is left
\* (DlgOta.cpp:314, 344, 482, 487; UtpMgr.c:228-239).
THEOREM SlotIsFree == Spec => []SlotFreeWhenPosting
<1>1. OtaInv => SlotFreeWhenPosting
  <2> SUFFICES ASSUME OtaInv, posted # <<>>, posted[1].msg = "OTA_SEND"
               PROVE  host.req.state = "INIT"
    BY DEF SlotFreeWhenPosting, Dispatches
  <2>1. 1 \in 1..Len(posted)
    BY TailIs, IsLen DEF OtaInv, Mail
  <2>. QED BY <2>1 DEF OtaInv, Mail, IsSend
<1>. QED BY <1>1, OtaInvHolds, PTL
=============================================================================
