-------------------------- MODULE StreamKeptProofs --------------------------
(***************************************************************************)
(* A streamed answer, for any number of frames and any cut into reads: a   *)
(* truncation is reported, no [DONE] follows an error, and the bytes of a  *)
(* sound answer are kept.                                                  *)
(*                                                                         *)
(* The readers and the filter of [DONE] are recursive functions.  Their    *)
(* equations and what they compute are shown by induction over the set of  *)
(* positions where the claim holds (Induction), which rests on a least     *)
(* member of every set of numbers, not on an induction theorem with an     *)
(* operator parameter.                                                     *)
(*                                                                         *)
(* StreamInv: a terminal frame is noted only if it arrived, and the gate   *)
(* remembers an error frame as long as bytes may follow it.  KeptInv: for  *)
(* sound frames the reader's state is a function of the bytes read so far, *)
(* and what was handed on and what is held are together a prefix.          *)
(***************************************************************************)
EXTENDS ProxyRequest, FiniteSetTheorems, SequenceTheorems, TLAPS

\* Every set of numbers that is not empty has a least member: induction, in the
\* form the provers can use.
LEMMA LeastMember ==
  ASSUME NEW T, T \subseteq Nat, T # {}
  PROVE  \E m \in T : \A k \in T : m <= k
  <1> DEFINE R == StrictSubsetOrdering(Nat)
             U == {0..m : m \in T}
  <1>1. IsWellFoundedOn(R, FiniteSubsetsOf(Nat))
    BY FS_StrictSubsetOrderingWellFounded
  <1>2. U \subseteq FiniteSubsetsOf(Nat) /\ U # {}
    <2>1. \A m \in T : 0..m \subseteq Nat /\ IsFiniteSet(0..m)
      <3> SUFFICES ASSUME NEW m \in T PROVE 0..m \subseteq Nat /\ IsFiniteSet(0..m)
        OBVIOUS
      <3>1. 0 \in Int /\ m \in Int
        OBVIOUS
      <3>2. IsFiniteSet(0..m)
        BY <3>1, FS_Interval
      <3> QED BY <3>2
    <2> QED BY <2>1 DEF FiniteSubsetsOf
  <1>3. \E x \in U : \A y \in U : ~(<<y, x>> \in R)
    <2> HIDE DEF R, U
    <2> QED BY <1>1, <1>2, WFMin
  <1>4. PICK m \in T : \A k \in T : ~(<<0..k, 0..m>> \in R)
    BY <1>3
  <1>5. ASSUME NEW k \in T PROVE m <= k
    <2> SUFFICES ASSUME k < m PROVE FALSE OBVIOUS
    <2>1. 0..k \subseteq 0..m /\ m \in 0..m /\ m \notin 0..k
      OBVIOUS
    <2>2. <<0..k, 0..m>> \in R
      BY <2>1 DEF StrictSubsetOrdering
    <2> QED BY <1>4, <2>2
  <1> QED BY <1>5

\* What holds at 0, and at k if it holds at k - 1, holds up to n.
LEMMA Induction ==
  ASSUME NEW T, NEW n \in Nat, 0 \in T, \A k \in 1..n : k - 1 \in T => k \in T
  PROVE  \A k \in 0..n : k \in T
  <1> DEFINE U == {k \in 0..n : k \notin T}
  <1> SUFFICES ASSUME U # {} PROVE FALSE
    OBVIOUS
  <1>1. U \subseteq Nat
    OBVIOUS
  <1>2. PICK m \in U : \A k \in U : m <= k
    <2> HIDE DEF U
    <2> QED BY <1>1, LeastMember
  <1>3. m # 0 /\ m - 1 \in 0..n /\ m - 1 \notin U
    BY <1>2
  <1> QED BY <1>3

\* UpstreamFrames.feed, byte by byte: the equations of the recursive function.
LEMMA FeedSteps ==
  ASSUME NEW wire, NEW kind, NEW buf, NEW chunk, Len(chunk) \in Nat
  PROVE  \E read : /\ read[0] = Reader(buf)
                   /\ \A n \in 1..Len(chunk) :
                        read[n] = FeedByte(wire, kind, read[n - 1], chunk[n])
                   /\ Feed(wire, kind, buf, chunk) = read[Len(chunk)]
  <1> DEFINE Is(f, k) == f = [n \in 0..k |-> IF n = 0 THEN Reader(buf)
                                              ELSE FeedByte(wire, kind, f[n - 1], chunk[n])]
             T == {k \in 0..Len(chunk) : \E f : Is(f, k)}
  <1>1. 0 \in T
    <2> DEFINE g == [n \in 0..0 |-> Reader(buf)]
    <2>1. Is(g, 0)
      OBVIOUS
    <2> HIDE DEF g, Is
    <2> QED BY <2>1
  <1>2. ASSUME NEW k \in 1..Len(chunk), k - 1 \in T PROVE k \in T
    <2>1. PICK f : Is(f, k - 1)
      BY <1>2
    <2> DEFINE g == [n \in 0..k |-> IF n = k THEN FeedByte(wire, kind, f[k - 1], chunk[k]) ELSE f[n]]
    <2>2. Is(g, k)
      BY <2>1
    <2> HIDE DEF g, Is
    <2> QED BY <2>2
  <1>3. Len(chunk) \in T
    <2> DEFINE m == Len(chunk)
    <2>1. m \in Nat
      OBVIOUS
    <2>2. \A k \in 1..m : k - 1 \in T => k \in T
      BY <1>2
    <2> HIDE DEF T, m
    <2>3. \A k \in 0..m : k \in T
      BY <1>1, <2>1, <2>2, Induction, Zenon
    <2>4. m \in T
      BY <2>1, <2>3
    <2> QED BY <2>4 DEF m
  <1>4. PICK f : Is(f, Len(chunk))
    BY <1>3
  <1> DEFINE h == CHOOSE f_1 : Is(f_1, Len(chunk))
  <1>5. Is(h, Len(chunk))
    BY <1>4
  <1>6. Feed(wire, kind, buf, chunk) = h[Len(chunk)]
    BY DEF Feed
  <1>7. h[0] = Reader(buf)
    <2> HIDE DEF h
    <2> QED BY <1>5
  <1>8. \A n \in 1..Len(chunk) : h[n] = FeedByte(wire, kind, h[n - 1], chunk[n])
    <2> HIDE DEF h
    <2> QED BY <1>5
  <1> HIDE DEF h
  <1> QED BY <1>6, <1>7, <1>8

\* One byte more, or not.
LEMMA KeepTyped ==
  ASSUME NEW I, NEW S, NEW t \in Seq(S), NEW b \in S
  PROVE  Keep(I, t, b) \in Seq(S)
  <1>1. Append(t, b) \in Seq(S)
    OBVIOUS
  <1> QED BY <1>1, Zenon DEF Keep

\* The filter, byte by byte.
LEMMA WithoutSteps ==
  ASSUME NEW I, NEW bytes, Len(bytes) \in Nat
  PROVE  \E kept : /\ kept[0] = <<>>
                   /\ \A n \in 1..Len(bytes) :
                        kept[n] = Keep(I, kept[n - 1], bytes[n])
                   /\ Without(I, bytes) = kept[Len(bytes)]
  <1> DEFINE Is(f, k) == f = [n \in 0..k |-> IF n = 0 THEN <<>> ELSE Keep(I, f[n - 1], bytes[n])]
             T == {k \in 0..Len(bytes) : \E f : Is(f, k)}
  <1>1. 0 \in T
    <2> DEFINE g == [n \in 0..0 |-> <<>>]
    <2>1. Is(g, 0)
      OBVIOUS
    <2> HIDE DEF g, Is
    <2> QED BY <2>1
  <1>2. ASSUME NEW k \in 1..Len(bytes), k - 1 \in T PROVE k \in T
    <2>1. PICK f : Is(f, k - 1)
      BY <1>2
    <2> DEFINE g == [n \in 0..k |-> IF n = k THEN Keep(I, f[k - 1], bytes[k]) ELSE f[n]]
    <2>2. Is(g, k)
      BY <2>1
    <2> HIDE DEF g, Is
    <2> QED BY <2>2
  <1>3. Len(bytes) \in T
    <2> DEFINE m == Len(bytes)
    <2>1. m \in Nat
      OBVIOUS
    <2>2. \A k \in 1..m : k - 1 \in T => k \in T
      BY <1>2
    <2> HIDE DEF T, m
    <2>3. \A k \in 0..m : k \in T
      BY <1>1, <2>1, <2>2, Induction, Zenon
    <2>4. m \in T
      BY <2>1, <2>3
    <2> QED BY <2>4 DEF m
  <1>4. PICK f : Is(f, Len(bytes))
    BY <1>3
  <1> DEFINE h == CHOOSE f_1 : Is(f_1, Len(bytes))
  <1>5. Is(h, Len(bytes))
    BY <1>4
  <1>6. Without(I, bytes) = h[Len(bytes)]
    BY DEF Without
  <1>7. h[0] = <<>>
    <2> HIDE DEF h
    <2> QED BY <1>5
  <1>8. \A n \in 1..Len(bytes) : h[n] = Keep(I, h[n - 1], bytes[n])
    <2> HIDE DEF h
    <2> QED BY <1>5
  <1> HIDE DEF h
  <1> QED BY <1>6, <1>7, <1>8

\* What is left out of a sequence: nothing is added, the order stays.
LEMMA WithoutConcat ==
  ASSUME NEW I, NEW S, NEW s \in Seq(S), NEW t \in Seq(S)
  PROVE  /\ Without(I, s) \in Seq(S)
         /\ Without(I, s \o t) = Without(I, s) \o Without(I, t)
  <1>k. /\ \A v \in Seq(S), b \in S : Keep(I, v, b) \in Seq(S)
        /\ \A a \in Seq(S), v \in Seq(S), b \in S : Keep(I, a \o v, b) = a \o Keep(I, v, b)
    <2>1. \A v \in Seq(S), b \in S : Keep(I, v, b) \in Seq(S)
      BY KeepTyped, Zenon
    <2>2. ASSUME NEW a \in Seq(S), NEW v \in Seq(S), NEW b \in S
          PROVE  Keep(I, a \o v, b) = a \o Keep(I, v, b)
      <3>1. Append(a \o v, b) = a \o Append(v, b)
        <4> DEFINE y == Append(a \o v, b)
                   z == a \o Append(v, b)
        <4>1. y \in Seq(S) /\ z \in Seq(S) /\ Len(y) = Len(z)
          OBVIOUS
        <4>2. ASSUME NEW i \in 1..Len(y) PROVE y[i] = z[i]
          <5>1. CASE i <= Len(a)
            BY <5>1
          <5>2. CASE i > Len(a) /\ i <= Len(a) + Len(v)
            BY <5>2
          <5>3. CASE i = Len(a) + Len(v) + 1
            BY <5>3
          <5> QED BY <5>1, <5>2, <5>3
        <4> HIDE DEF y, z
        <4>3. y = z
          BY <4>1, <4>2, SeqEqual
        <4> QED BY <4>3 DEF y, z
      <3>2. Append(v, b) \in Seq(S)
        OBVIOUS
      <3>3. CASE b[1] \in I
        <4>1. \A z : Keep(I, z, b) = z
          BY <3>3 DEF Keep
        <4> QED BY <4>1
      <3>4. CASE b[1] \notin I
        <4>1. \A z : Keep(I, z, b) = Append(z, b)
          BY <3>4 DEF Keep
        <4>2. Keep(I, a \o v, b) = Append(a \o v, b) /\ Keep(I, v, b) = Append(v, b)
          BY <4>1
        <4> QED BY <3>1, <3>2, <4>2
      <3> QED BY <3>3, <3>4
    <2> QED BY <2>1, <2>2, Zenon
  <1>1. PICK f : /\ f[0] = <<>>
                 /\ \A n \in 1..Len(s) : f[n] = Keep(I, f[n - 1], s[n])
                 /\ Without(I, s) = f[Len(s)]
    BY WithoutSteps
  <1>2. PICK g : /\ g[0] = <<>>
                 /\ \A n \in 1..Len(t) : g[n] = Keep(I, g[n - 1], t[n])
                 /\ Without(I, t) = g[Len(t)]
    BY WithoutSteps
  <1> DEFINE u == s \o t
  <1>u. /\ u \in Seq(S) /\ Len(u) = Len(s) + Len(t)
        /\ \A n \in 1..Len(s) : u[n] = s[n]
        /\ \A n \in 1..Len(t) : u[Len(s) + n] = t[n]
    OBVIOUS
  <1> HIDE DEF u
  <1>v. Len(u) \in Nat
    BY <1>u
  <1>3. PICK h : /\ h[0] = <<>>
                 /\ \A n \in 1..Len(u) : h[n] = Keep(I, h[n - 1], u[n])
                 /\ Without(I, u) = h[Len(u)]
    BY <1>v, WithoutSteps
  <1>4. \A k \in 0..Len(s) : h[k] = f[k] /\ f[k] \in Seq(S)
    <2> DEFINE T == {k \in 0..Len(s) : h[k] = f[k] /\ f[k] \in Seq(S)}
    <2>1. 0 \in T
      <3>1. 0 \in 0..Len(s)
        OBVIOUS
      <3>2. h[0] = f[0] /\ f[0] \in Seq(S)
        BY <1>1, <1>3, EmptySeq, Zenon
      <3> QED BY <3>1, <3>2
    <2>2. ASSUME NEW k \in 1..Len(s), k - 1 \in T PROVE k \in T
      <3>1. h[k - 1] = f[k - 1] /\ f[k - 1] \in Seq(S)
        BY <2>2
      <3>2. u[k] = s[k] /\ s[k] \in S /\ k \in 1..Len(u)
        BY <1>u
      <3>3. h[k] = Keep(I, f[k - 1], s[k])
        BY <1>3, <3>1, <3>2
      <3>4. f[k] = Keep(I, f[k - 1], s[k])
        BY <1>1
      <3>5. f[k] \in Seq(S)
        BY <3>1, <3>2, <3>4, <1>k
      <3> QED BY <3>3, <3>4, <3>5
    <2>3. Len(s) \in Nat
      OBVIOUS
    <2>4. \A k \in 0..Len(s) : k \in T
      <3> HIDE DEF T
      <3> QED BY <2>1, <2>2, <2>3, Induction
    <2> QED BY <2>4
  <1>5. \A k \in 0..Len(t) : g[k] \in Seq(S) /\ h[Len(s) + k] = f[Len(s)] \o g[k]
    <2> DEFINE Good(k) == g[k] \in Seq(S) /\ h[Len(s) + k] = f[Len(s)] \o g[k]
               T == {k \in 0..Len(t) : Good(k)}
               a == f[Len(s)]
    <2>a. a \in Seq(S) /\ h[Len(s)] = a
      BY <1>4
    <2>1. 0 \in T
      <3>1. a \o <<>> = a
        BY <2>a
      <3>2. Len(s) + 0 = Len(s) /\ 0 \in 0..Len(t)
        OBVIOUS
      <3> HIDE DEF a
      <3>3. h[Len(s) + 0] = a \o g[0]
        BY <1>2, <2>a, <3>1, <3>2
      <3>4. g[0] \in Seq(S)
        BY <1>2, EmptySeq, Zenon
      <3> QED BY <3>2, <3>3, <3>4 DEF a
    <2> HIDE DEF a
    <2>2. ASSUME NEW k \in 1..Len(t), k - 1 \in T PROVE k \in T
      <3> DEFINE n == Len(s) + k
                 v == g[k - 1]
      <3>1. v \in Seq(S) /\ h[n - 1] = a \o v
        <4>1. n - 1 = Len(s) + (k - 1)
          OBVIOUS
        <4> QED BY <2>2, <4>1 DEF a
      <3>2. u[n] = t[k] /\ t[k] \in S /\ n \in 1..Len(u)
        BY <1>u
      <3> HIDE DEF n
      <3>3. h[n] = Keep(I, h[n - 1], t[k])
        BY <1>3, <3>2
      <3>4. g[k] = Keep(I, v, t[k])
        BY <1>2
      <3> HIDE DEF v
      <3>5. g[k] \in Seq(S)
        BY <3>1, <3>2, <3>4, <1>k
      <3>6. h[n] = a \o Keep(I, v, t[k])
        <4>1. h[n] = Keep(I, a \o v, t[k])
          BY <3>1, <3>3, Zenon
        <4>2. Keep(I, a \o v, t[k]) = a \o Keep(I, v, t[k])
          BY <3>1, <3>2, <2>a, <1>k, Zenon
        <4> QED BY <4>1, <4>2, Zenon
      <3>7. h[n] = a \o g[k]
        BY <3>4, <3>6
      <3> HIDE DEF n
      <3>8. h[Len(s) + k] = f[Len(s)] \o g[k]
        BY <3>7 DEF n, a
      <3>9. Good(k) /\ k \in 0..Len(t)
        BY <3>5, <3>8
      <3> HIDE DEF Good
      <3> QED BY <3>9
    <2>3. Len(t) \in Nat
      OBVIOUS
    <2>4. \A k \in 0..Len(t) : k \in T
      <3> HIDE DEF T
      <3> QED BY <2>1, <2>2, <2>3, Induction
    <2> QED BY <2>4
  <1>6. Without(I, s) \in Seq(S)
    BY <1>1, <1>4
  <1>7. Without(I, u) = Without(I, s) \o Without(I, t)
    <2>1. h[Len(s) + Len(t)] = f[Len(s)] \o g[Len(t)]
      <3>1. Len(t) \in 0..Len(t)
        OBVIOUS
      <3> QED BY <1>5, <3>1, Zenon
    <2> QED BY <1>1, <1>2, <1>3, <1>u, <2>1
  <1> QED BY <1>6, <1>7 DEF u

\* Only what is there is kept, and nothing of the frames in I.
LEMMA WithoutRange ==
  ASSUME NEW I, NEW S, NEW s \in Seq(S)
  PROVE  \A j \in DOMAIN Without(I, s) :
           /\ Without(I, s)[j][1] \notin I
           /\ \E k \in DOMAIN s : s[k] = Without(I, s)[j]
  <1>1. PICK f : /\ f[0] = <<>>
                 /\ \A n \in 1..Len(s) : f[n] = Keep(I, f[n - 1], s[n])
                 /\ Without(I, s) = f[Len(s)]
    BY WithoutSteps
  <1> DEFINE Kept(v) == v \in Seq(S) /\ \A j \in DOMAIN v : v[j][1] \notin I /\ \E k \in DOMAIN s : s[k] = v[j]
             T == {k \in 0..Len(s) : Kept(f[k])}
  <1>2. 0 \in T
    <2>1. 0 \in 0..Len(s)
      OBVIOUS
    <2>2. DOMAIN <<>> = {}
      OBVIOUS
    <2>3. Kept(<<>>)
      BY <2>2, EmptySeq, Zenon
    <2> HIDE DEF Kept
    <2> QED BY <1>1, <2>1, <2>3
  <1>3. ASSUME NEW k \in 1..Len(s), k - 1 \in T PROVE k \in T
    <2> DEFINE v == f[k - 1]
               w == Append(v, s[k])
    <2>1. Kept(v)
      BY <1>3
    <2> HIDE DEF v
    <2>2. s[k] \in S /\ k \in DOMAIN s
      OBVIOUS
    <2>3. CASE s[k][1] \in I
      <3>1. f[k] = v
        BY <1>1, <2>3 DEF v, Keep
      <3> HIDE DEF Kept
      <3> QED BY <3>1, <2>1
    <2>4. CASE s[k][1] \notin I
      <3>1. f[k] = w
        BY <1>1, <2>4 DEF v, Keep
      <3>2. w \in Seq(S) /\ \A j \in DOMAIN w : (j \in DOMAIN v /\ w[j] = v[j]) \/ w[j] = s[k]
        BY <2>1, <2>2
      <3> HIDE DEF w
      <3>3. Kept(w)
        BY <3>2, <2>1, <2>2, <2>4
      <3> HIDE DEF Kept
      <3> QED BY <3>1, <3>3
    <2> QED BY <2>3, <2>4
  <1>4. Len(s) \in Nat
    OBVIOUS
  <1>5. Len(s) \in T
    <2> DEFINE m == Len(s)
    <2>2. \A k \in 1..m : k - 1 \in T => k \in T
      BY <1>3
    <2>1. m \in Nat
      BY <1>4
    <2> HIDE DEF T, m
    <2>3. \A k \in 0..m : k \in T
      BY <1>2, <2>1, <2>2, Induction, Zenon
    <2>4. m \in T
      BY <2>1, <2>3
    <2> QED BY <2>4 DEF m
  <1> QED BY <1>1, <1>5

\* What is of none of the frames in I is kept.
Among(x, v) == \E k \in DOMAIN v : v[k] = x
LEMMA WithoutKeeps ==
  ASSUME NEW I, NEW S, NEW s \in Seq(S), NEW m \in 1..Len(s), s[m][1] \notin I
  PROVE  Among(s[m], Without(I, s))
  <1>1. PICK f : /\ f[0] = <<>>
                 /\ \A n \in 1..Len(s) : f[n] = Keep(I, f[n - 1], s[n])
                 /\ Without(I, s) = f[Len(s)]
    BY WithoutSteps
  <1> DEFINE Has(k, v) == v \in Seq(S) /\ (m <= k => \E i \in DOMAIN v : v[i] = s[m])
             T == {k \in 0..Len(s) : Has(k, f[k])}
  <1>2. 0 \in T
    <2>1. 0 \in 0..Len(s) /\ <<>> \in Seq(S)
      BY EmptySeq
    <2>2. Has(0, <<>>)
      BY <2>1
    <2> HIDE DEF Has
    <2> QED BY <1>1, <2>1, <2>2
  <1>3. ASSUME NEW k \in 1..Len(s), k - 1 \in T PROVE k \in T
    <2> DEFINE v == f[k - 1]
               w == Append(v, s[k])
    <2>1. Has(k - 1, v)
      BY <1>3
    <2> HIDE DEF v
    <2>2. s[k] \in S /\ (m <= k => m <= k - 1 \/ m = k)
      OBVIOUS
    <2>3. CASE s[k][1] \in I
      <3>1. f[k] = v
        BY <1>1, <2>3 DEF v, Keep
      <3>2. Has(k, v)
        BY <2>1, <2>2, <2>3
      <3> HIDE DEF Has
      <3> QED BY <3>1, <3>2
    <2>4. CASE s[k][1] \notin I
      <3>1. f[k] = w
        BY <1>1, <2>4 DEF v, Keep
      <3>2. /\ w \in Seq(S) /\ \A j \in DOMAIN v : j \in DOMAIN w /\ w[j] = v[j]
            /\ Len(w) \in DOMAIN w /\ w[Len(w)] = s[k]
        BY <2>1, <2>2
      <3> HIDE DEF w
      <3>3. Has(k, w)
        BY <3>2, <2>1, <2>2
      <3> HIDE DEF Has
      <3> QED BY <3>1, <3>3
    <2> QED BY <2>3, <2>4
  <1>4. Len(s) \in Nat
    OBVIOUS
  <1>5. Len(s) \in T
    <2> DEFINE q == Len(s)
    <2>2. \A k \in 1..q : k - 1 \in T => k \in T
      BY <1>3
    <2>1. q \in Nat
      BY <1>4
    <2> HIDE DEF T, q
    <2>3. \A k \in 0..q : k \in T
      BY <1>2, <2>1, <2>2, Induction, Zenon
    <2>4. q \in T
      BY <2>1, <2>3
    <2> QED BY <2>4 DEF q
  <1> QED BY <1>1, <1>5 DEF Among

\* What holds nothing of the frames in I stays as it is.
LEMMA WithoutNone ==
  ASSUME NEW I, NEW S, NEW s \in Seq(S), \A j \in DOMAIN s : s[j][1] \notin I
  PROVE  Without(I, s) = s
  <1>1. PICK f : /\ f[0] = <<>>
                 /\ \A n \in 1..Len(s) : f[n] = Keep(I, f[n - 1], s[n])
                 /\ Without(I, s) = f[Len(s)]
    BY WithoutSteps
  <1> DEFINE T == {k \in 0..Len(s) : f[k] = SubSeq(s, 1, k)}
  <1>2. 0 \in T
    <2>1. SubSeq(s, 1, 0) = <<>> /\ 0 \in 0..Len(s)
      OBVIOUS
    <2> QED BY <1>1, <2>1
  <1>3. ASSUME NEW k \in 1..Len(s), k - 1 \in T PROVE k \in T
    <2>1. f[k - 1] = SubSeq(s, 1, k - 1)
      BY <1>3
    <2>2. f[k] = Append(SubSeq(s, 1, k - 1), s[k])
      <3>1. s[k][1] \notin I
        OBVIOUS
      <3>2. f[k] = Keep(I, f[k - 1], s[k])
        BY <1>1
      <3> QED BY <2>1, <3>1, <3>2 DEF Keep
    <2>3. Append(SubSeq(s, 1, k - 1), s[k]) = SubSeq(s, 1, k)
      OBVIOUS
    <2> QED BY <2>2, <2>3
  <1>4. Len(s) \in Nat
    OBVIOUS
  <1>5. Len(s) \in T
    <2>1. \A k \in 0..Len(s) : k \in T
      <3> HIDE DEF T
      <3> QED BY <1>2, <1>3, <1>4, Induction
    <2> QED BY <1>4, <2>1
  <1>6. SubSeq(s, 1, Len(s)) = s
    OBVIOUS
  <1> QED BY <1>1, <1>5, <1>6

\* What holds nothing else vanishes.
LEMMA WithoutAll ==
  ASSUME NEW I, NEW S, NEW s \in Seq(S), \A j \in DOMAIN s : s[j][1] \in I
  PROVE  Without(I, s) = <<>>
  <1>1. Without(I, s) \in Seq(S)
    BY WithoutConcat
  <1>2. \A j \in DOMAIN Without(I, s) : FALSE
    BY WithoutRange
  <1> DEFINE w == Without(I, s)
  <1>3. w # <<>> => 1 \in DOMAIN w
    <2> HIDE DEF w
    <2>1. w \in Seq(S)
      BY <1>1 DEF w
    <2> QED BY <2>1, EmptySeq, LenProperties
  <1> QED BY <1>2, <1>3
-----------------------------------------------------------------------------
(* What a reader makes of a read.                                          *)

Byte == Int \X (1..3)
Reading == [buf : Seq(Byte), frames : Seq(Int), term : BOOLEAN, err : BOOLEAN]
Completes(b) == b[2] = 2 /\ b[1] # 0

\* A frame over the cap, or with a bad checksum, is refused.
Bad(wire, k) == IF EventStream(wire) THEN k = "bad" ELSE k = "big"

\* After the first n bytes of a read onto buf: the frames handed out were completed
\* in it; an exception ends only an event stream, and what it refused stays; without
\* a refusal no bad frame was completed, and an SSE reader handed out every frame
\* completed, keeps the open one, and refuses only at a frame over the cap.
OpenBytes(buf) == \A j \in DOMAIN buf : ~Completes(buf[j])
ReadSoFar(wire, kind, buf, chunk, n, acc) ==
  /\ acc \in Reading
  /\ ~EventStream(wire) => OpenBytes(acc.buf)
  /\ \A k \in DOMAIN acc.frames : acc.frames[k] # 0 /\ \E j \in 1..n : chunk[j] = <<acc.frames[k], 2>>
  /\ acc.term => EventStream(wire) /\ \E j \in 1..n : Completes(chunk[j]) /\ kind[chunk[j][1]] = "exc"
  /\ ~EventStream(wire) /\ acc.err => \E j \in 1..n : Completes(chunk[j]) /\ kind[chunk[j][1]] = "big"
  /\ ~EventStream(wire) /\ ~acc.err =>
       \A j \in 1..n : Completes(chunk[j]) => \E k \in DOMAIN acc.frames : acc.frames[k] = chunk[j][1]
  /\ EventStream(wire) /\ acc.err => Broken(acc.buf)
  /\ EventStream(wire) /\ Broken(buf) => Broken(acc.buf) /\ ~acc.term /\ (n > 0 => acc.err)
  /\ ~acc.err /\ ~acc.term => \A j \in 1..n : Completes(chunk[j]) => ~Bad(wire, kind[chunk[j][1]])

\* One byte more, of any kind, in either reader.
LEMMA ByteRead ==
  ASSUME NEW wire, NEW kind, NEW buf \in Seq(Byte), NEW chunk \in Seq(Byte), NEW n \in 1..Len(chunk), NEW acc,
         ReadSoFar(wire, kind, buf, chunk, n - 1, acc)
  PROVE  ReadSoFar(wire, kind, buf, chunk, n, FeedByte(wire, kind, acc, chunk[n]))
  <1> DEFINE b == chunk[n]
             r == FeedByte(wire, kind, acc, chunk[n])
             bufs == Append(acc.buf, b)
             more == Append(acc.frames, b[1])
  <1> SUFFICES ReadSoFar(wire, kind, buf, chunk, n, r)
    OBVIOUS
  <1>1. /\ acc \in Reading /\ acc.buf \in Seq(Byte) /\ acc.frames \in Seq(Int)
        /\ acc.term \in BOOLEAN /\ acc.err \in BOOLEAN
    BY DEF ReadSoFar, Reading
  <1>2. b \in Byte /\ b = <<b[1], b[2]>> /\ b[1] \in Int /\ b[2] \in 1..3
    BY DEF Byte
  <1>3. \A j \in 1..(n - 1) : j \in 1..n
    OBVIOUS
  <1>4. \A j \in 1..n : j \in 1..(n - 1) \/ j = n
    OBVIOUS
  <1>5. /\ bufs \in Seq(Byte) /\ more \in Seq(Int)
        /\ \A k \in DOMAIN more : (k \in DOMAIN acc.frames /\ more[k] = acc.frames[k]) \/ more[k] = b[1]
        /\ \A k \in DOMAIN acc.frames : k \in DOMAIN more /\ more[k] = acc.frames[k]
        /\ Len(more) \in DOMAIN more /\ more[Len(more)] = b[1]
    <2> DEFINE fs == acc.frames
               i == b[1]
    <2>1. bufs \in Seq(Byte)
      BY <1>1, <1>2
    <2>2. fs \in Seq(Int) /\ i \in Int
      BY <1>1, <1>2
    <2> HIDE DEF fs, i
    <2>3. Append(fs, i) \in Seq(Int) /\ Len(Append(fs, i)) = Len(fs) + 1 /\ Append(fs, i)[Len(fs) + 1] = i
      BY <2>2
    <2>4. /\ \A k \in DOMAIN Append(fs, i) : (k \in DOMAIN fs /\ Append(fs, i)[k] = fs[k]) \/ Append(fs, i)[k] = i
          /\ \A k \in DOMAIN fs : k \in DOMAIN Append(fs, i) /\ Append(fs, i)[k] = fs[k]
          /\ Len(fs) + 1 \in DOMAIN Append(fs, i)
      BY <2>2
    <2>5. more = Append(fs, i)
      BY DEF fs, i
    <2> HIDE DEF more
    <2> QED BY <2>1, <2>3, <2>4, <2>5 DEF fs, i
  <1>9. \A j \in DOMAIN bufs : (j \in DOMAIN acc.buf /\ bufs[j] = acc.buf[j]) \/ bufs[j] = b
    BY <1>1, <1>2
  <1>10. (Broken(acc.buf) => Broken(bufs)) /\ (b[2] = 2 => Broken(bufs))
    <2>1. \A j \in DOMAIN acc.buf : j \in DOMAIN bufs /\ bufs[j] = acc.buf[j]
      BY <1>1, <1>2
    <2>2. Len(acc.buf) + 1 \in DOMAIN bufs /\ bufs[Len(acc.buf) + 1] = b
      BY <1>1, <1>2
    <2> HIDE DEF bufs, b
    <2> QED BY <2>1, <2>2 DEF Broken
  <1>11. n > 0
    OBVIOUS
  <1>6. <<>> \in Seq(Byte) /\ <<>> \in Seq(Int) /\ DOMAIN <<>> = {} /\ OpenBytes(<<>>)
    <2>1. DOMAIN <<>> = {}
      OBVIOUS
    <2> QED BY EmptySeq, <2>1 DEF OpenBytes
  <1> HIDE DEF b, bufs, more
  <1>7. CASE ~EventStream(wire)
    <2>1. r = SseByte(kind, acc, b)
      BY <1>7 DEF FeedByte, b
    <2>2. CASE acc.err
      <3>1. r = acc
        BY <2>1, <2>2 DEF SseByte
      <3> QED BY <3>1, <1>3, <1>7, <2>2 DEF ReadSoFar
    <2>3. CASE ~acc.err /\ Completes(b) /\ kind[b[1]] = "big"
      <3>1. r = [Reader(<<>>) EXCEPT !.err = TRUE]
        BY <2>1, <2>3 DEF SseByte, Completes
      <3>a. r = [buf |-> <<>>, frames |-> <<>>, term |-> FALSE, err |-> TRUE]
        BY <3>1 DEF Reader
      <3>2. r \in Reading /\ r.buf = <<>> /\ r.frames = <<>> /\ r.err = TRUE /\ r.term = FALSE
        BY <3>a, <1>6 DEF Reading
      <3>b. r.err /\ ~r.term
        BY <3>2, Zenon
      <3> HIDE DEF r
      <3> QED BY <3>2, <3>b, <1>6, <1>7, <2>3 DEF ReadSoFar, b
    <2>4. CASE ~acc.err /\ Completes(b) /\ kind[b[1]] # "big"
      <3>1. r = [acc EXCEPT !.buf = <<>>, !.frames = more]
        BY <2>1, <2>4 DEF SseByte, Completes, more
      <3>2. r \in Reading /\ r.buf = <<>> /\ r.frames = more /\ r.err = acc.err /\ r.term = acc.term
        BY <3>1, <1>1, <1>5, <1>6 DEF Reading
      <3>b. (r.err <=> acc.err) /\ (r.term <=> acc.term)
        BY <3>2, Zenon
      <3> HIDE DEF r
      <3>3. ASSUME NEW k \in DOMAIN more
            PROVE  more[k] # 0 /\ \E j \in 1..n : chunk[j] = <<more[k], 2>>
        <4>1. CASE k \in DOMAIN acc.frames /\ more[k] = acc.frames[k]
          BY <4>1, <1>3 DEF ReadSoFar
        <4>2. CASE more[k] = b[1]
          <5>1. chunk[n] = <<b[1], 2>> /\ b[1] # 0 /\ n \in 1..n
            BY <1>2, <2>4 DEF b, Completes
          <5> QED BY <4>2, <5>1
        <4> QED BY <1>5, <4>1, <4>2
      <3>4. ASSUME NEW j \in 1..n, Completes(chunk[j])
            PROVE  \E k \in DOMAIN more : more[k] = chunk[j][1]
        <4>1. CASE j = n
          BY <4>1, <1>5 DEF b
        <4>2. CASE j \in 1..(n - 1)
          <5>1. PICK k \in DOMAIN acc.frames : acc.frames[k] = chunk[j][1]
            BY <4>2, <3>4, <1>7, <2>4 DEF ReadSoFar
          <5> QED BY <5>1, <1>5
        <4> QED BY <1>4, <4>1, <4>2
      <3>5. ~r.err /\ ~r.term /\ ~acc.term
        BY <3>b, <2>4, <1>7 DEF ReadSoFar
      <3>6. ASSUME NEW j \in 1..n, Completes(chunk[j]) PROVE ~Bad(wire, kind[chunk[j][1]])
        <4>1. CASE j = n
          BY <4>1, <1>7, <2>4 DEF b, Bad
        <4>2. CASE j \in 1..(n - 1)
          BY <4>2, <3>5, <3>6, <2>4 DEF ReadSoFar
        <4> QED BY <1>4, <4>1, <4>2
      <3> HIDE DEF more
      <3> QED BY <3>2, <3>3, <3>4, <3>5, <3>6, <1>6, <1>7 DEF ReadSoFar
    <2>5. CASE ~acc.err /\ ~Completes(b)
      <3>1. r = [acc EXCEPT !.buf = bufs]
        BY <2>1, <2>5 DEF SseByte, Completes, bufs
      <3>2. r \in Reading /\ r.buf = bufs /\ r.frames = acc.frames /\ r.err = acc.err /\ r.term = acc.term
        BY <3>1, <1>1, <1>5, <1>6 DEF Reading
      <3>b. (r.err <=> acc.err) /\ (r.term <=> acc.term)
        BY <3>2, Zenon
      <3> HIDE DEF r
      <3>3. OpenBytes(bufs)
        BY <1>9, <1>7, <2>5 DEF ReadSoFar, OpenBytes
      <3> QED BY <3>2, <3>3, <3>b, <1>6, <1>3, <1>4, <1>7, <2>5 DEF ReadSoFar, b
    <2> QED BY <2>2, <2>3, <2>4, <2>5
  <1>8. CASE EventStream(wire)
    <2>1. r = EventByte(kind, acc, b)
      BY <1>8 DEF FeedByte, b
    <2>2. CASE acc.term
      <3>1. r = acc
        BY <2>1, <2>2 DEF EventByte
      <3> QED BY <3>1, <1>3, <1>8, <2>2 DEF ReadSoFar
    <2>7. CASE ~acc.term /\ Broken(acc.buf)
      <3>1. r = [acc EXCEPT !.buf = bufs, !.frames = <<>>, !.err = TRUE]
        BY <2>1, <2>7 DEF EventByte, bufs
      <3>2. r \in Reading /\ r.buf = bufs /\ r.frames = <<>> /\ r.err = TRUE /\ r.term = acc.term
        BY <3>1, <1>1, <1>5, <1>6 DEF Reading
      <3>b. r.err /\ ~r.term
        BY <3>2, <2>7, Zenon
      <3> HIDE DEF r
      <3> QED BY <3>2, <3>b, <1>6, <1>8, <1>10, <2>7 DEF ReadSoFar
    <2>8. ~acc.term /\ ~Broken(acc.buf) => ~acc.err /\ ~Broken(buf)
      BY <1>8 DEF ReadSoFar
    <2>3. CASE ~(Broken(acc.buf) \/ acc.term) /\ b[2] # 2
      <3>1. r = [acc EXCEPT !.buf = bufs]
        BY <2>1, <2>3 DEF EventByte, bufs
      <3>2. r \in Reading /\ r.frames = acc.frames /\ r.err = acc.err /\ r.term = acc.term
        BY <3>1, <1>1, <1>5, <1>6 DEF Reading
      <3>b. (r.err <=> acc.err) /\ (r.term <=> acc.term)
        BY <3>2, Zenon
      <3> HIDE DEF r
      <3>4. ~r.err /\ ~r.term /\ ~acc.err /\ ~acc.term /\ ~Broken(buf)
        BY <3>b, <2>3, <2>8
      <3>5. \A j \in 1..n : Completes(chunk[j]) => ~Bad(wire, kind[chunk[j][1]])
        BY <3>4, <1>4, <2>3 DEF ReadSoFar, Completes, b
      <3> QED BY <3>2, <3>4, <3>5, <1>6, <1>3, <1>8 DEF ReadSoFar
    <2>4. CASE ~(Broken(acc.buf) \/ acc.term) /\ b[2] = 2 /\ (b[1] = 0 \/ kind[b[1]] = "bad")
      <3>1. r = [acc EXCEPT !.buf = bufs, !.frames = <<>>, !.err = TRUE]
        BY <2>1, <2>4 DEF EventByte, bufs
      <3>2. r \in Reading /\ r.buf = bufs /\ r.frames = <<>> /\ r.err = TRUE /\ r.term = acc.term
        BY <3>1, <1>1, <1>5, <1>6 DEF Reading
      <3>b. r.err /\ ~r.term /\ Broken(bufs)
        BY <3>2, <2>4, <1>10, Zenon
      <3> HIDE DEF r
      <3> QED BY <3>2, <3>b, <1>6, <1>8, <2>4 DEF ReadSoFar
    <2>5. CASE ~(Broken(acc.buf) \/ acc.term) /\ b[2] = 2 /\ ~(b[1] = 0 \/ kind[b[1]] = "bad") /\ kind[b[1]] = "exc"
      <3>1. r = [acc EXCEPT !.buf = <<>>, !.term = TRUE]
        BY <2>1, <2>5 DEF EventByte
      <3>2. r \in Reading /\ r.frames = acc.frames /\ r.err = acc.err /\ r.term = TRUE
        BY <3>1, <1>1, <1>5, <1>6 DEF Reading
      <3>b. (r.err <=> acc.err) /\ r.term
        BY <3>2, Zenon
      <3> HIDE DEF r
      <3>3. n \in 1..n /\ Completes(chunk[n]) /\ kind[chunk[n][1]] = "exc"
        BY <2>5 DEF Completes, b
      <3>4. \A k \in DOMAIN r.frames : r.frames[k] # 0 /\ \E j \in 1..n : chunk[j] = <<r.frames[k], 2>>
        BY <3>2, <1>3 DEF ReadSoFar
      <3>5. ~r.err /\ r.term /\ ~Broken(buf)
        BY <3>b, <2>5, <2>8
      <3> QED BY <3>2, <3>5, <3>3, <3>4, <1>8 DEF ReadSoFar
    <2>6. CASE ~(Broken(acc.buf) \/ acc.term) /\ b[2] = 2 /\ ~(b[1] = 0 \/ kind[b[1]] = "bad") /\ kind[b[1]] # "exc"
      <3>1. r = [acc EXCEPT !.buf = <<>>, !.frames = more]
        BY <2>1, <2>6 DEF EventByte, more
      <3>2. r \in Reading /\ r.frames = more /\ r.err = acc.err /\ r.term = acc.term
        BY <3>1, <1>1, <1>5, <1>6 DEF Reading
      <3>b. (r.err <=> acc.err) /\ (r.term <=> acc.term)
        BY <3>2, Zenon
      <3> HIDE DEF r
      <3>3. ASSUME NEW k \in DOMAIN more
            PROVE  more[k] # 0 /\ \E j \in 1..n : chunk[j] = <<more[k], 2>>
        <4>1. CASE k \in DOMAIN acc.frames /\ more[k] = acc.frames[k]
          BY <4>1, <1>3 DEF ReadSoFar
        <4>2. CASE more[k] = b[1]
          <5>1. chunk[n] = <<b[1], 2>> /\ b[1] # 0 /\ n \in 1..n
            BY <1>2, <2>6 DEF b, Completes
          <5> QED BY <4>2, <5>1
        <4> QED BY <1>5, <4>1, <4>2
      <3>5. ~r.term /\ ~r.err /\ ~acc.err /\ ~acc.term /\ ~Broken(buf)
        BY <3>b, <2>6, <2>8
      <3>6. ASSUME NEW j \in 1..n, Completes(chunk[j]) PROVE ~Bad(wire, kind[chunk[j][1]])
        <4>1. CASE j = n
          BY <4>1, <1>8, <2>6 DEF b, Bad
        <4>2. CASE j \in 1..(n - 1)
          BY <4>2, <3>5, <3>6 DEF ReadSoFar
        <4> QED BY <1>4, <4>1, <4>2
      <3> HIDE DEF more
      <3> QED BY <3>2, <3>3, <3>5, <3>6, <1>8 DEF ReadSoFar
    <2> QED BY <2>2, <2>3, <2>4, <2>5, <2>6, <2>7
  <1> QED BY <1>7, <1>8

\* A whole read.
LEMMA FeedRead ==
  ASSUME NEW wire, NEW kind, NEW buf \in Seq(Byte), NEW chunk \in Seq(Byte),
         ~EventStream(wire) => OpenBytes(buf)
  PROVE  ReadSoFar(wire, kind, buf, chunk, Len(chunk), Feed(wire, kind, buf, chunk))
  <1>1. Len(chunk) \in Nat
    OBVIOUS
  <1>2. PICK read : /\ read[0] = Reader(buf)
                    /\ \A n \in 1..Len(chunk) :
                         read[n] = FeedByte(wire, kind, read[n - 1], chunk[n])
                    /\ Feed(wire, kind, buf, chunk) = read[Len(chunk)]
    BY <1>1, FeedSteps
  <1> DEFINE T == {n \in 0..Len(chunk) : ReadSoFar(wire, kind, buf, chunk, n, read[n])}
  <1>3. 0 \in T
    <2>1. /\ Reader(buf) \in Reading /\ Reader(buf).frames = <<>> /\ Reader(buf).buf = buf
          /\ Reader(buf).term = FALSE /\ Reader(buf).err = FALSE
      BY DEF Reader, Reading
    <2>2. ReadSoFar(wire, kind, buf, chunk, 0, Reader(buf))
      BY <2>1 DEF ReadSoFar
    <2> QED BY <1>1, <1>2, <2>2
  <1>4. ASSUME NEW n \in 1..Len(chunk), n - 1 \in T PROVE n \in T
    <2>1. ReadSoFar(wire, kind, buf, chunk, n, FeedByte(wire, kind, read[n - 1], chunk[n]))
      BY <1>4, ByteRead
    <2> QED BY <1>2, <2>1
  <1>5. \A n \in 0..Len(chunk) : n \in T
    <2> HIDE DEF T
    <2> QED BY <1>1, <1>3, <1>4, Induction
  <1> QED BY <1>1, <1>2, <1>5
-----------------------------------------------------------------------------
(* The streamed answer and the state of its reader.                        *)

Pages == {None, "completion", "failure", "html", "huge"}
Gates == [buf : Seq(Byte), saw : BOOLEAN, term : BOOLEAN, verr : BOOLEAN, drop : BOOLEAN, held : Seq(Byte)]

UpType ==
  /\ up = [kind |-> up.kind, page |-> up.page, cut |-> up.cut, end |-> up.end, whole |-> up.whole, pos |-> up.pos]
  /\ up.kind \in Seq(Kinds(setup.wire)) /\ up.page \in Pages
  /\ up.page # None => up.kind = <<>>
  /\ up.whole \in BOOLEAN /\ up.cut \in Nat /\ up.pos \in Nat /\ up.pos <= up.cut /\ up.cut <= Len(Bytes(up))

StreamType ==
  /\ setup.wire \in {"chat", "responses", "converse"}
  /\ UpType
  /\ gate \in Gates
  /\ ~EventStream(setup.wire) => OpenBytes(gate.buf)
  /\ out \in Seq(Byte)
  /\ done \in BOOLEAN

\* The open frame of an SSE reader is the one the bytes up to n break off in.
OpenAt(buf, n) ==
  ~EventStream(setup.wire) /\ buf # <<>> /\ buf[1][1] # 0 => buf[1][1] \in DOMAIN up.kind /\ 2 * buf[1][1] - 1 = n

\* The bytes of the answer, and where its frames are complete.
LEMMA BytesAre ==
  ASSUME UpType
  PROVE  /\ Bytes(up) \in Seq(Byte)
         /\ up.page = None => /\ Len(Bytes(up)) = 2 * Len(up.kind)
                              /\ \A j \in 1..(2 * Len(up.kind)) : Bytes(up)[j] = <<(j + 1) \div 2, 2 - (j % 2)>>
         /\ up.page # None => Bytes(up) = Whole(0)
         /\ \A j \in DOMAIN Bytes(up) : Completes(Bytes(up)[j]) =>
              Bytes(up)[j][1] \in DOMAIN up.kind /\ 2 * Bytes(up)[j][1] = j
  <1>1. up.kind \in Seq(Kinds(setup.wire)) /\ Len(up.kind) \in Nat /\ DOMAIN up.kind = 1..Len(up.kind)
    BY DEF UpType
  <1>2. CASE up.page = None
    <2> DEFINE n == Len(up.kind)
               b == [j \in 1..(2 * n) |-> <<(j + 1) \div 2, 2 - (j % 2)>>]
    <2>n. n \in Nat
      BY <1>1
    <2>1. \A j \in 1..(2 * n) : (j + 1) \div 2 \in 1..n /\ 2 - (j % 2) \in 1..2
                                /\ (2 - (j % 2) = 2 => 2 * ((j + 1) \div 2) = j)
      BY <2>n
    <2> HIDE DEF n
    <2>2. Ids(n) = [i \in 1..n |-> i] /\ Len(Ids(n)) = n
      BY <2>n DEF Ids
    <2>3. AllOf(Ids(n)) = b
      BY <2>1, <2>2, <2>n DEF AllOf
    <2>4. Bytes(up) = b
      BY <1>2, <2>3 DEF Bytes, n
    <2>5. b \in [1..(2 * n) -> Byte] /\ 2 * n \in Nat
      BY <2>1, <2>n DEF Byte
    <2>6. b \in Seq(Byte) /\ Len(b) = 2 * n /\ DOMAIN b = 1..(2 * n)
      <3> DEFINE m == 2 * n
      <3>1. b \in [1..m -> Byte] /\ m \in Nat
        BY <2>5
      <3> HIDE DEF m, b
      <3>2. b \in Seq(Byte) /\ Len(b) = m /\ DOMAIN b = 1..m
        BY <3>1
      <3> QED BY <3>2 DEF m
    <2>7. \A j \in 1..(2 * n) : b[j] = <<(j + 1) \div 2, 2 - (j % 2)>>
      OBVIOUS
    <2> HIDE DEF b
    <2>8. ASSUME NEW j \in 1..(2 * n), Completes(b[j])
          PROVE  b[j][1] \in 1..n /\ 2 * b[j][1] = j
      <3>1. b[j][1] = (j + 1) \div 2 /\ b[j][2] = 2 - (j % 2)
        BY <2>7
      <3> QED BY <3>1, <2>1, <2>8 DEF Completes
    <2>9. DOMAIN up.kind = 1..n
      BY <1>1 DEF n
    <2>10. /\ Len(Bytes(up)) = 2 * Len(up.kind)
           /\ \A j \in 1..(2 * Len(up.kind)) : Bytes(up)[j] = <<(j + 1) \div 2, 2 - (j % 2)>>
      BY <2>4, <2>6, <2>7 DEF n
    <2> QED BY <1>2, <2>4, <2>6, <2>8, <2>9, <2>10
  <1>3. CASE up.page # None
    <2>1. Bytes(up) = Whole(0)
      BY <1>3 DEF Bytes
    <2>2. Whole(0) \in Seq(Byte) /\ \A j \in DOMAIN Whole(0) : ~Completes(Whole(0)[j])
      BY DEF Whole, Byte, Completes
    <2> QED BY <1>3, <2>1, <2>2
  <1> QED BY <1>2, <1>3

\* One read takes the next n bytes.
Chunk(n) == SubSeq(Bytes(up), up.pos + 1, up.pos + n)

\* The bytes of a read are the next of the answer.
LEMMA ChunkIs ==
  ASSUME UpType, NEW n \in 1..(up.cut - up.pos)
  PROVE  /\ Chunk(n) \in Seq(Byte) /\ Len(Chunk(n)) = n
         /\ \A j \in 1..n : Chunk(n)[j] = Bytes(up)[up.pos + j] /\ up.pos + j \in DOMAIN Bytes(up)
         /\ \A j \in DOMAIN Chunk(n) : Completes(Chunk(n)[j]) =>
              Chunk(n)[j][1] \in DOMAIN up.kind /\ 2 * Chunk(n)[j][1] <= up.pos + n
  <1> DEFINE b == Bytes(up)
             c == Chunk(n)
  <1>1. /\ b \in Seq(Byte)
        /\ \A j \in DOMAIN b : Completes(b[j]) => b[j][1] \in DOMAIN up.kind /\ 2 * b[j][1] = j
    BY BytesAre
  <1>2. up.pos \in Nat /\ up.cut \in Nat /\ up.cut <= Len(b)
    BY DEF UpType
  <1>3. c = SubSeq(b, up.pos + 1, up.pos + n)
    BY DEF Chunk
  <1> HIDE DEF b, c
  <1>4. /\ c \in Seq(Byte) /\ Len(c) = n /\ DOMAIN c = 1..n
        /\ \A j \in 1..n : c[j] = b[up.pos + j] /\ up.pos + j \in DOMAIN b
    <2> DEFINE m == up.pos + 1
               q == up.pos + n
    <2>1. m \in Int /\ q \in Int /\ m <= q /\ 1 <= m /\ q <= Len(b) /\ q - m + 1 = n
      BY <1>1, <1>2
    <2>2. \A j \in 1..n : m + j - 1 = up.pos + j
      BY <1>2
    <2>3. c = SubSeq(b, m, q)
      BY <1>3
    <2> HIDE DEF m, q
    <2>4. \A i \in m..q : b[i] \in Byte /\ i \in DOMAIN b
      BY <1>1, <2>1
    <2>5. c \in Seq(Byte) /\ Len(c) = IF m <= q THEN q - m + 1 ELSE 0
      BY <2>1, <2>3, <2>4, SubSeqProperties
    <2>6. \A i \in 1..(q - m + 1) : c[i] = b[m + i - 1]
      BY <2>1, <2>3, <2>4, SubSeqProperties
    <2>7. Len(c) = n /\ DOMAIN c = 1..n
      BY <2>1, <2>5
    <2>8. \A j \in 1..n : m + j - 1 \in m..q
      BY <2>1
    <2> QED BY <2>1, <2>2, <2>4, <2>5, <2>6, <2>7, <2>8
  <1>5. ASSUME NEW j \in 1..n, Completes(c[j])
        PROVE  c[j][1] \in DOMAIN up.kind /\ 2 * c[j][1] <= up.pos + n
    <2>1. c[j] = b[up.pos + j] /\ up.pos + j \in DOMAIN b
      BY <1>4
    <2>2. c[j][1] \in DOMAIN up.kind /\ 2 * c[j][1] = up.pos + j
      BY <1>1, <1>5, <2>1
    <2> QED BY <2>2, <1>2
  <1> QED BY <1>4, <1>5 DEF b, c

\* What the frames of a read are, in terms of the answer.
LEMMA FedIs ==
  ASSUME StreamType, NEW n \in 1..(up.cut - up.pos)
  PROVE  LET fed == Feed(setup.wire, up.kind, gate.buf, Chunk(n)) IN
         /\ fed \in Reading
         /\ ~EventStream(setup.wire) => OpenBytes(fed.buf)
         /\ \A k \in DOMAIN fed.frames : fed.frames[k] \in DOMAIN up.kind /\ 2 * fed.frames[k] <= up.pos + n
         /\ fed.term => /\ EventStream(setup.wire)
                       /\ \E j \in DOMAIN Chunk(n) : Completes(Chunk(n)[j]) /\ up.kind[Chunk(n)[j][1]] = "exc"
         /\ EventStream(setup.wire) /\ fed.err => Broken(fed.buf)
         /\ EventStream(setup.wire) /\ Broken(gate.buf) => Broken(fed.buf) /\ fed.err
         /\ ~fed.err /\ ~fed.term /\ GivenUp(up.pos + n) => GivenUp(up.pos)
         /\ ~EventStream(setup.wire) /\ fed.err =>
              \E j \in DOMAIN Chunk(n) : Completes(Chunk(n)[j]) /\ up.kind[Chunk(n)[j][1]] = "big"
         /\ ~EventStream(setup.wire) /\ ~fed.err =>
              \A j \in DOMAIN Chunk(n) : Completes(Chunk(n)[j]) =>
                \E k \in DOMAIN fed.frames : fed.frames[k] = Chunk(n)[j][1]
  <1> DEFINE fed == Feed(setup.wire, up.kind, gate.buf, Chunk(n))
             c == Chunk(n)
  <1>1. /\ c \in Seq(Byte) /\ Len(c) = n /\ DOMAIN c = 1..n
        /\ \A j \in DOMAIN c : Completes(c[j]) => c[j][1] \in DOMAIN up.kind /\ 2 * c[j][1] <= up.pos + n
    BY ChunkIs DEF StreamType
  <1>2. gate.buf \in Seq(Byte) /\ (~EventStream(setup.wire) => OpenBytes(gate.buf))
    BY DEF StreamType, Gates
  <1>3. ReadSoFar(setup.wire, up.kind, gate.buf, c, n, fed)
    BY <1>1, <1>2, FeedRead
  <1> HIDE DEF fed, c
  <1>4. ASSUME NEW k \in DOMAIN fed.frames
        PROVE  fed.frames[k] \in DOMAIN up.kind /\ 2 * fed.frames[k] <= up.pos + n
    <2>1. PICK j \in 1..n : c[j] = <<fed.frames[k], 2>> /\ fed.frames[k] # 0
      BY <1>3 DEF ReadSoFar
    <2>2. Completes(c[j]) /\ c[j][1] = fed.frames[k]
      BY <2>1 DEF Completes
    <2> QED BY <1>1, <2>2
  <1>5. fed.term => EventStream(setup.wire) /\ \E j \in DOMAIN c : Completes(c[j]) /\ up.kind[c[j][1]] = "exc"
    BY <1>1, <1>3 DEF ReadSoFar
  <1>9. /\ EventStream(setup.wire) /\ fed.err => Broken(fed.buf)
        /\ EventStream(setup.wire) /\ Broken(gate.buf) => Broken(fed.buf) /\ fed.err
    BY <1>3 DEF ReadSoFar
  <1>10. ASSUME ~fed.err, ~fed.term, GivenUp(up.pos + n) PROVE GivenUp(up.pos)
    <2>1. PICK i \in DOMAIN up.kind : 2 * i <= up.pos + n /\ up.kind[i] \in {"big", "bad"}
      BY <1>10 DEF GivenUp
    <2>2. CASE 2 * i <= up.pos
      BY <2>1, <2>2 DEF GivenUp
    <2>3. CASE 2 * i > up.pos
      <3>1. up.kind \in Seq(Kinds(setup.wire)) /\ up.pos \in Nat /\ i \in 1..Len(up.kind)
        BY DEF StreamType, UpType
      <3>2. up.page = None
        <4>1. up.kind # <<>>
          BY <3>1
        <4> QED BY <4>1 DEF StreamType, UpType
      <3> DEFINE j == 2 * i - up.pos
      <3>3. j \in 1..n /\ up.pos + j = 2 * i /\ 2 * i \in 1..(2 * Len(up.kind))
        BY <2>1, <2>3, <3>1
      <3>4. Bytes(up)[2 * i] = <<(2 * i + 1) \div 2, 2 - ((2 * i) % 2)>>
        BY <3>2, <3>3, BytesAre DEF StreamType
      <3>5. (2 * i + 1) \div 2 = i /\ 2 - ((2 * i) % 2) = 2 /\ i # 0
        <4>1. \A m \in Nat : (2 * m + 1) \div 2 = m /\ 2 - ((2 * m) % 2) = 2
          OBVIOUS
        <4>2. i \in Nat /\ i # 0
          BY <3>1
        <4> QED BY <4>1, <4>2
      <3>6. c[j] = Bytes(up)[up.pos + j]
        BY <3>3, ChunkIs DEF StreamType, c
      <3>7. Completes(c[j]) /\ c[j][1] = i
        <4> HIDE DEF j
        <4>1. c[j] = <<i, 2>>
          <5>1. c[j] = <<(2 * i + 1) \div 2, 2 - ((2 * i) % 2)>>
            BY <3>3, <3>4, <3>6
          <5> QED BY <5>1, <3>5, Zenon
        <4> QED BY <4>1, <3>5 DEF Completes
      <3>8. ~Bad(setup.wire, up.kind[i])
        BY <3>3, <3>7, <1>3, <1>10 DEF ReadSoFar
      <3>9. up.kind[i] \in Kinds(setup.wire)
        BY <3>1
      <3> QED BY <2>1, <3>8, <3>9 DEF Bad, Kinds
    <2> QED BY <2>2, <2>3, <2>1, <1>1 DEF StreamType, UpType
  <1>6. fed \in Reading /\ (~EventStream(setup.wire) => OpenBytes(fed.buf))
    BY <1>3 DEF ReadSoFar
  <1>7. ~EventStream(setup.wire) /\ fed.err => \E j \in DOMAIN c : Completes(c[j]) /\ up.kind[c[j][1]] = "big"
    BY <1>1, <1>3 DEF ReadSoFar
  <1>8. ~EventStream(setup.wire) /\ ~fed.err =>
          \A j \in DOMAIN c : Completes(c[j]) => \E k \in DOMAIN fed.frames : fed.frames[k] = c[j][1]
    BY <1>1, <1>3 DEF ReadSoFar
  <1> QED BY <1>4, <1>5, <1>6, <1>7, <1>8, <1>9, <1>10 DEF fed, c

\* What an SSE reader keeps is the frame the bytes break off in.
LEMMA OpenLast ==
  ASSUME StreamType, OpenAt(gate.buf, up.pos), NEW n \in 1..(up.cut - up.pos),
         ~Feed(setup.wire, up.kind, gate.buf, Chunk(n)).err
  PROVE  OpenAt(Feed(setup.wire, up.kind, gate.buf, Chunk(n)).buf, up.pos + n)
  <1> SUFFICES ASSUME ~EventStream(setup.wire)
               PROVE  OpenAt(Feed(setup.wire, up.kind, gate.buf, Chunk(n)).buf, up.pos + n)
    BY DEF OpenAt
  <1> DEFINE c == Chunk(n)
  <1>1. /\ c \in Seq(Byte) /\ Len(c) = n /\ up.pos \in Nat /\ n \in Nat
        /\ \A j \in 1..n : c[j] = Bytes(up)[up.pos + j] /\ up.pos + j \in DOMAIN Bytes(up)
    BY ChunkIs DEF StreamType, UpType
  <1>2. PICK read : /\ read[0] = Reader(gate.buf)
                    /\ \A k \in 1..Len(c) : read[k] = FeedByte(setup.wire, up.kind, read[k - 1], c[k])
                    /\ Feed(setup.wire, up.kind, gate.buf, c) = read[Len(c)]
    <2>1. Len(c) \in Nat
      BY <1>1
    <2> QED BY <2>1, FeedSteps
  <1> HIDE DEF c
  <1> DEFINE At(k, r) == r \in Reading /\ (r.err \/ OpenAt(r.buf, up.pos + k))
             T == {k \in 0..n : At(k, read[k])}
  <1>3. 0 \in T
    <2>1. /\ Reader(gate.buf) \in Reading /\ Reader(gate.buf).buf = gate.buf
      BY DEF Reader, Reading, StreamType, Gates
    <2>2. At(0, Reader(gate.buf))
      BY <1>1, <2>1
    <2> HIDE DEF At
    <2> QED BY <1>1, <1>2, <2>2
  <1>4. ASSUME NEW k \in 1..n, k - 1 \in T PROVE k \in T
    <2> DEFINE a == read[k - 1]
               q == up.pos + k
               b == c[k]
               r == SseByte(up.kind, a, b)
    <2>1. a \in Reading /\ (a.err \/ OpenAt(a.buf, q - 1))
      BY <1>1, <1>4
    <2>2. read[k] = r
      BY <1>1, <1>2 DEF FeedByte
    <2>3. b \in Byte /\ b = Bytes(up)[q] /\ q \in DOMAIN Bytes(up)
      BY <1>1
    <2>t. a.buf \in Seq(Byte) /\ a.frames \in Seq(Int) /\ a.err \in BOOLEAN /\ a.term \in BOOLEAN /\ q \in Nat
      BY <2>1, <1>1 DEF Reading
    <2> HIDE DEF a, q, b
    <2>4. CASE a.err
      <3>1. r = a
        BY <2>4 DEF SseByte
      <3> QED BY <2>1, <2>2, <2>4, <3>1
    <2>e. <<>> \in Seq(Byte) /\ <<>> \in Seq(Int) /\ OpenAt(<<>>, q)
      BY EmptySeq DEF OpenAt
    <2>5. CASE ~a.err /\ b[2] = 2 /\ b[1] # 0
      <3>1. r = IF up.kind[b[1]] = "big" THEN [Reader(<<>>) EXCEPT !.err = TRUE]
                ELSE [a EXCEPT !.buf = <<>>, !.frames = Append(@, b[1])]
        BY <2>5 DEF SseByte
      <3>2. b[1] \in Int
        BY <2>3 DEF Byte
      <3>3. Append(a.frames, b[1]) \in Seq(Int)
        BY <3>2, <2>t
      <3>4. r \in Reading /\ r.buf = <<>>
        <4>1. CASE up.kind[b[1]] = "big"
          BY <3>1, <4>1, <2>e DEF Reader, Reading
        <4>2. CASE up.kind[b[1]] # "big"
          BY <3>1, <4>2, <2>e, <2>1, <3>3 DEF Reading
        <4> QED BY <4>1, <4>2
      <3> HIDE DEF r
      <3>5. At(k, r)
        BY <3>4, <2>e DEF q
      <3> HIDE DEF At
      <3> QED BY <2>2, <3>5
    <2>6. CASE ~a.err /\ ~(b[2] = 2 /\ b[1] # 0)
      <3> DEFINE v == Append(a.buf, b)
      <3>1. r = [a EXCEPT !.buf = v]
        BY <2>6 DEF SseByte
      <3>2. v \in Seq(Byte) /\ (a.buf = <<>> => v[1] = b) /\ (a.buf # <<>> => v[1] = a.buf[1])
        <4> DEFINE ab == a.buf
        <4>1. ab \in Seq(Byte)
          BY <2>t
        <4> HIDE DEF ab
        <4>2. /\ Append(ab, b) \in Seq(Byte) /\ (ab = <<>> => Append(ab, b)[1] = b)
              /\ (ab # <<>> => Append(ab, b)[1] = ab[1])
          BY <4>1, <2>3
        <4> QED BY <4>2 DEF ab
      <3>3. r \in Reading /\ r.buf = v
        BY <3>1, <3>2, <2>1 DEF Reading
      <3> HIDE DEF r, v
      <3>4. OpenAt(v, q)
        <4> SUFFICES ASSUME v # <<>>, v[1][1] # 0
                     PROVE  v[1][1] \in DOMAIN up.kind /\ 2 * v[1][1] - 1 = q
          BY DEF OpenAt
        <4>1. up.kind \in Seq(Kinds(setup.wire)) /\ (up.page # None => up.kind = <<>>) /\ UpType
          BY DEF StreamType, UpType
        <4>2. a.buf # <<>> => a.buf[1][1] \in DOMAIN up.kind /\ 2 * a.buf[1][1] = q
          <5> SUFFICES ASSUME a.buf # <<>> PROVE a.buf[1][1] \in DOMAIN up.kind /\ 2 * a.buf[1][1] = q
            OBVIOUS
          <5> DEFINE i == a.buf[1][1]
          <5>1. i # 0
            BY <3>2
          <5>2. i \in DOMAIN up.kind /\ 2 * i - 1 = q - 1
            BY <5>1, <2>1, <2>6 DEF OpenAt
          <5>3. i \in Nat
            BY <4>1, <5>2
          <5> HIDE DEF i
          <5>4. \A x, y \in Nat : 2 * x - 1 = y - 1 => 2 * x = y
            OBVIOUS
          <5>5. 2 * i = q
            BY <5>2, <5>3, <5>4, <2>t
          <5> QED BY <5>2, <5>5 DEF i
        <4>3. CASE up.page # None
          <5>1. DOMAIN up.kind = {}
            BY <4>1, <4>3
          <5>2. a.buf = <<>> /\ v[1] = b
            BY <4>2, <5>1, <3>2
          <5>3. b[1] = 0
            <6>1. Bytes(up) = Whole(0)
              BY <4>1, <4>3, BytesAre
            <6>2. q \in 1..2
              BY <6>1, <2>3 DEF Whole
            <6> QED BY <6>1, <6>2, <2>3 DEF Whole
          <5> QED BY <5>2, <5>3
        <4>4. CASE up.page = None
          <5>1. q \in 1..(2 * Len(up.kind)) /\ b = <<(q + 1) \div 2, 2 - (q % 2)>>
            <6>1. /\ Len(Bytes(up)) = 2 * Len(up.kind) /\ Bytes(up) \in Seq(Byte)
                  /\ \A j \in 1..(2 * Len(up.kind)) : Bytes(up)[j] = <<(j + 1) \div 2, 2 - (j % 2)>>
              BY <4>1, <4>4, BytesAre
            <6>2. q \in 1..(2 * Len(up.kind))
              BY <6>1, <2>3
            <6> QED BY <6>1, <6>2, <2>3
          <5>2. Len(up.kind) \in Nat /\ DOMAIN up.kind = 1..Len(up.kind)
            BY <4>1
          <5>3. b[1] = (q + 1) \div 2 /\ b[2] = 2 - (q % 2)
            BY <5>1
          <5>4. (q + 1) \div 2 \in 1..Len(up.kind) /\ (q % 2 = 0 \/ 2 * ((q + 1) \div 2) - 1 = q)
            <6> DEFINE m == Len(up.kind)
            <6>1. m \in Nat /\ q \in 1..(2 * m)
              BY <5>1, <5>2
            <6> HIDE DEF m
            <6>2. (q + 1) \div 2 \in 1..m
              BY <6>1
            <6>3. q % 2 = 0 \/ 2 * ((q + 1) \div 2) - 1 = q
              BY <6>1
            <6> QED BY <6>2, <6>3 DEF m
          <5>5. q % 2 # 0
            BY <5>3, <5>4, <2>6
          <5>6. a.buf = <<>>
            <6> SUFFICES ASSUME a.buf # <<>> PROVE FALSE
              OBVIOUS
            <6> DEFINE i == a.buf[1][1]
            <6>1. i \in 1..Len(up.kind) /\ 2 * i = q
              BY <4>2, <5>2
            <6> HIDE DEF i
            <6> QED BY <6>1, <5>2, <5>5
          <5> QED BY <5>2, <5>3, <5>4, <5>5, <5>6, <3>2
        <4> QED BY <4>3, <4>4
      <3>5. At(k, r)
        BY <3>3, <3>4 DEF q
      <3> HIDE DEF At
      <3> QED BY <2>2, <3>5
    <2> QED BY <2>4, <2>5, <2>6
  <1>5. \A k \in 0..n : k \in T
    <2> HIDE DEF T
    <2> QED BY <1>1, <1>3, <1>4, Induction
  <1>6. At(n, read[n])
    BY <1>1, <1>5
  <1> QED BY <1>1, <1>2, <1>6 DEF c
-----------------------------------------------------------------------------
(* What is handed on.                                                      *)

EndsErr(s) == Len(s) >= 2 /\ s[Len(s)][1] = ErrorId
Promoted(s) == up.page = "completion" /\ s = Whole(PromotedId)
ErrByte(b) == b[2] = 2 /\ b[1] \in DOMAIN up.kind /\ IsError(up.kind[b[1]])
DoneByte(b) == b[1] \in DOMAIN up.kind /\ up.kind[b[1]] = "done"
NoErr(s) == \A j \in DOMAIN s : ~ErrByte(s[j])
NoDone(s) == \A j \in DOMAIN s : ~DoneByte(s[j])

\* Bytes handed on behind others.
LEMMA ConcatIs ==
  ASSUME NEW s \in Seq(Byte), NEW t \in Seq(Byte)
  PROVE  /\ s \o t \in Seq(Byte)
         /\ NoErr(s) /\ NoErr(t) => NoErr(s \o t)
         /\ NoDone(s) /\ NoDone(t) => NoDone(s \o t)
         /\ EndsErr(t) => EndsErr(s \o t)
         /\ ShowsError(s) \/ ShowsError(t) => ShowsError(s \o t)
         /\ s = <<>> => s \o t = t
         /\ t = <<>> => s \o t = s
  <1> DEFINE u == s \o t
  <1>1. /\ u \in Seq(Byte) /\ Len(u) = Len(s) + Len(t)
        /\ \A j \in DOMAIN u : (j \in DOMAIN s /\ u[j] = s[j]) \/ (j - Len(s) \in DOMAIN t /\ u[j] = t[j - Len(s)])
    OBVIOUS
  <1>2. Len(t) >= 1 => u[Len(u)] = t[Len(t)]
    OBVIOUS
  <1>3. (s = <<>> => u = t) /\ (t = <<>> => u = s)
    BY ConcatEmptySeq
  <1>4. Len(s) \in Nat /\ Len(t) \in Nat
    OBVIOUS
  <1> HIDE DEF u
  <1>5. NoErr(s) /\ NoErr(t) => NoErr(u)
    BY <1>1 DEF NoErr
  <1>6. NoDone(s) /\ NoDone(t) => NoDone(u)
    BY <1>1 DEF NoDone
  <1>7. EndsErr(t) => EndsErr(u)
    BY <1>1, <1>2, <1>4 DEF EndsErr
  <1>8. /\ \A j \in DOMAIN s : j \in DOMAIN u /\ u[j] = s[j]
        /\ \A j \in DOMAIN t : Len(s) + j \in DOMAIN u /\ u[Len(s) + j] = t[j]
    BY DEF u
  <1>9. ShowsError(s) => ShowsError(u)
    BY <1>8 DEF ShowsError
  <1>10. ASSUME ShowsError(t) PROVE ShowsError(u)
    <2>1. PICK j \in DOMAIN t : /\ t[j][2] = 2 /\ t[j][1] \in DOMAIN up.kind
                                /\ up.kind[t[j][1]] \in {"error", "exc"}
      BY <1>10 DEF ShowsError
    <2> DEFINE k == Len(s) + j
    <2>2. k \in DOMAIN u /\ u[k] = t[j]
      BY <1>8
    <2> HIDE DEF k
    <2> QED BY <2>1, <2>2 DEF ShowsError
  <1> QED BY <1>1, <1>3, <1>5, <1>6, <1>7, <1>9, <1>10 DEF u

\* The proxy's own frames are none of the vendor's.
LEMMA OwnFrames ==
  ASSUME UpType
  PROVE  /\ Whole(ErrorId) \in Seq(Byte) /\ Whole(PromotedId) \in Seq(Byte)
         /\ NoErr(Whole(ErrorId)) /\ NoDone(Whole(ErrorId))
         /\ NoErr(Whole(PromotedId)) /\ NoDone(Whole(PromotedId))
         /\ EndsErr(Whole(ErrorId))
         /\ <<>> \in Seq(Byte) /\ NoErr(<<>>) /\ NoDone(<<>>)
  <1>1. DOMAIN up.kind = 1..Len(up.kind) /\ Len(up.kind) \in Nat
    BY DEF UpType
  <1>2. \A i \in {ErrorId, PromotedId} : i \in Int /\ i \notin DOMAIN up.kind
    BY <1>1 DEF ErrorId, PromotedId
  <1>3. ASSUME NEW i \in {ErrorId, PromotedId}
        PROVE  Whole(i) \in Seq(Byte) /\ NoErr(Whole(i)) /\ NoDone(Whole(i))
    <2> DEFINE w == Whole(i)
    <2>1. w \in Seq(Byte) /\ \A j \in DOMAIN w : w[j][1] = i
      BY <1>2 DEF Whole, Byte
    <2> HIDE DEF w
    <2>2. NoErr(w) /\ NoDone(w)
      BY <2>1, <1>2 DEF NoErr, NoDone, ErrByte, DoneByte
    <2> QED BY <2>1, <2>2 DEF w
  <1>4. EndsErr(Whole(ErrorId))
    BY DEF EndsErr, Whole
  <1>5. DOMAIN <<>> = {}
    OBVIOUS
  <1>6. <<>> \in Seq(Byte) /\ NoErr(<<>>) /\ NoDone(<<>>)
    BY <1>5, EmptySeq DEF NoErr, NoDone
  <1> QED BY <1>3, <1>4, <1>6

\* Frames written out whole.
LEMMA AllOfIs ==
  ASSUME NEW frames \in Seq(Int)
  PROVE  /\ AllOf(frames) \in Seq(Byte) /\ Len(AllOf(frames)) = 2 * Len(frames)
         /\ \A j \in DOMAIN AllOf(frames) : \E k \in DOMAIN frames : AllOf(frames)[j][1] = frames[k]
         /\ \A k \in DOMAIN frames : \E j \in DOMAIN AllOf(frames) : AllOf(frames)[j] = <<frames[k], 2>>
  <1> DEFINE m == 2 * Len(frames)
             b == AllOf(frames)
  <1>1. Len(frames) \in Nat /\ m \in Nat
    OBVIOUS
  <1>2. \A j \in 1..m : (j + 1) \div 2 \in 1..Len(frames) /\ 2 - (j % 2) \in 1..3
    BY <1>1
  <1>3. \A k \in 1..Len(frames) : frames[k] \in Int /\ k \in DOMAIN frames
    OBVIOUS
  <1>4. b = [j \in 1..m |-> <<frames[(j + 1) \div 2], 2 - (j % 2)>>]
    BY DEF AllOf
  <1> HIDE DEF m, b
  <1>5. ASSUME NEW j \in 1..m
        PROVE  b[j] \in Byte /\ \E k \in DOMAIN frames : b[j][1] = frames[k]
    BY <1>2, <1>3, <1>4 DEF Byte
  <1>6. DOMAIN b = 1..m /\ b \in [1..m -> Byte]
    BY <1>4, <1>5
  <1>7. b \in Seq(Byte) /\ Len(b) = m
    BY <1>1, <1>6
  <1>8. ASSUME NEW k \in DOMAIN frames PROVE \E j \in DOMAIN b : b[j] = <<frames[k], 2>>
    <2> DEFINE j == 2 * k
    <2>1. k \in Nat /\ j \in 1..m
      BY <1>1 DEF m
    <2>2. (j + 1) \div 2 = k /\ 2 - (j % 2) = 2
      <3>1. \A i \in Nat : (2 * i + 1) \div 2 = i /\ 2 - ((2 * i) % 2) = 2
        OBVIOUS
      <3> QED BY <2>1, <3>1
    <2> HIDE DEF j
    <2>3. b[j] = <<frames[(j + 1) \div 2], 2 - (j % 2)>>
      BY <1>4, <2>1
    <2>4. b[j] = <<frames[k], 2>>
      BY <2>2, <2>3, Zenon
    <2> QED BY <1>6, <2>1, <2>4
  <1> QED BY <1>5, <1>6, <1>7, <1>8 DEF m, b

\* Frames written out again, [DONE] left out.
LEMMA RewrittenIs ==
  ASSUME UpType, NEW frames \in Seq(Int)
  PROVE  /\ Rewritten(up.kind, frames) \in Seq(Byte)
         /\ NoDone(Rewritten(up.kind, frames))
         /\ (\A k \in DOMAIN frames : ~IsError(up.kind[frames[k]])) => NoErr(Rewritten(up.kind, frames))
         /\ (\E k \in DOMAIN frames : frames[k] \in DOMAIN up.kind /\ up.kind[frames[k]] = "error")
              => ShowsError(Rewritten(up.kind, frames))
  <1> DEFINE D == {i \in DOMAIN up.kind : up.kind[i] = "done"}
             b == AllOf(frames)
             w == Without(D, b)
  <1>1. b \in Seq(Byte) /\ \A j \in DOMAIN b : \E k \in DOMAIN frames : b[j][1] = frames[k]
    BY AllOfIs
  <1>2. Rewritten(up.kind, frames) = w
    BY DEF Rewritten
  <1> HIDE DEF b, w
  <1>3. w \in Seq(Byte)
    BY <1>1, WithoutConcat DEF w
  <1>4. \A j \in DOMAIN w : w[j][1] \notin D /\ \E k \in DOMAIN b : b[k] = w[j]
    <2> HIDE DEF D
    <2> QED BY <1>1, WithoutRange DEF w
  <1>5. NoDone(w)
    BY <1>4 DEF NoDone, DoneByte
  <1>6. (\A k \in DOMAIN frames : ~IsError(up.kind[frames[k]])) => NoErr(w)
    BY <1>1, <1>4 DEF NoErr, ErrByte
  <1>8. \A j \in DOMAIN b : b[j][1] \notin D => \E k \in DOMAIN w : w[k] = b[j]
    <2> HIDE DEF D
    <2>1. b \in Seq(Byte)
      BY <1>1
    <2>2. ASSUME NEW j \in 1..Len(b), b[j][1] \notin D PROVE Among(b[j], Without(D, b))
      BY <2>1, <2>2, WithoutKeeps
    <2>3. DOMAIN b = 1..Len(b)
      BY <2>1
    <2> QED BY <2>2, <2>3 DEF w, Among
  <1>7. ASSUME NEW k \in DOMAIN frames, frames[k] \in DOMAIN up.kind, up.kind[frames[k]] = "error"
        PROVE  ShowsError(w)
    <2>1. PICK j \in DOMAIN b : b[j] = <<frames[k], 2>>
      BY AllOfIs DEF b
    <2>2. b[j][1] = frames[k] /\ b[j][2] = 2 /\ b[j][1] \notin D
      BY <2>1, <1>7
    <2>3. PICK i \in DOMAIN w : w[i] = b[j]
      BY <2>2, <1>8
    <2> QED BY <1>7, <2>2, <2>3 DEF ShowsError
  <1> QED BY <1>2, <1>3, <1>5, <1>6, <1>7
-----------------------------------------------------------------------------
(* One read, and the end of the bytes, for each reader.                    *)

\* A read of n bytes: nothing is handed on before the first frame, and who stops
\* says so.
PushGood(p, n) ==
  /\ p.g \in Gates /\ p.out \in Seq(Byte) /\ p.stop \in BOOLEAN
  /\ ~EventStream(setup.wire) => OpenBytes(p.g.buf)
  /\ ~p.stop /\ ~p.g.saw => ~gate.saw /\ p.out = <<>>
  /\ p.stop => EndsErr(p.out) \/ (~gate.saw /\ Promoted(p.out))

\* An event stream that was refused before its first frame: no read gets past it.
Stuck(g) == EventStream(setup.wire) /\ Broken(g.buf) /\ ~g.saw

\* A read that goes on: a terminal frame is noted only if one arrived or an error was
\* handed on; who drops the rest has handed on an error; who met a frame it gave up
\* at has handed on an error or is stuck; and the open frame is the last one.
PushTold(p, n) ==
  ~p.stop =>
    /\ p.g.term => gate.term \/ HasTerminal(up.pos + n) \/ ShowsError(p.out) \/ p.g.drop
    /\ gate.drop => p.g.drop
    /\ p.g.drop => /\ p.g.buf = <<>> /\ Proxy /\ setup.same
                   /\ (gate.drop /\ p.out = <<>>) \/ EndsErr(p.out)
    /\ GivenUp(up.pos + n) => GivenUp(up.pos) \/ p.g.drop \/ ShowsError(p.out) \/ Stuck(p.g)
    /\ Stuck(gate) => Stuck(p.g)
    /\ OpenAt(p.g.buf, up.pos + n)

\* The gate, after an error frame: it remembers, and hands on no [DONE].
GateQuiet(p) ==
  /\ ~p.stop /\ p.g.verr => p.g.held = <<>> /\ p.g.saw
  /\ ~p.stop /\ p.g.drop => p.g.verr
  /\ ~p.stop /\ ~p.g.verr => ~gate.verr /\ NoErr(p.out) /\ NoErr(p.g.held)
  /\ gate.verr => NoDone(p.out)
  /\ NoErr(p.out) \/ NoDone(p.out)

TermInv ==
  /\ gate.term => HasTerminal(up.pos) \/ ShowsError(out) \/ gate.drop
  /\ gate.drop => gate.buf = <<>> /\ Proxy /\ setup.same /\ EndsErr(out)
  /\ GivenUp(up.pos) => gate.drop \/ ShowsError(out) \/ Stuck(gate)
  /\ OpenAt(gate.buf, up.pos)
GateInv ==
  /\ gate.verr => gate.held = <<>> /\ gate.saw
  /\ gate.drop => gate.verr
  /\ ~gate.verr => NoErr(gate.held)

\* A terminal frame that has arrived has arrived.
LEMMA TerminalStays ==
  ASSUME UpType, NEW m \in Nat, NEW n \in Nat, m <= n, HasTerminal(m)
  PROVE  HasTerminal(n)
  BY DEF HasTerminal, UpType

\* Which frames are errors on which wire.
LEMMA ErrorKinds ==
  ASSUME StreamType
  PROVE  /\ \A s : EventStream(setup.wire) => NoErr(s) /\ NoDone(s)
         /\ \A s : OpenBytes(s) => NoErr(s)
         /\ \A i \in DOMAIN up.kind :
              IsError(up.kind[i]) <=> up.kind[i] = "error" \/ (setup.wire = "responses" /\ up.kind[i] = "failed")
  <1>1. \A i \in DOMAIN up.kind : up.kind[i] \in Kinds(setup.wire)
    BY DEF StreamType, UpType
  <1>2. \A i \in DOMAIN up.kind : EventStream(setup.wire) => ~IsError(up.kind[i]) /\ up.kind[i] # "done"
    BY <1>1 DEF Kinds, IsError
  <1>3. \A i \in DOMAIN up.kind : up.kind[i] = "failed" => setup.wire = "responses"
    BY <1>1 DEF Kinds
  <1>4. \A i \in DOMAIN up.kind : i # 0
    BY DEF StreamType, UpType
  <1>5. \A s : OpenBytes(s) => NoErr(s)
    BY <1>4 DEF NoErr, ErrByte, OpenBytes, Completes
  <1> QED BY <1>2, <1>3, <1>5 DEF NoErr, ErrByte, NoDone, DoneByte, IsError

\* SameWireGate::push, one case per branch.
LEMMA GatePushes ==
  ASSUME StreamType, TermInv, GateInv, Proxy, setup.same, NEW n \in 1..(up.cut - up.pos)
  PROVE  LET p == GatePush(gate, setup.wire, up.kind, up.page, Chunk(n)) IN
         PushGood(p, n) /\ PushTold(p, n) /\ GateQuiet(p)
  <1> DEFINE g == gate
             wire == setup.wire
             kind == up.kind
             page == up.page
             chunk == Chunk(n)
             p == GatePush(gate, setup.wire, up.kind, up.page, Chunk(n))
             fed == Feed(wire, kind, g.buf, chunk)
             r == [g EXCEPT !.buf = fed.buf]
             fs == fed.frames
             fails == {k \in DOMAIN fs : wire = "responses" /\ kind[fs[k]] = "failed"}
             first == CHOOSE k \in fails : \A m \in fails : k <= m
             hasError == \E k \in DOMAIN fs : kind[fs[k]] = "error"
             noted == Noted(wire, kind, fs)
             seen == [r EXCEPT !.saw = TRUE, !.term = @ \/ noted, !.held = <<>>]
             oversize == Oversize(kind, page, g.held \o chunk)
             failure == VendorFailure(wire, page, g.held \o chunk)
             open == HasOpenFrame(wire, fed.buf)
  <1>p. p = IF g.drop THEN Hold(g)
            ELSE IF ~g.saw /\ oversize THEN Fail(g)
            ELSE IF fed.err /\ g.saw THEN Fail(g)
            ELSE IF fed.err /\ failure THEN Fail(g)
            ELSE IF fed.err THEN Hold([r EXCEPT !.held = g.held \o chunk])
            ELSE IF fails # {} THEN
              Forward([r EXCEPT !.saw = TRUE, !.term = TRUE, !.verr = TRUE, !.drop = TRUE,
                                !.held = <<>>, !.buf = <<>>],
                      Rewritten(kind, SubSeq(fs, 1, first - 1)) \o Whole(ErrorId))
            ELSE IF wire = "responses" /\ ~g.verr /\ open /\ fs # <<>> /\ ~hasError THEN
              Forward([seen EXCEPT !.held = fed.buf], Rewritten(kind, fs))
            ELSE IF fed.term THEN
              Forward([r EXCEPT !.saw = TRUE, !.term = TRUE, !.held = <<>>], g.held \o chunk)
            ELSE IF fs = <<>> /\ ~g.saw THEN Hold([r EXCEPT !.held = @ \o chunk])
            ELSE IF fs = <<>> /\ g.verr THEN Hold(r)
            ELSE IF fs = <<>> /\ wire = "responses" /\ open THEN Hold([r EXCEPT !.held = @ \o chunk])
            ELSE IF fs = <<>> THEN Forward(r, chunk)
            ELSE IF hasError \/ g.verr THEN Forward([seen EXCEPT !.verr = TRUE], Rewritten(kind, fs))
            ELSE Forward(seen, g.held \o chunk)
    BY Zenon DEF GatePush
  <1>1. /\ g \in Gates /\ g.buf \in Seq(Byte) /\ g.held \in Seq(Byte)
        /\ g.saw \in BOOLEAN /\ g.term \in BOOLEAN /\ g.verr \in BOOLEAN /\ g.drop \in BOOLEAN
    BY DEF StreamType, Gates
  <1>2. /\ fed \in Reading /\ fed.buf \in Seq(Byte) /\ fs \in Seq(Int)
        /\ \A k \in DOMAIN fs : fs[k] \in DOMAIN kind /\ 2 * fs[k] <= up.pos + n
        /\ fed.term => EventStream(wire)
        /\ ~EventStream(wire) => OpenBytes(fed.buf)
    <2>1. fed \in Reading
      BY FedIs
    <2>2. fed.buf \in Seq(Byte) /\ fs \in Seq(Int)
      BY <2>1 DEF Reading
    <2> QED BY <2>1, <2>2, FedIs
  <1>3. /\ chunk \in Seq(Byte)
        /\ \A j \in DOMAIN chunk : Completes(chunk[j]) => chunk[j][1] \in DOMAIN kind
    BY ChunkIs DEF StreamType
  <1>4. up.pos \in Nat /\ up.pos + n \in Nat /\ up.pos <= up.pos + n
    BY DEF StreamType, UpType
  \* a frame over the cap is found before the reader's refusal counts
  <1>6. fed.err /\ ~EventStream(wire) => oversize
    <2> SUFFICES ASSUME fed.err, ~EventStream(wire) PROVE oversize
      OBVIOUS
    <2>1. PICK j \in DOMAIN chunk : Completes(chunk[j]) /\ kind[chunk[j][1]] = "big"
      BY FedIs
    <2> DEFINE all == g.held \o chunk
    <2>2. Len(g.held) + j \in DOMAIN all /\ all[Len(g.held) + j] = chunk[j]
      BY <1>1, <1>3
    <2> HIDE DEF all, chunk
    <2>3. Oversize(kind, page, all)
      BY <2>1, <2>2 DEF Oversize, Completes
    <2> QED BY <2>3 DEF all, chunk
  \* without an error among the frames there is none in the bytes
  <1>7. ~fed.err /\ fails = {} /\ ~hasError =>
          NoErr(chunk) /\ \A k \in DOMAIN fs : ~IsError(kind[fs[k]])
    <2> SUFFICES ASSUME ~fed.err, fails = {}, ~hasError
                 PROVE  NoErr(chunk) /\ \A k \in DOMAIN fs : ~IsError(kind[fs[k]])
      OBVIOUS
    <2>1. \A k \in DOMAIN fs : ~IsError(kind[fs[k]])
      BY <1>2, ErrorKinds
    <2>2. CASE EventStream(wire)
      BY <2>1, <2>2, ErrorKinds
    <2>3. CASE ~EventStream(wire)
      <3>1. \A j \in DOMAIN chunk : Completes(chunk[j]) => \E k \in DOMAIN fs : fs[k] = chunk[j][1]
        BY <2>3, FedIs
      <3>2. \A i \in DOMAIN kind : i # 0
        BY DEF StreamType, UpType
      <3> QED BY <2>1, <3>1, <3>2 DEF NoErr, ErrByte, Completes
    <2> QED BY <2>2, <2>3
  <1>8. noted /\ ~hasError => HasTerminal(up.pos + n)
    BY <1>2 DEF Noted, HasTerminal
  <1>9. noted \in BOOLEAN
    BY DEF Noted
  <1>10. /\ EventStream(wire) /\ fed.err => Broken(fed.buf)
         /\ EventStream(wire) /\ Broken(g.buf) => Broken(fed.buf) /\ fed.err
         /\ ~fed.err /\ ~fed.term /\ GivenUp(up.pos + n) => GivenUp(up.pos)
         /\ ~fed.err => OpenAt(fed.buf, up.pos + n)
    <2>1. OpenAt(gate.buf, up.pos)
      BY DEF TermInv
    <2> QED BY <2>1, FedIs, OpenLast
  <1>s. fed.term => ShowsError(chunk)
    <2> SUFFICES ASSUME fed.term PROVE ShowsError(chunk)
      OBVIOUS
    <2>1. PICK j \in DOMAIN chunk : Completes(chunk[j]) /\ kind[chunk[j][1]] = "exc"
      BY FedIs
    <2> QED BY <1>3, <2>1 DEF ShowsError, Completes
  <1>11. fs = <<>> => fails = {} /\ ~hasError
    OBVIOUS
  <1>12. fails # {} => SubSeq(fs, 1, first - 1) \in Seq(Int)
    <2> SUFFICES ASSUME fails # {} PROVE SubSeq(fs, 1, first - 1) \in Seq(Int)
      OBVIOUS
    <2>1. fails \subseteq Nat /\ fails \subseteq DOMAIN fs
      BY <1>2
    <2>2. \E k \in fails : \A m \in fails : k <= m
      <3> HIDE DEF fails
      <3> QED BY <2>1, LeastMember
    <2>3. first \in fails
      <3> HIDE DEF fails
      <3> QED BY <2>2
    <2> HIDE DEF first
    <2>4. first \in 1..Len(fs)
      BY <1>2, <2>1, <2>3
    <2> QED BY <1>2, <2>4
  <1>13. /\ gate.verr => gate.held = <<>> /\ gate.saw
         /\ gate.drop => gate.verr /\ gate.buf = <<>>
         /\ ~gate.verr => NoErr(gate.held)
    BY DEF GateInv, TermInv
  <1>14. UpType
    BY DEF StreamType
  <1>b. ~EventStream(wire) => OpenBytes(g.buf) /\ OpenBytes(fed.buf) /\ OpenBytes(<<>>)
    <2>1. DOMAIN <<>> = {}
      OBVIOUS
    <2>2. OpenBytes(<<>>)
      BY <2>1 DEF OpenBytes
    <2> QED BY <1>2, <2>2 DEF StreamType
  <1>15. /\ \A x : Hold(x).g = x /\ Hold(x).out = <<>> /\ ~Hold(x).stop /\ Hold(x).stop \in BOOLEAN
         /\ \A x, y : Forward(x, y).g = x /\ Forward(x, y).out = y /\ ~Forward(x, y).stop /\ Forward(x, y).stop \in BOOLEAN
         /\ \A x : Fail(x).g = x /\ Fail(x).out = Whole(ErrorId) /\ Fail(x).stop /\ Fail(x).stop \in BOOLEAN
    BY DEF Hold, Forward, Fail
  <1>16. /\ r \in Gates /\ r.buf = fed.buf /\ r.saw = g.saw /\ r.term = g.term /\ r.verr = g.verr
         /\ r.drop = g.drop /\ r.held = g.held
    BY <1>1, <1>2 DEF Gates
  <1>17. /\ seen \in Gates /\ seen.buf = fed.buf /\ seen.saw = TRUE /\ seen.term = (g.term \/ noted)
         /\ seen.verr = g.verr /\ seen.drop = g.drop /\ seen.held = <<>>
    <2> HIDE DEF noted, fed
    <2>1. <<>> \in Seq(Byte) /\ (g.term \/ noted) \in BOOLEAN
      BY EmptySeq
    <2> QED BY <1>1, <1>2, <1>9, <1>16, <2>1 DEF Gates
  <1> DEFINE Goal == PushGood(p, n) /\ PushTold(p, n) /\ GateQuiet(p)
  <1> SUFFICES Goal
    OBVIOUS
  <1> HIDE DEF fed, fails, first, hasError, noted, oversize, failure, open, chunk, p, r, seen
  <1>o. /\ <<>> \in Seq(Byte) /\ NoErr(<<>>) /\ NoDone(<<>>)
        /\ Whole(ErrorId) \in Seq(Byte) /\ NoErr(Whole(ErrorId)) /\ NoDone(Whole(ErrorId)) /\ EndsErr(Whole(ErrorId))
    BY <1>14, OwnFrames
  <1>h. /\ g.held \o chunk \in Seq(Byte)
        /\ NoErr(g.held) /\ NoErr(chunk) => NoErr(g.held \o chunk)
        /\ ShowsError(chunk) => ShowsError(g.held \o chunk)
    BY <1>1, <1>3, ConcatIs
  \* what a read that was not refused says
  <1>t. ASSUME ~p.stop, ~g.drop, ~fed.err, p.g.buf = fed.buf, ~p.g.drop, fed.term => ShowsError(p.out),
               p.g.term => g.term \/ HasTerminal(up.pos + n) \/ ShowsError(p.out)
        PROVE  PushTold(p, n)
    <2>1. ~Stuck(gate)
      BY <1>10, <1>t DEF Stuck
    <2> QED BY <1>10, <1>t, <2>1 DEF PushTold
  <1>e. \A m : OpenAt(<<>>, m)
    BY DEF OpenAt
  <1>c. CASE g.drop
    <2>1. p = Hold(g)
      BY <1>p, <1>c, Zenon
    <2>2. p.g = g /\ p.out = <<>> /\ ~p.stop /\ p.stop \in BOOLEAN
      BY <1>15, <2>1, Zenon
    <2>3. PushTold(p, n)
      BY <1>13, <1>c, <1>e, <2>2 DEF PushTold
    <2> QED BY <1>b, <1>1, <1>13, <1>o, <1>c, <2>2, <2>3 DEF PushGood, GateQuiet
  <1>f. ASSUME p = Fail(g) PROVE Goal
    <2>1. p.g = g /\ p.out = Whole(ErrorId) /\ p.stop /\ p.stop \in BOOLEAN
      BY <1>f, <1>15, Zenon
    <2>2. PushTold(p, n)
      BY <2>1 DEF PushTold
    <2> QED BY <1>b, <1>1, <1>13, <1>o, <2>1, <2>2 DEF PushGood, GateQuiet
  <1> DEFINE c1 == ~g.drop
             c2 == ~(~g.saw /\ oversize)
             c5 == ~fed.err
             c6 == fails = {}
             c7 == ~(wire = "responses" /\ ~g.verr /\ open /\ fs # <<>> /\ ~hasError)
             c8 == ~fed.term
  <1>18. CASE c1 /\ (~g.saw /\ oversize)
    <2>1. p = Fail(g)
      BY <1>p, <1>18, Zenon
    <2> QED BY <1>f, <2>1
  <1>19. CASE c1 /\ c2 /\ fed.err /\ (g.saw \/ failure)
    <2>1. p = Fail(g)
      BY <1>p, <1>19, Zenon
    <2> QED BY <1>f, <2>1
  <1>20. CASE c1 /\ c2 /\ fed.err /\ ~g.saw /\ ~failure
    <2> DEFINE x == [r EXCEPT !.held = g.held \o chunk]
    <2>1. p = Hold(x)
      BY <1>p, <1>20, Zenon
    <2>2. /\ x \in Gates /\ x.buf = fed.buf /\ x.saw = g.saw /\ x.term = g.term /\ x.verr = g.verr /\ x.drop = g.drop
          /\ x.held = g.held \o chunk
      BY <1>16, <1>h DEF Gates
    <2> HIDE DEF x
    <2>3. p.g = x /\ p.out = <<>> /\ ~p.stop /\ p.stop \in BOOLEAN
      BY <1>15, <2>1, Zenon
    <2>4. EventStream(wire)
      BY <1>6, <1>20
    <2>5. NoErr(x.held)
      BY <2>4, ErrorKinds
    <2>6. ~x.saw /\ ~x.verr /\ ~x.drop /\ ~g.verr /\ (x.term => g.term)
      BY <2>2, <1>13, <1>20
    <2>7. Stuck(p.g)
      BY <1>10, <1>20, <2>2, <2>3, <2>4, <2>6 DEF Stuck
    <2>8. PushTold(p, n)
      BY <1>20, <2>3, <2>4, <2>6, <2>7 DEF PushTold, OpenAt
    <2> QED BY <1>b, <1>o, <1>20, <2>2, <2>3, <2>5, <2>6, <2>8 DEF PushGood, GateQuiet
  <1>21. CASE c1 /\ c2 /\ c5 /\ fails # {}
    <2> DEFINE x == [r EXCEPT !.saw = TRUE, !.term = TRUE, !.verr = TRUE, !.drop = TRUE, !.held = <<>>, !.buf = <<>>]
               y == Rewritten(kind, SubSeq(fs, 1, first - 1))
               z == y \o Whole(ErrorId)
    <2>1. p = Forward(x, z)
      BY <1>p, <1>21, Zenon
    <2>2. x \in Gates /\ x.buf = <<>> /\ x.saw = TRUE /\ x.term = TRUE /\ x.verr = TRUE /\ x.drop = TRUE /\ x.held = <<>>
      BY <1>16, <1>o DEF Gates
    <2>3. y \in Seq(Byte) /\ NoDone(y)
      BY <1>12, <1>14, <1>21, RewrittenIs
    <2> HIDE DEF x, y
    <2>4. z \in Seq(Byte) /\ NoDone(z) /\ EndsErr(z)
      BY <2>3, <1>o, ConcatIs
    <2> HIDE DEF z
    <2>5. p.g = x /\ p.out = z /\ ~p.stop /\ p.stop \in BOOLEAN
      BY <1>15, <2>1, Zenon
    <2>6. x.saw /\ x.term /\ x.verr /\ x.drop
      BY <2>2
    <2>7. ~Stuck(gate)
      BY <1>10, <1>21 DEF Stuck
    <2>8. PushTold(p, n)
      BY <1>e, <2>2, <2>4, <2>5, <2>6, <2>7 DEF PushTold
    <2> QED BY <1>b, <1>21, <2>2, <2>4, <2>5, <2>6, <2>8 DEF PushGood, GateQuiet
  <1>22. CASE c1 /\ c2 /\ c5 /\ c6 /\ (wire = "responses" /\ ~g.verr /\ open /\ fs # <<>> /\ ~hasError)
    <2> DEFINE x == [seen EXCEPT !.held = fed.buf]
               y == Rewritten(kind, fs)
    <2>1. p = Forward(x, y)
      BY <1>p, <1>22, Zenon
    <2>2. /\ x \in Gates /\ x.buf = fed.buf /\ x.saw = TRUE /\ x.term = (g.term \/ noted) /\ x.verr = g.verr /\ x.drop = g.drop
          /\ x.held = fed.buf
      BY <1>2, <1>17 DEF Gates
    <2>3. y \in Seq(Byte) /\ NoDone(y) /\ NoErr(y)
      BY <1>2, <1>7, <1>14, <1>22, RewrittenIs
    <2>4. NoErr(fed.buf)
      <3>1. ~EventStream(wire)
        BY <1>22 DEF EventStream
      <3> QED BY <3>1, <1>2, ErrorKinds
    <2> HIDE DEF x, y
    <2>5. p.g = x /\ p.out = y /\ ~p.stop /\ p.stop \in BOOLEAN
      BY <1>15, <2>1, Zenon
    <2>6. x.saw /\ ~x.verr /\ ~x.drop /\ (x.term => g.term \/ HasTerminal(up.pos + n))
      BY <2>2, <1>8, <1>22
    <2>7. ~fed.term
      BY <1>2, <1>22 DEF EventStream
    <2>8. PushTold(p, n)
      BY <1>t, <1>22, <2>2, <2>5, <2>6, <2>7
    <2> QED BY <1>b, <1>22, <2>2, <2>3, <2>4, <2>5, <2>6, <2>8 DEF PushGood, GateQuiet
  <1>23. CASE c1 /\ c2 /\ c5 /\ c6 /\ c7 /\ fed.term
    <2> DEFINE x == [r EXCEPT !.saw = TRUE, !.term = TRUE, !.held = <<>>]
               y == g.held \o chunk
    <2>1. p = Forward(x, y)
      BY <1>p, <1>23, Zenon
    <2>2. /\ x \in Gates /\ x.buf = fed.buf /\ x.saw = TRUE /\ x.term = TRUE /\ x.verr = g.verr /\ x.drop = g.drop
          /\ x.held = <<>>
      BY <1>16, <1>o DEF Gates
    <2>3. NoErr(y) /\ NoDone(y)
      BY <1>2, <1>23, ErrorKinds
    <2>4. y \in Seq(Byte) /\ ShowsError(y)
      BY <1>h, <1>s, <1>23
    <2> HIDE DEF x, y
    <2>5. p.g = x /\ p.out = y /\ ~p.stop /\ p.stop \in BOOLEAN
      BY <1>15, <2>1, Zenon
    <2>6. x.saw /\ x.term /\ (x.verr <=> g.verr) /\ ~x.drop
      BY <2>2, <1>23
    <2>8. PushTold(p, n)
      BY <1>t, <1>23, <2>2, <2>4, <2>5, <2>6
    <2> QED BY <1>b, <1>2, <1>23, <1>o, <2>2, <2>3, <2>4, <2>5, <2>6, <2>8 DEF PushGood, GateQuiet
  <1>24. CASE c1 /\ c2 /\ c5 /\ c6 /\ c7 /\ c8 /\ fs = <<>> /\ (~g.saw \/ (~g.verr /\ wire = "responses" /\ open))
    <2> DEFINE x == [r EXCEPT !.held = @ \o chunk]
    <2>1. p = Hold(x)
      <3>1. CASE ~g.saw
        BY <1>p, <1>24, <3>1, Zenon
      <3>2. CASE g.saw
        BY <1>p, <1>24, <3>2, Zenon
      <3> QED BY <3>1, <3>2
    <2>2. /\ x \in Gates /\ x.buf = fed.buf /\ x.saw = g.saw /\ x.term = g.term /\ x.verr = g.verr /\ x.drop = g.drop
          /\ x.held = g.held \o chunk
      BY <1>16, <1>h DEF Gates
    <2> HIDE DEF x
    <2>3. p.g = x /\ p.out = <<>> /\ ~p.stop /\ p.stop \in BOOLEAN
      BY <1>15, <2>1, Zenon
    <2>4. ~g.verr
      BY <1>13, <1>24
    <2>5. NoErr(x.held)
      BY <2>2, <2>4, <1>h, <1>7, <1>11, <1>13, <1>24
    <2>6. (x.saw <=> g.saw) /\ ~x.verr /\ ~x.drop /\ (x.term => g.term)
      BY <2>2, <2>4, <1>24
    <2>8. PushTold(p, n)
      BY <1>t, <1>24, <2>2, <2>3, <2>6
    <2> QED BY <1>b, <1>o, <1>24, <2>2, <2>3, <2>4, <2>5, <2>6, <2>8 DEF PushGood, GateQuiet
  <1>25. CASE c1 /\ c2 /\ c5 /\ c6 /\ c7 /\ c8 /\ fs = <<>> /\ g.saw /\ g.verr
    <2>1. p = Hold(r)
      BY <1>p, <1>25, Zenon
    <2>2. p.g = r /\ p.out = <<>> /\ ~p.stop /\ p.stop \in BOOLEAN
      BY <1>15, <2>1, Zenon
    <2>3. r.saw /\ r.verr /\ ~r.drop /\ (r.term => g.term) /\ r.held = <<>>
      BY <1>13, <1>16, <1>25
    <2>8. PushTold(p, n)
      BY <1>t, <1>16, <1>25, <2>2, <2>3
    <2> QED BY <1>b, <1>16, <1>o, <1>25, <2>2, <2>3, <2>8 DEF PushGood, GateQuiet
  <1>26. CASE c1 /\ c2 /\ c5 /\ c6 /\ c7 /\ c8 /\ fs = <<>> /\ g.saw /\ ~g.verr /\ ~(wire = "responses" /\ open)
    <2>1. p = Forward(r, chunk)
      BY <1>p, <1>26, Zenon
    <2>2. p.g = r /\ p.out = chunk /\ ~p.stop /\ p.stop \in BOOLEAN
      BY <1>15, <2>1, Zenon
    <2>3. r.saw /\ ~r.verr /\ ~r.drop /\ (r.term => g.term) /\ r.held = g.held
      BY <1>16, <1>26
    <2>4. NoErr(chunk) /\ NoErr(g.held)
      BY <1>7, <1>11, <1>13, <1>26
    <2>8. PushTold(p, n)
      BY <1>t, <1>16, <1>26, <2>2, <2>3
    <2> QED BY <1>b, <1>3, <1>16, <1>26, <2>2, <2>3, <2>4, <2>8 DEF PushGood, GateQuiet
  <1>27. CASE c1 /\ c2 /\ c5 /\ c6 /\ c7 /\ c8 /\ fs # <<>> /\ (hasError \/ g.verr)
    <2> DEFINE x == [seen EXCEPT !.verr = TRUE]
               y == Rewritten(kind, fs)
    <2>1. p = Forward(x, y)
      BY <1>p, <1>27, Zenon
    <2>2. /\ x \in Gates /\ x.buf = fed.buf /\ x.saw = TRUE /\ x.term = (g.term \/ noted) /\ x.verr = TRUE /\ x.drop = g.drop
          /\ x.held = <<>>
      BY <1>17 DEF Gates
    <2>3. y \in Seq(Byte) /\ NoDone(y) /\ (hasError => ShowsError(y))
      BY <1>2, <1>14, RewrittenIs DEF hasError
    <2> HIDE DEF x, y
    <2>5. p.g = x /\ p.out = y /\ ~p.stop /\ p.stop \in BOOLEAN
      BY <1>15, <2>1, Zenon
    <2>6. x.saw /\ x.verr /\ ~x.drop /\ (x.term => g.term \/ HasTerminal(up.pos + n) \/ ShowsError(y))
      BY <2>2, <2>3, <1>8, <1>27
    <2>8. PushTold(p, n)
      BY <1>t, <1>27, <2>2, <2>5, <2>6
    <2> QED BY <1>b, <2>2, <2>3, <2>5, <2>6, <2>8 DEF PushGood, GateQuiet
  <1>28. CASE c1 /\ c2 /\ c5 /\ c6 /\ c7 /\ c8 /\ fs # <<>> /\ ~(hasError \/ g.verr)
    <2> DEFINE y == g.held \o chunk
    <2>1. p = Forward(seen, y)
      BY <1>p, <1>28, Zenon
    <2>3. y \in Seq(Byte) /\ NoErr(y)
      BY <1>h, <1>7, <1>13, <1>28
    <2> HIDE DEF y
    <2>5. p.g = seen /\ p.out = y /\ ~p.stop /\ p.stop \in BOOLEAN
      BY <1>15, <2>1, Zenon
    <2>6. seen.saw /\ ~seen.verr /\ ~seen.drop /\ (seen.term => g.term \/ HasTerminal(up.pos + n))
      BY <1>17, <1>8, <1>28
    <2>8. PushTold(p, n)
      BY <1>t, <1>17, <1>28, <2>5, <2>6
    <2> QED BY <1>b, <1>17, <1>28, <1>o, <2>3, <2>5, <2>6, <2>8 DEF PushGood, GateQuiet
  <1> HIDE DEF Goal
  <1> QED BY <1>c, <1>18, <1>19, <1>20, <1>21, <1>22, <1>23, <1>24, <1>25, <1>26, <1>27, <1>28

\* push_frames: what comes before an error frame.
LEMMA UpToErrorIs ==
  ASSUME NEW kind, NEW frames \in Seq(Int)
  PROVE  LET good == UpToError(kind, frames) IN
         /\ good \in Seq(Int) /\ Len(good) <= Len(frames)
         /\ \A k \in DOMAIN good : k \in DOMAIN frames /\ good[k] = frames[k] /\ ~IsError(kind[good[k]])
         /\ frames = <<>> => good = <<>>
         /\ (\A k \in DOMAIN frames : ~IsError(kind[frames[k]])) => good = frames
  <1> DEFINE bad == {k \in DOMAIN frames : IsError(kind[frames[k]])}
             first == CHOOSE k \in bad : \A m \in bad : k <= m
             good == UpToError(kind, frames)
  <1>1. good = IF bad = {} THEN frames ELSE SubSeq(frames, 1, first - 1)
    BY Zenon DEF UpToError
  <1>2. bad \subseteq Nat /\ bad \subseteq DOMAIN frames
    OBVIOUS
  <1>3. bad # {} => first \in bad /\ \A m \in bad : first <= m
    <2> HIDE DEF bad
    <2> SUFFICES ASSUME bad # {} PROVE first \in bad /\ \A m \in bad : first <= m
      OBVIOUS
    <2>1. \E k \in bad : \A m \in bad : k <= m
      BY <1>2, LeastMember
    <2> QED BY <2>1
  <1>4. (\A k \in DOMAIN frames : ~IsError(kind[frames[k]])) => bad = {}
    OBVIOUS
  <1>5. frames = <<>> => bad = {}
    OBVIOUS
  <1>6. \A k \in DOMAIN frames : k \notin bad => ~IsError(kind[frames[k]])
    OBVIOUS
  <1> HIDE DEF first, bad, good
  <1>7. CASE bad = {}
    BY <1>1, <1>5, <1>6, <1>7 DEF good
  <1>8. CASE bad # {}
    <2>1. first \in 1..Len(frames) /\ \A m \in 1..(first - 1) : m \notin bad /\ m \in DOMAIN frames
      <3>1. first \in bad /\ \A m \in bad : first <= m
        BY <1>3, <1>8
      <3>2. first \in DOMAIN frames /\ DOMAIN frames = 1..Len(frames) /\ Len(frames) \in Nat
        BY <1>2, <3>1
      <3>3. ASSUME NEW m \in 1..(first - 1) PROVE m \notin bad /\ m \in DOMAIN frames
        BY <3>1, <3>2
      <3> QED BY <3>2, <3>3
    <2>2. good = SubSeq(frames, 1, first - 1)
      BY <1>1, <1>8
    <2>3. good \in Seq(Int) /\ Len(good) = first - 1 /\ \A k \in 1..(first - 1) : good[k] = frames[k]
      BY <2>1, <2>2
    <2>4. Len(good) <= Len(frames) /\ DOMAIN good = 1..(first - 1)
      BY <2>1, <2>3
    <2> QED BY <1>4, <1>5, <1>6, <1>8, <2>1, <2>3, <2>4 DEF good
  <1> QED BY <1>7, <1>8

\* push_frames, of the mapped stream and of the client: a read, or the last frame.
LEMMA FramesPushed ==
  ASSUME StreamType, NEW x \in Gates, NEW fed \in Reading
  PROVE  LET p == PushFrames(x, setup.wire, up.kind, fed) IN
         /\ p.g \in Gates /\ p.g.buf = x.buf /\ (p.g.drop <=> x.drop)
         /\ p.out \in Seq(Byte) /\ NoErr(p.out) /\ p.stop \in BOOLEAN
         /\ p.stop => EndsErr(p.out)
         /\ ~p.stop => ~fed.term
         /\ p.g.saw <=> x.saw \/ fed.frames # <<>>
         /\ ~p.stop /\ fed.frames = <<>> => p.out = <<>>
         /\ p.g.term => x.term \/ \E k \in DOMAIN fed.frames : Terminal(setup.wire, up.kind[fed.frames[k]])
  <1> DEFINE wire == setup.wire
             kind == up.kind
             p == PushFrames(x, setup.wire, up.kind, fed)
             good == UpToError(kind, fed.frames)
             came == fed.frames # <<>>
             ends == \E k \in DOMAIN good : Terminal(wire, kind[good[k]])
             any == \E k \in DOMAIN fed.frames : Terminal(wire, kind[fed.frames[k]])
             g == [x EXCEPT !.saw = @ \/ came, !.term = @ \/ ends]
             all == AllOf(good)
             Goal == /\ p.g \in Gates /\ p.g.buf = x.buf /\ (p.g.drop <=> x.drop)
                     /\ p.out \in Seq(Byte) /\ NoErr(p.out) /\ p.stop \in BOOLEAN
                     /\ p.stop => EndsErr(p.out)
                     /\ ~p.stop => ~fed.term
                     /\ p.g.saw <=> x.saw \/ came
                     /\ ~p.stop /\ ~came => p.out = <<>>
                     /\ p.g.term => x.term \/ any
  <1>p. p = IF Len(good) < Len(fed.frames) \/ fed.term
              THEN [g |-> g, out |-> all \o Whole(ErrorId), stop |-> TRUE]
              ELSE Forward(g, all)
    BY Zenon DEF PushFrames
  <1> SUFFICES Goal
    OBVIOUS
  <1>1. fed.frames \in Seq(Int) /\ UpType
    BY DEF Reading, StreamType
  <1>2. /\ good \in Seq(Int)
        /\ \A k \in DOMAIN good : k \in DOMAIN fed.frames /\ good[k] = fed.frames[k] /\ ~IsError(kind[good[k]])
        /\ ~came => good = <<>>
    BY <1>1, UpToErrorIs
  <1>3. ends => any
    BY <1>2
  <1>4. ends \in BOOLEAN /\ came \in BOOLEAN
    OBVIOUS
  <1> HIDE DEF p, ends, any, came, good
  <1>5. /\ g \in Gates /\ g.buf = x.buf /\ g.saw = (x.saw \/ came) /\ g.term = (x.term \/ ends) /\ g.drop = x.drop
    <2>1. (x.saw \/ came) \in BOOLEAN /\ (x.term \/ ends) \in BOOLEAN
      BY <1>4
    <2> QED BY <2>1 DEF Gates
  <1>6. all \in Seq(Byte) /\ Len(all) = 2 * Len(good)
        /\ \A j \in DOMAIN all : \E k \in DOMAIN good : all[j][1] = good[k]
    BY <1>2, AllOfIs
  <1> HIDE DEF g, all
  <1>7. NoErr(all)
    BY <1>2, <1>6 DEF NoErr, ErrByte
  <1>8. good = <<>> => all = <<>>
    <2> SUFFICES ASSUME good = <<>> PROVE all = <<>>
      OBVIOUS
    <2>1. Len(all) = 0
      BY <1>6
    <2> QED BY <2>1, <1>6, EmptySeq
  <1>9. /\ Whole(ErrorId) \in Seq(Byte) /\ NoErr(Whole(ErrorId)) /\ EndsErr(Whole(ErrorId))
    BY <1>1, OwnFrames
  <1>10. all \o Whole(ErrorId) \in Seq(Byte) /\ NoErr(all \o Whole(ErrorId)) /\ EndsErr(all \o Whole(ErrorId))
    BY <1>6, <1>7, <1>9, ConcatIs
  <1>11. (g.saw <=> x.saw \/ came) /\ (g.term => x.term \/ any) /\ (g.drop <=> x.drop)
    BY <1>3, <1>5
  <1>12. CASE Len(good) < Len(fed.frames) \/ fed.term
    <2> DEFINE y == all \o Whole(ErrorId)
    <2>1. p = [g |-> g, out |-> y, stop |-> TRUE]
      BY <1>p, <1>12, Zenon
    <2>y. y \in Seq(Byte) /\ NoErr(y) /\ EndsErr(y)
      BY <1>10
    <2> HIDE DEF y
    <2>2. p.g = g /\ p.out = y /\ p.stop /\ p.stop \in BOOLEAN
      BY <2>1
    <2> QED BY <1>5, <1>11, <2>2, <2>y
  <1>13. CASE ~(Len(good) < Len(fed.frames) \/ fed.term)
    <2>1. p = Forward(g, all)
      BY <1>p, <1>13, Zenon
    <2>2. p.g = g /\ p.out = all /\ ~p.stop /\ p.stop \in BOOLEAN
      BY <2>1 DEF Forward
    <2> QED BY <1>2, <1>5, <1>6, <1>7, <1>8, <1>11, <1>13, <2>2
  <1> QED BY <1>12, <1>13

\* A read of either: the frames it completed were pushed.
LEMMA ReadPushed ==
  ASSUME StreamType, TermInv, ~(Proxy /\ setup.same), NEW n \in 1..(up.cut - up.pos), NEW x \in Gates,
         ~Feed(setup.wire, up.kind, gate.buf, Chunk(n)).err,
         x.buf = Feed(setup.wire, up.kind, gate.buf, Chunk(n)).buf,
         x.saw <=> gate.saw, x.term <=> gate.term, x.drop <=> gate.drop
  PROVE  LET p == PushFrames(x, setup.wire, up.kind, Feed(setup.wire, up.kind, gate.buf, Chunk(n))) IN
         PushGood(p, n) /\ PushTold(p, n) /\ NoErr(p.out)
  <1> DEFINE fed == Feed(setup.wire, up.kind, gate.buf, Chunk(n))
             p == PushFrames(x, setup.wire, up.kind, fed)
             any == \E k \in DOMAIN fed.frames : Terminal(setup.wire, up.kind[fed.frames[k]])
  <1>1. /\ fed \in Reading
        /\ ~EventStream(setup.wire) => OpenBytes(fed.buf)
        /\ \A k \in DOMAIN fed.frames : fed.frames[k] \in DOMAIN up.kind /\ 2 * fed.frames[k] <= up.pos + n
        /\ EventStream(setup.wire) /\ Broken(gate.buf) => fed.err
        /\ ~fed.err /\ ~fed.term /\ GivenUp(up.pos + n) => GivenUp(up.pos)
    BY FedIs
  <1>2. OpenAt(fed.buf, up.pos + n) /\ ~gate.drop
    BY OpenLast DEF TermInv
  <1>3. any => HasTerminal(up.pos + n)
    BY <1>1 DEF HasTerminal
  <1>4. x.buf = fed.buf /\ ~fed.err
    OBVIOUS
  <1> HIDE DEF fed
  <1>5. /\ p.g \in Gates /\ p.g.buf = x.buf /\ (p.g.drop <=> x.drop)
        /\ p.out \in Seq(Byte) /\ NoErr(p.out) /\ p.stop \in BOOLEAN
        /\ p.stop => EndsErr(p.out)
        /\ ~p.stop => ~fed.term
        /\ p.g.saw <=> x.saw \/ fed.frames # <<>>
        /\ ~p.stop /\ fed.frames = <<>> => p.out = <<>>
        /\ p.g.term => x.term \/ any
    BY <1>1, FramesPushed
  <1> HIDE DEF p, any
  <1>6. PushGood(p, n)
    BY <1>1, <1>4, <1>5 DEF PushGood
  <1>7. PushTold(p, n)
    BY <1>1, <1>2, <1>3, <1>4, <1>5 DEF PushTold, Stuck
  <1> QED BY <1>5, <1>6, <1>7 DEF p, fed

\* map_sse_stream: one read.
LEMMA MappedPushes ==
  ASSUME StreamType, TermInv, ~(Proxy /\ setup.same), NEW n \in 1..(up.cut - up.pos)
  PROVE  LET p == MappedPush(gate, setup.wire, up.kind, up.page, Chunk(n)) IN PushGood(p, n) /\ PushTold(p, n)
  <1> DEFINE p == MappedPush(gate, setup.wire, up.kind, up.page, Chunk(n))
             fed == Feed(setup.wire, up.kind, gate.buf, Chunk(n))
             x == [gate EXCEPT !.buf = fed.buf]
  <1>p. p = IF fed.err THEN Fail(gate) ELSE PushFrames(x, setup.wire, up.kind, fed)
    BY Zenon DEF MappedPush
  <1>1. fed \in Reading
    BY FedIs
  <1>2. gate \in Gates /\ (~EventStream(setup.wire) => OpenBytes(gate.buf)) /\ UpType
    BY DEF StreamType
  <1> SUFFICES PushGood(p, n) /\ PushTold(p, n)
    OBVIOUS
  <1> HIDE DEF p
  <1>4. x \in Gates /\ x.buf = fed.buf /\ x.saw = gate.saw /\ x.term = gate.term /\ x.drop = gate.drop
    <2> HIDE DEF fed
    <2> QED BY <1>1, <1>2 DEF Gates, Reading
  <1> HIDE DEF x
  <1>5. (x.saw <=> gate.saw) /\ (x.term <=> gate.term) /\ (x.drop <=> gate.drop)
    BY <1>4, Zenon
  <1>6. CASE fed.err
    <2>1. p = Fail(gate)
      BY <1>p, <1>6, Zenon
    <2>2. p.g = gate /\ p.out = Whole(ErrorId) /\ p.stop /\ p.stop \in BOOLEAN
      BY <2>1 DEF Fail
    <2> QED BY <1>2, <2>2, OwnFrames DEF PushGood, PushTold
  <1>7. CASE ~fed.err
    <2>1. p = PushFrames(x, setup.wire, up.kind, fed)
      BY <1>p, <1>7, Zenon
    <2> QED BY <2>1, <1>4, <1>5, <1>7, ReadPushed
  <1> QED BY <1>6, <1>7

\* pull_live: one read.
LEMMA ClientPushes ==
  ASSUME StreamType, TermInv, ~(Proxy /\ setup.same), NEW n \in 1..(up.cut - up.pos)
  PROVE  LET p == ClientPush(gate, setup.wire, up.kind, up.page, Chunk(n)) IN
         PushGood(p, n) /\ PushTold(p, n) /\ NoErr(p.out)
  <1> DEFINE p == ClientPush(gate, setup.wire, up.kind, up.page, Chunk(n))
             fed == Feed(setup.wire, up.kind, gate.buf, Chunk(n))
             left == IF gate.saw THEN gate.held ELSE gate.held \o Chunk(n)
             x == [gate EXCEPT !.buf = fed.buf, !.held = left]
             y == [x EXCEPT !.saw = TRUE, !.term = TRUE]
  <1>p. p = IF fed.err /\ ~gate.saw /\ up.page = "completion" /\ Len(left) = 2
              THEN [g |-> y, out |-> Whole(PromotedId), stop |-> TRUE]
            ELSE IF fed.err THEN Fail(x)
            ELSE PushFrames(x, setup.wire, up.kind, fed)
    BY Zenon DEF ClientPush
  <1>1. fed \in Reading /\ (~EventStream(setup.wire) => OpenBytes(fed.buf))
    BY FedIs
  <1>2. gate \in Gates /\ UpType
    BY DEF StreamType
  <1>l. left \in Seq(Byte)
    <2>1. gate.held \in Seq(Byte) /\ Chunk(n) \in Seq(Byte)
      BY <1>2, ChunkIs DEF Gates
    <2>2. gate.held \o Chunk(n) \in Seq(Byte)
      BY <2>1
    <2> QED BY <2>1, <2>2
  <1> SUFFICES PushGood(p, n) /\ PushTold(p, n) /\ NoErr(p.out)
    OBVIOUS
  <1> HIDE DEF p, left
  <1>4. x \in Gates /\ x.buf = fed.buf /\ x.saw = gate.saw /\ x.term = gate.term /\ x.drop = gate.drop
    <2> HIDE DEF fed
    <2> QED BY <1>1, <1>2, <1>l DEF Gates, Reading
  <1>y. y \in Gates /\ y.buf = fed.buf
    <2> HIDE DEF fed
    <2> QED BY <1>4 DEF Gates
  <1> HIDE DEF x, y
  <1>5. (x.saw <=> gate.saw) /\ (x.term <=> gate.term) /\ (x.drop <=> gate.drop)
    BY <1>4, Zenon
  <1>6. CASE fed.err /\ ~gate.saw /\ up.page = "completion" /\ Len(left) = 2
    <2>1. p = [g |-> y, out |-> Whole(PromotedId), stop |-> TRUE]
      BY <1>p, <1>6, Zenon
    <2> HIDE DEF fed
    <2>2. p.g = y /\ p.out = Whole(PromotedId) /\ p.stop /\ p.stop \in BOOLEAN
      BY <2>1
    <2> QED BY <1>1, <1>2, <1>6, <1>y, <2>2, OwnFrames DEF PushGood, PushTold, Promoted
  <1>7. CASE fed.err /\ ~(~gate.saw /\ up.page = "completion" /\ Len(left) = 2)
    <2>1. p = Fail(x)
      BY <1>p, <1>7, Zenon
    <2> HIDE DEF fed
    <2>2. p.g = x /\ p.out = Whole(ErrorId) /\ p.stop /\ p.stop \in BOOLEAN
      BY <2>1 DEF Fail
    <2> QED BY <1>1, <1>2, <1>4, <2>2, OwnFrames DEF PushGood, PushTold
  <1>8. CASE ~fed.err
    <2>1. p = PushFrames(x, setup.wire, up.kind, fed)
      BY <1>p, <1>8, Zenon
    <2> QED BY <2>1, <1>4, <1>5, <1>8, ReadPushed
  <1> QED BY <1>6, <1>7, <1>8

\* The end of the bytes: an error, a promoted body, nothing behind an error, or a
\* reader that saw the end of the stream and is not stuck.
FinishGood(f) ==
  /\ f \in Seq(Byte)
  /\ \/ EndsErr(f) \/ (~gate.saw /\ Promoted(f)) \/ (gate.drop /\ f = <<>>)
     \/ ~gate.drop /\ ~Stuck(gate) /\ (gate.term \/ CutFrameEnds)

\* A stuck reader fails, and the open frame is the one the bytes broke off in.
LEMMA OpenAtEnd ==
  ASSUME StreamType, TermInv, up.pos = up.cut
  PROVE  /\ ~FinishFails(setup.wire, gate.buf) => ~Stuck(gate)
         /\ \A i \in OpenFrame(setup.wire, gate.buf) : i = gate.buf[1][1] /\ i \in CutFrame
  <1>1. ASSUME Stuck(gate) PROVE FinishFails(setup.wire, gate.buf)
    <2>1. EventStream(setup.wire) /\ Broken(gate.buf)
      BY <1>1 DEF Stuck
    <2>2. gate.buf # <<>>
      <3> SUFFICES ASSUME gate.buf = <<>> PROVE FALSE
        OBVIOUS
      <3> QED BY <2>1 DEF Broken
    <2> QED BY <2>1, <2>2 DEF FinishFails
  <1>2. ASSUME NEW i \in OpenFrame(setup.wire, gate.buf) PROVE i = gate.buf[1][1] /\ i \in CutFrame
    <2>1. ~EventStream(setup.wire) /\ gate.buf # <<>> /\ gate.buf[1][1] # 0 /\ i = gate.buf[1][1]
      BY <1>2 DEF OpenFrame
    <2>2. OpenAt(gate.buf, up.cut)
      BY DEF TermInv
    <2> QED BY <2>1, <2>2 DEF OpenAt, CutFrame
  <1> QED BY <1>1, <1>2

\* no_frame_end: an error, or the promoted completion.
LEMMA NoFrameEnds ==
  ASSUME StreamType
  PROVE  LET f == NoFrameEnd(up.page, gate.held) IN
         f \in Seq(Byte) /\ NoErr(f) /\ NoDone(f) /\ (EndsErr(f) \/ Promoted(f))
  <1>1. UpType
    BY DEF StreamType
  <1>2. CASE up.page = "completion" /\ Len(gate.held) = 2
    <2>1. NoFrameEnd(up.page, gate.held) = Whole(PromotedId)
      BY <1>2 DEF NoFrameEnd
    <2> QED BY <1>1, <1>2, <2>1, OwnFrames DEF Promoted
  <1>3. CASE ~(up.page = "completion" /\ Len(gate.held) = 2)
    <2>1. NoFrameEnd(up.page, gate.held) = Whole(ErrorId)
      BY <1>3 DEF NoFrameEnd
    <2> QED BY <1>1, <2>1, OwnFrames
  <1> QED BY <1>2, <1>3

\* The end of the mapped stream and of the client: the open frame, as far as it came.
LEMMA LastFrames ==
  ASSUME StreamType, TermInv, ~(Proxy /\ setup.same), up.pos = up.cut
  PROVE  LET f == LastFrame(gate, setup.wire, up.kind, up.whole) IN FinishGood(f) /\ NoErr(f)
  <1> DEFINE open == OpenFrame(setup.wire, gate.buf)
             last == IF open = {} THEN <<>> ELSE <<gate.buf[1][1]>>
             fed == [Reader(<<>>) EXCEPT !.frames = last]
             p == PushFrames(gate, setup.wire, up.kind, fed)
             f == LastFrame(gate, setup.wire, up.kind, up.whole)
             fails == FinishFails(setup.wire, gate.buf) \/ (last # <<>> /\ ~up.whole)
             any == \E k \in DOMAIN last : Terminal(setup.wire, up.kind[last[k]])
  <1>p. f = IF fails THEN Whole(ErrorId)
            ELSE IF p.stop \/ p.g.term THEN p.out ELSE p.out \o Whole(ErrorId)
    BY Zenon DEF LastFrame
  <1>1. UpType /\ gate \in Gates /\ gate.buf \in Seq(Byte)
    BY DEF StreamType, Gates
  <1>2. /\ Whole(ErrorId) \in Seq(Byte) /\ NoErr(Whole(ErrorId)) /\ EndsErr(Whole(ErrorId))
    BY <1>1, OwnFrames
  <1>3. /\ ~FinishFails(setup.wire, gate.buf) => ~Stuck(gate)
        /\ \A i \in open : i = gate.buf[1][1] /\ i \in CutFrame
    BY OpenAtEnd
  <1>4. last \in Seq(Int) /\ \A k \in DOMAIN last : last[k] \in CutFrame /\ last # <<>>
    <2>1. CASE open = {}
      <3>1. last = <<>> /\ DOMAIN last = {}
        BY <2>1
      <3> QED BY <3>1, EmptySeq
    <2>2. CASE open # {}
      <3> DEFINE i == gate.buf[1][1]
      <3>1. i \in CutFrame
        BY <1>3, <2>2
      <3>2. i \in Int
        BY <1>1, <3>1 DEF CutFrame, UpType
      <3>3. last = <<i>>
        BY <2>2
      <3> HIDE DEF i, last
      <3> QED BY <3>1, <3>2, <3>3
    <2> QED BY <2>1, <2>2
  <1>5. fed \in Reading /\ fed.frames = last
    <2> HIDE DEF last
    <2> DEFINE e == Reader(<<>>)
    <2>1. <<>> \in Seq(Byte) /\ <<>> \in Seq(Int)
      BY EmptySeq
    <2>2. e \in Reading
      BY <2>1 DEF Reader, Reading
    <2>3. fed = [e EXCEPT !.frames = last]
      OBVIOUS
    <2> HIDE DEF e, fed
    <2> QED BY <1>4, <2>2, <2>3 DEF Reading
  <1>6. any /\ up.whole => CutFrameEnds
    <2> HIDE DEF last
    <2> QED BY <1>4 DEF CutFrameEnds
  <1>7. any => last # <<>>
    BY <1>4
  <1>d. ~gate.drop
    BY DEF TermInv
  <1> HIDE DEF last, fed, open
  <1>8. /\ p.out \in Seq(Byte) /\ NoErr(p.out) /\ p.stop \in BOOLEAN
        /\ p.stop => EndsErr(p.out)
        /\ p.g.term => gate.term \/ any
    <2>1. /\ p.out \in Seq(Byte) /\ NoErr(p.out) /\ p.stop \in BOOLEAN
          /\ p.stop => EndsErr(p.out)
          /\ p.g.term => gate.term \/ \E k \in DOMAIN fed.frames : Terminal(setup.wire, up.kind[fed.frames[k]])
      BY <1>1, <1>5, FramesPushed
    <2> HIDE DEF p
    <2> QED BY <1>5, <2>1
  <1> HIDE DEF p
  <1>9. p.out \o Whole(ErrorId) \in Seq(Byte) /\ NoErr(p.out \o Whole(ErrorId)) /\ EndsErr(p.out \o Whole(ErrorId))
    BY <1>2, <1>8, ConcatIs
  <1> DEFINE Goal == FinishGood(f) /\ NoErr(f)
  <1> SUFFICES Goal
    OBVIOUS
  <1> HIDE DEF f, any
  <1>10. CASE fails
    <2>1. f = Whole(ErrorId)
      BY <1>p, <1>10, Zenon
    <2> QED BY <1>2, <2>1 DEF FinishGood
  <1>11. CASE ~fails /\ p.stop
    <2>1. f = p.out
      BY <1>p, <1>11, Zenon
    <2> QED BY <1>8, <1>11, <2>1 DEF FinishGood
  <1>12. CASE ~fails /\ ~p.stop /\ p.g.term
    <2>1. f = p.out
      BY <1>p, <1>12, Zenon
    <2>2. gate.term \/ CutFrameEnds
      BY <1>6, <1>7, <1>8, <1>12
    <2>3. ~Stuck(gate)
      BY <1>3, <1>12
    <2> QED BY <1>8, <1>d, <2>1, <2>2, <2>3 DEF FinishGood
  <1>13. CASE ~fails /\ ~p.stop /\ ~p.g.term
    <2>1. f = p.out \o Whole(ErrorId)
      BY <1>p, <1>13, Zenon
    <2> QED BY <1>9, <2>1 DEF FinishGood
  <1> HIDE DEF Goal, fails
  <1> QED BY <1>10, <1>11, <1>12, <1>13

\* The end of map_sse_stream.
LEMMA MappedFinishes ==
  ASSUME StreamType, TermInv, ~(Proxy /\ setup.same), up.pos = up.cut
  PROVE  FinishGood(MappedFinish(gate, setup.wire, up.kind, up.page, up.whole))
  BY LastFrames DEF MappedFinish

\* The end of pull_live.
LEMMA ClientFinishes ==
  ASSUME StreamType, TermInv, ~(Proxy /\ setup.same), up.pos = up.cut
  PROVE  LET f == ClientFinish(gate, setup.wire, up.kind, up.page, up.whole) IN FinishGood(f) /\ NoErr(f)
  <1> DEFINE f == ClientFinish(gate, setup.wire, up.kind, up.page, up.whole)
  <1>1. CASE ~gate.saw /\ OpenFrame(setup.wire, gate.buf) = {}
    <2>1. f = NoFrameEnd(up.page, gate.held)
      BY <1>1 DEF ClientFinish
    <2> QED BY <1>1, <2>1, NoFrameEnds DEF FinishGood
  <1>2. CASE ~(~gate.saw /\ OpenFrame(setup.wire, gate.buf) = {})
    <2>1. f = LastFrame(gate, setup.wire, up.kind, up.whole)
      BY <1>2 DEF ClientFinish
    <2> QED BY <2>1, LastFrames
  <1> QED BY <1>1, <1>2

\* SameWireGate::finish and the end of passthrough_sse.
LEMMA GateFinishes ==
  ASSUME StreamType, TermInv, GateInv, Proxy, setup.same, up.pos = up.cut
  PROVE  LET f == GateFinish(gate, setup.wire, up.kind, up.page, up.whole) IN
         /\ FinishGood(f)
         /\ gate.verr => NoDone(f)
         /\ NoErr(f) \/ NoDone(f)
  <1> DEFINE g == gate
             kind == up.kind
             wire == setup.wire
             f == GateFinish(gate, setup.wire, up.kind, up.page, up.whole)
             open == OpenFrame(wire, g.buf)
             two == <<<<g.buf[1][1], 1>>, <<g.buf[1][1], 3>>>>
             shown == open # {} /\ g.verr /\ \A i \in open : kind[i] # "done"
             rest == IF shown THEN two ELSE <<>>
             fails == FinishFails(wire, g.buf)
             failed == wire = "responses" /\ \E i \in open : kind[i] = "failed"
             none == NoFrameEnd(up.page, g.held)
             ends == g.term \/ NotedOpen(wire, kind, open, up.whole)
  <1>p. f = IF g.drop THEN <<>>
            ELSE IF fails THEN IF g.saw THEN g.held \o Whole(ErrorId) ELSE none
            ELSE IF failed THEN Whole(ErrorId)
            ELSE IF ~g.saw /\ open = {} THEN none
            ELSE IF ends THEN g.held \o rest ELSE g.held \o rest \o Whole(ErrorId)
    BY Zenon DEF GateFinish
  <1> DEFINE Goal == FinishGood(f) /\ (gate.verr => NoDone(f)) /\ (NoErr(f) \/ NoDone(f))
  <1> SUFFICES Goal
    OBVIOUS
  <1>1. UpType /\ g \in Gates /\ g.buf \in Seq(Byte) /\ g.held \in Seq(Byte) /\ g.verr \in BOOLEAN
    BY DEF StreamType, Gates
  <1>2. /\ Whole(ErrorId) \in Seq(Byte) /\ NoErr(Whole(ErrorId)) /\ NoDone(Whole(ErrorId)) /\ EndsErr(Whole(ErrorId))
        /\ <<>> \in Seq(Byte) /\ NoErr(<<>>) /\ NoDone(<<>>)
    BY <1>1, OwnFrames
  <1>3. rest \in Seq(Byte) /\ NoDone(rest) /\ (~g.verr => rest = <<>>)
    <2>1. CASE shown
      <3>1. g.buf # <<>> /\ open = {g.buf[1][1]}
        BY <2>1 DEF OpenFrame
      <3>2. g.buf[1] \in Byte
        BY <1>1, <3>1
      <3> DEFINE i == g.buf[1][1]
      <3>3. i \in Int /\ kind[i] # "done"
        BY <2>1, <3>1, <3>2 DEF Byte
      <3> HIDE DEF i
      <3> DEFINE w == <<<<i, 1>>, <<i, 3>>>>
      <3>4. w \in Seq(Byte) /\ \A j \in DOMAIN w : w[j][1] = i
        BY <3>3 DEF Byte
      <3>5. rest = w
        BY <2>1 DEF i
      <3> HIDE DEF w, rest
      <3>6. NoDone(w)
        BY <3>3, <3>4 DEF NoDone, DoneByte
      <3> QED BY <2>1, <3>4, <3>5, <3>6
    <2>2. CASE ~shown
      BY <2>2, <1>2
    <2> QED BY <2>1, <2>2
  <1>4. none \in Seq(Byte) /\ NoErr(none) /\ NoDone(none) /\ (EndsErr(none) \/ Promoted(none))
    BY NoFrameEnds
  <1>5. /\ g.verr => g.held = <<>> /\ g.saw
        /\ ~g.verr => NoErr(g.held)
    BY DEF GateInv
  <1>15. (~fails => ~Stuck(gate)) /\ (ends => g.term \/ CutFrameEnds)
    <2>1. (~fails => ~Stuck(gate)) /\ \A i \in open : i \in CutFrame
      BY OpenAtEnd
    <2>2. NotedOpen(wire, kind, open, up.whole) => CutFrameEnds
      <3> HIDE DEF open
      <3> QED BY <2>1 DEF NotedOpen, CutFrameEnds
    <2> QED BY <2>1, <2>2
  <1> HIDE DEF f, rest, fails, failed, none, open, ends
  <1> DEFINE a == g.held \o Whole(ErrorId)
             b == g.held \o rest
             c == b \o Whole(ErrorId)
  <1>6. a \in Seq(Byte) /\ EndsErr(a) /\ (g.verr => NoDone(a)) /\ (NoErr(a) \/ NoDone(a))
    BY <1>1, <1>2, <1>5, ConcatIs
  <1>7. b \in Seq(Byte) /\ (g.verr => NoDone(b)) /\ (~g.verr => NoErr(b))
    BY <1>1, <1>2, <1>3, <1>5, ConcatIs
  <1> HIDE DEF b
  <1>8. c \in Seq(Byte) /\ EndsErr(c) /\ (g.verr => NoDone(c)) /\ (~g.verr => NoErr(c))
    BY <1>2, <1>7, ConcatIs
  <1> HIDE DEF a, c
  <1>9. CASE g.drop
    <2>1. f = <<>>
      BY <1>p, <1>9, Zenon
    <2> QED BY <1>2, <1>9, <2>1 DEF FinishGood
  <1>10. CASE ~g.drop /\ fails /\ g.saw
    <2>1. f = a
      BY <1>p, <1>10, Zenon DEF a
    <2> QED BY <1>6, <2>1 DEF FinishGood
  <1>11. CASE ~g.drop /\ ((fails /\ ~g.saw) \/ (~fails /\ ~failed /\ ~g.saw /\ open = {}))
    <2>1. f = none
      BY <1>p, <1>11, Zenon
    <2> QED BY <1>4, <1>11, <2>1 DEF FinishGood
  <1>12. CASE ~g.drop /\ ~fails /\ failed
    <2>1. f = Whole(ErrorId)
      BY <1>p, <1>12, Zenon
    <2> QED BY <1>2, <2>1 DEF FinishGood
  <1>13. CASE ~g.drop /\ ~fails /\ ~failed /\ ~(~g.saw /\ open = {}) /\ ends
    <2>1. f = b
      BY <1>p, <1>13, Zenon DEF b
    <2> QED BY <1>7, <1>13, <1>15, <2>1 DEF FinishGood
  <1>14. CASE ~g.drop /\ ~fails /\ ~failed /\ ~(~g.saw /\ open = {}) /\ ~ends
    <2>1. f = c
      BY <1>p, <1>14, Zenon DEF b, c
    <2> QED BY <1>8, <2>1 DEF FinishGood
  <1> HIDE DEF Goal
  <1> QED BY <1>9, <1>10, <1>11, <1>12, <1>13, <1>14
-----------------------------------------------------------------------------
(* The inductive invariant of a streamed answer.                           *)

\* No [DONE] behind an error frame.
Quiet(s) == \A i, j \in DOMAIN s : i < j /\ ErrByte(s[i]) => ~DoneByte(s[j])

\* The caller was told of an error, got a promoted body, or the stream ended as it
\* should and the reader met nothing it gave up at.
Told ==
  \/ EndsErr(out) \/ ShowsError(out) \/ Promoted(out)
  \/ up.end # "error" /\ ~GivenUp(up.pos) /\ (HasTerminal(up.cut) \/ CutFrameEnds)

StreamInv ==
  Streaming =>
    /\ StreamType
    /\ ~done => TermInv /\ (~gate.saw => out = <<>>)
    /\ done => Told
    /\ setup.same => Quiet(out)
    /\ setup.same /\ Proxy /\ ~done => GateInv /\ (~gate.verr => NoErr(out))
    /\ setup.same /\ ~Proxy => NoErr(out)

\* Bytes handed on behind others put no [DONE] behind an error.
LEMMA QuietConcat ==
  ASSUME NEW s \in Seq(Byte), NEW t \in Seq(Byte), Quiet(s),
         NoErr(s) \/ NoDone(t), NoErr(t) \/ NoDone(t)
  PROVE  Quiet(s \o t)
  <1> DEFINE u == s \o t
  <1>1. \A j \in DOMAIN u : (j \in DOMAIN s /\ u[j] = s[j]) \/ (j > Len(s) /\ j - Len(s) \in DOMAIN t /\ u[j] = t[j - Len(s)])
    OBVIOUS
  <1>2. \A j \in DOMAIN s : j <= Len(s)
    OBVIOUS
  <1>3. DOMAIN u \subseteq Int /\ Len(s) \in Nat
    OBVIOUS
  <1> HIDE DEF u
  <1>4. ASSUME NEW i \in DOMAIN u, NEW j \in DOMAIN u, i < j, ErrByte(u[i]) PROVE ~DoneByte(u[j])
    <2>1. CASE j \in DOMAIN s /\ u[j] = s[j]
      <3>1. i \in DOMAIN s /\ u[i] = s[i]
        BY <1>1, <1>2, <1>3, <1>4, <2>1
      <3> QED BY <1>4, <2>1, <3>1 DEF Quiet
    <2>2. CASE j - Len(s) \in DOMAIN t /\ u[j] = t[j - Len(s)]
      <3>1. CASE NoDone(t)
        BY <2>2, <3>1 DEF NoDone
      <3>2. CASE NoErr(s) /\ NoErr(t)
        BY <1>1, <1>4, <3>2 DEF NoErr
      <3> QED BY <3>1, <3>2
    <2> QED BY <1>1, <2>1, <2>2
  <1> QED BY <1>4 DEF Quiet, u

\* Before the first read.
LEMMA StreamStarts == Init => StreamInv
  <1> SUFFICES ASSUME Init, Streaming PROVE StreamInv
    BY DEF StreamInv
  <1>1. setup.wire \in {"chat", "responses", "converse"}
    BY DEF Init, Setups, Streaming
  <1>2. PICK b \in Bodies(setup.wire) :
          up \in {[kind |-> b.kind, page |-> b.page, cut |-> c, end |-> e, whole |-> FALSE, pos |-> 0]
                  : c \in 0..Len(Bytes(b)), e \in {"eof", "error"}}
                 \cup {[kind |-> b.kind, page |-> b.page, cut |-> 2 * i - 1, end |-> "eof", whole |-> TRUE, pos |-> 0]
                  : i \in {k \in DOMAIN b.kind : ~EventStream(setup.wire) /\ b.kind[k] # "big"}}
    BY DEF Init, Streaming, Upstreams
  <1>3. b.kind \in Seq(Kinds(setup.wire)) /\ b.page \in Pages /\ (b.page # None => b.kind = <<>>)
    <2>1. CASE b \in {[kind |-> k, page |-> None] : k \in BoundedSeq(Kinds(setup.wire), MaxFrames)}
      <3>1. PICK m \in 0..MaxFrames : b.kind \in [1..m -> Kinds(setup.wire)] /\ b.page = None
        BY <2>1 DEF BoundedSeq, SeqOf
      <3>2. m \in Nat
        BY <3>1, MaxFramesAssumption
      <3>3. b.kind \in Seq(Kinds(setup.wire))
        BY <3>1, <3>2
      <3> QED BY <3>1, <3>3 DEF Pages
    <2>2. CASE b \in {[kind |-> <<>>, page |-> q] : q \in {"completion", "failure", "html", "huge"}}
      <3>1. b.kind = <<>> /\ b.page \in {"completion", "failure", "html", "huge"}
        BY <2>2
      <3> QED BY <3>1, EmptySeq DEF Pages
    <2> QED BY <2>1, <2>2 DEF Bodies
  <1>a. /\ up = [kind |-> b.kind, page |-> b.page, cut |-> up.cut, end |-> up.end, whole |-> up.whole, pos |-> 0]
        /\ up.whole \in BOOLEAN /\ up.cut \in 0..Len(Bytes(b))
    <2>1. CASE up \in {[kind |-> b.kind, page |-> b.page, cut |-> c, end |-> e, whole |-> FALSE, pos |-> 0]
                         : c \in 0..Len(Bytes(b)), e \in {"eof", "error"}}
      <3>1. PICK c \in 0..Len(Bytes(b)), e \in {"eof", "error"} :
              up = [kind |-> b.kind, page |-> b.page, cut |-> c, end |-> e, whole |-> FALSE, pos |-> 0]
        BY <2>1
      <3> QED BY <3>1
    <2>2. CASE up \in {[kind |-> b.kind, page |-> b.page, cut |-> 2 * i - 1, end |-> "eof", whole |-> TRUE, pos |-> 0]
                         : i \in {k \in DOMAIN b.kind : ~EventStream(setup.wire) /\ b.kind[k] # "big"}}
      <3>1. PICK i \in DOMAIN b.kind :
              up = [kind |-> b.kind, page |-> b.page, cut |-> 2 * i - 1, end |-> "eof", whole |-> TRUE, pos |-> 0]
        BY <2>2
      <3>2. i \in 1..Len(b.kind) /\ Len(b.kind) \in Nat /\ b.page = None
        <4>1. b.kind \in Seq(Kinds(setup.wire)) /\ (b.page # None => b.kind = <<>>)
          BY <1>3
        <4>2. i \in 1..Len(b.kind) /\ Len(b.kind) \in Nat /\ b.kind # <<>>
          BY <4>1
        <4> QED BY <4>1, <4>2
      <3>3. Len(Bytes(b)) = 2 * Len(b.kind)
        <4>1. Ids(Len(b.kind)) \in Seq(Int) /\ Len(Ids(Len(b.kind))) = Len(b.kind)
          BY <3>2 DEF Ids
        <4> QED BY <3>2, <4>1, AllOfIs DEF Bytes
      <3>4. 2 * i - 1 \in 0..Len(Bytes(b))
        BY <3>2, <3>3
      <3> QED BY <3>1, <3>4
    <2> QED BY <1>2, <2>1, <2>2
  <1>4. UpType
    <2>1. /\ up.kind = b.kind /\ up.page = b.page /\ up.pos = 0 /\ up.whole \in BOOLEAN
          /\ up = [kind |-> up.kind, page |-> up.page, cut |-> up.cut, end |-> up.end, whole |-> up.whole, pos |-> up.pos]
      BY <1>a
    <2>2. Bytes(up) = Bytes(b)
      BY <2>1 DEF Bytes
    <2>3. up.cut \in Nat /\ up.cut <= Len(Bytes(up)) /\ 0 <= up.cut
      <3>1. Len(Bytes(b)) \in Nat
        <4>1. CASE b.page = None
          <5>1. Len(b.kind) \in Nat /\ Ids(Len(b.kind)) \in Seq(Int)
            BY <1>3 DEF Ids
          <5> QED BY <4>1, <5>1, AllOfIs DEF Bytes
        <4>2. CASE b.page # None
          BY <4>2 DEF Bytes, Whole
        <4> QED BY <4>1, <4>2
      <3> QED BY <1>a, <2>2, <3>1
    <2> QED BY <1>3, <2>1, <2>3 DEF UpType
  <1>5. gate = GateInit /\ out = <<>> /\ done = FALSE
    BY DEF Init
  <1>6. /\ gate \in Gates /\ gate.buf = <<>> /\ gate.held = <<>>
        /\ ~gate.saw /\ ~gate.term /\ ~gate.verr /\ ~gate.drop
    BY <1>5 DEF GateInit, Gates
  <1>7. DOMAIN <<>> = {}
    OBVIOUS
  <1>8. OpenBytes(<<>>) /\ NoErr(<<>>) /\ Quiet(<<>>) /\ <<>> \in Seq(Byte)
    BY <1>7, EmptySeq DEF OpenBytes, NoErr, Quiet
  <1>9. StreamType
    BY <1>1, <1>4, <1>5, <1>6, <1>8 DEF StreamType
  <1>b. ~GivenUp(up.pos)
    <2>1. up.pos = 0 /\ \A i \in DOMAIN up.kind : i \in Nat /\ i >= 1
      BY <1>a, <1>4 DEF UpType
    <2> QED BY <2>1 DEF GivenUp
  <1>10. TermInv /\ GateInv
    BY <1>6, <1>8, <1>b DEF TermInv, GateInv, OpenAt
  <1> QED BY <1>5, <1>8, <1>9, <1>10 DEF StreamInv

\* Whatever leaves the stream alone.
LEMMA StreamLeftAlone ==
  ASSUME StreamInv, UNCHANGED <<setup, stream>>
  PROVE  StreamInv'
  BY DEF StreamInv, stream, Streaming, StreamType, UpType, TermInv, GateInv, HasTerminal, Terminal, EndsErr, Promoted,
         Quiet, NoErr, ErrByte, DoneByte, IsError, Proxy, Bytes, Kinds, EventStream, Told, GivenUp, ShowsError, Stuck,
         OpenAt, CutFrame, CutFrameEnds, NamedTerminal

\* A read of any size, whoever reads.
LEMMA ReadKeeps ==
  ASSUME StreamInv, Streaming, ReadChunk
  PROVE  StreamInv'
  <1>1. PICK n \in 1..(up.cut - up.pos) :
          LET p == Push(SubSeq(Bytes(up), up.pos + 1, up.pos + n)) IN
          /\ up' = [up EXCEPT !.pos = @ + n]
          /\ gate' = p.g /\ out' = out \o p.out /\ done' = p.stop
    BY DEF ReadChunk
  <1> DEFINE p == Push(Chunk(n))
  <1>2. gate' = p.g /\ out' = out \o p.out /\ done' = p.stop /\ up' = [up EXCEPT !.pos = @ + n]
    BY <1>1 DEF Chunk
  <1>3. setup' = setup /\ ~done
    BY DEF ReadChunk
  <1>4. StreamType /\ TermInv /\ (~gate.saw => out = <<>>) /\ UpType /\ out \in Seq(Byte)
    BY <1>3 DEF StreamInv, StreamType
  <1>5. PushGood(p, n) /\ PushTold(p, n) /\ (Proxy /\ setup.same => GateQuiet(p)) /\ (~Proxy => NoErr(p.out))
    <2>1. CASE ~Proxy
      <3>1. p = ClientPush(gate, setup.wire, up.kind, up.page, Chunk(n))
        BY <2>1 DEF Push
      <3> QED BY <1>4, <2>1, <3>1, ClientPushes
    <2>2. CASE Proxy /\ setup.same
      <3>1. p = GatePush(gate, setup.wire, up.kind, up.page, Chunk(n))
        BY <2>2 DEF Push
      <3>2. GateInv
        BY <1>3, <2>2 DEF StreamInv
      <3> QED BY <1>4, <2>2, <3>1, <3>2, GatePushes
    <2>3. CASE Proxy /\ ~setup.same
      <3>1. p = MappedPush(gate, setup.wire, up.kind, up.page, Chunk(n))
        BY <2>3 DEF Push
      <3> QED BY <1>4, <2>3, <3>1, MappedPushes
    <2> QED BY <2>1, <2>2, <2>3
  <1> HIDE DEF p
  <1>6. /\ up' = [kind |-> up'.kind, page |-> up'.page, cut |-> up'.cut, end |-> up'.end, whole |-> up'.whole, pos |-> up'.pos]
        /\ up'.kind = up.kind /\ up'.page = up.page /\ up'.cut = up.cut /\ up'.end = up.end /\ up'.pos = up.pos + n
        /\ up'.whole = up.whole
    BY <1>2, <1>4 DEF UpType
  <1>7. Bytes(up)' = Bytes(up)
    BY <1>6 DEF Bytes
  <1>8. UpType'
    <2>1. up.pos + n \in Nat /\ up.pos + n <= up.cut
      BY <1>4 DEF UpType
    <2> QED BY <1>3, <1>4, <1>6, <1>7, <2>1 DEF UpType, Kinds, EventStream
  <1> DEFINE w == out \o p.out
  <1>9. /\ p.g \in Gates /\ p.out \in Seq(Byte) /\ p.stop \in BOOLEAN
        /\ ~EventStream(setup.wire) => OpenBytes(p.g.buf)
    BY <1>5 DEF PushGood
  <1>10. /\ w \in Seq(Byte)
         /\ NoErr(out) /\ NoErr(p.out) => NoErr(w)
         /\ EndsErr(p.out) => EndsErr(w)
         /\ ShowsError(out) \/ ShowsError(p.out) => ShowsError(w)
         /\ out = <<>> => w = p.out
         /\ p.out = <<>> => w = out
    BY <1>4, <1>9, ConcatIs
  <1>11. StreamType'
    BY <1>2, <1>3, <1>4, <1>8, <1>9, <1>10 DEF StreamType, EventStream
  <1>12. \A m : HasTerminal(m)' <=> HasTerminal(m)
    BY <1>3, <1>6 DEF HasTerminal, Terminal
  <1>13. \A v : (NoErr(v)' <=> NoErr(v)) /\ (Quiet(v)' <=> Quiet(v))
    BY <1>6 DEF NoErr, Quiet, ErrByte, DoneByte, IsError
  <1>14. ~done' => TermInv' /\ (~gate'.saw => out' = <<>>)
    <2> SUFFICES ASSUME ~p.stop PROVE TermInv' /\ (~gate'.saw => out' = <<>>)
      BY <1>2
    <2>1. ~p.g.saw => ~gate.saw /\ p.out = <<>>
      BY <1>5 DEF PushGood
    <2>2. /\ p.g.term => HasTerminal(up.pos + n) \/ ShowsError(w) \/ p.g.drop
          /\ p.g.drop => p.g.buf = <<>> /\ Proxy /\ setup.same /\ EndsErr(w)
          /\ GivenUp(up.pos + n) => p.g.drop \/ ShowsError(w) \/ Stuck(p.g)
          /\ OpenAt(p.g.buf, up.pos + n)
      <3>1. HasTerminal(up.pos) => HasTerminal(up.pos + n)
        <4>1. up.pos \in Nat /\ up.pos + n \in Nat /\ up.pos <= up.pos + n
          BY <1>4 DEF UpType
        <4> QED BY <1>4, <4>1, TerminalStays
      <3> HIDE DEF w
      <3>2. /\ p.g.term => gate.term \/ HasTerminal(up.pos + n) \/ ShowsError(p.out) \/ p.g.drop
            /\ gate.drop => p.g.drop
            /\ p.g.drop => /\ p.g.buf = <<>> /\ Proxy /\ setup.same
                           /\ (gate.drop /\ p.out = <<>>) \/ EndsErr(p.out)
            /\ GivenUp(up.pos + n) => GivenUp(up.pos) \/ p.g.drop \/ ShowsError(p.out) \/ Stuck(p.g)
            /\ Stuck(gate) => Stuck(p.g)
            /\ OpenAt(p.g.buf, up.pos + n)
        BY <1>5 DEF PushTold
      <3> QED BY <1>4, <1>10, <3>1, <3>2 DEF TermInv
    <2>3. TermInv'
      <3>1. gate' = p.g /\ out' = w /\ setup' = setup
        BY <1>2, <1>3
      <3> HIDE DEF w
      <3> QED BY <1>6, <2>2, <3>1 DEF TermInv, HasTerminal, Terminal, ShowsError, GivenUp, Stuck, OpenAt, Proxy, EndsErr
    <2> QED BY <1>2, <1>4, <1>10, <2>1, <2>3
  <1>15. done' => Told'
    <2> SUFFICES ASSUME p.stop PROVE EndsErr(out') \/ Promoted(out)'
      BY <1>2 DEF Told, EndsErr
    <2>1. EndsErr(p.out) \/ (~gate.saw /\ Promoted(p.out))
      BY <1>5 DEF PushGood
    <2> QED BY <1>2, <1>4, <1>6, <1>10, <2>1 DEF Promoted
  <1>16. setup'.same => Quiet(out)'
    <2> SUFFICES ASSUME setup.same PROVE Quiet(w)
      <3>1. out' = w /\ setup'.same = setup.same
        BY <1>2, <1>3
      <3> HIDE DEF w
      <3> QED BY <1>6, <3>1 DEF Quiet, ErrByte, DoneByte, IsError
    <2>1. Quiet(out)
      BY DEF StreamInv
    <2>2. (NoErr(out) \/ NoDone(p.out)) /\ (NoErr(p.out) \/ NoDone(p.out))
      <3>1. CASE Proxy
        BY <1>3, <1>5, <3>1 DEF StreamInv, GateQuiet
      <3>2. CASE ~Proxy
        BY <1>5, <3>2 DEF StreamInv
      <3> QED BY <3>1, <3>2
    <2> QED BY <1>4, <1>9, <2>1, <2>2, QuietConcat
  <1>17. setup'.same /\ Proxy' /\ ~done' => GateInv' /\ (~gate'.verr => NoErr(out)')
    <2> SUFFICES ASSUME setup.same, Proxy, ~p.stop PROVE GateInv' /\ (~gate'.verr => NoErr(out)')
      BY <1>2, <1>3 DEF Proxy
    <2>1. GateQuiet(p) /\ (~gate.verr => NoErr(out))
      BY <1>3, <1>5 DEF StreamInv
    <2>2. GateInv'
      BY <1>2, <1>6, <2>1 DEF GateInv, GateQuiet, NoErr, ErrByte, IsError
    <2>3. ~p.g.verr => NoErr(w)
      BY <1>10, <2>1 DEF GateQuiet
    <2>4. ~gate'.verr => NoErr(out)'
      BY <1>2, <1>6, <2>3 DEF NoErr, ErrByte, IsError
    <2> QED BY <2>2, <2>4
  <1>18. setup'.same /\ ~Proxy' => NoErr(out)'
    <2> SUFFICES ASSUME setup.same, ~Proxy PROVE NoErr(w)
      BY <1>2, <1>3, <1>6 DEF NoErr, ErrByte, IsError, Proxy
    <2> QED BY <1>5, <1>10 DEF StreamInv
  <1> QED BY <1>11, <1>14, <1>15, <1>16, <1>17, <1>18 DEF StreamInv

\* The bytes end, or the transport fails.
LEMMA EndKeeps ==
  ASSUME StreamInv, Streaming, EndStream
  PROVE  StreamInv'
  <1> DEFINE f == IF up.end = "error" THEN Whole(ErrorId) ELSE AtEnd
             w == out \o f
  <1>1. out' = w /\ done' = TRUE /\ UNCHANGED <<setup, up, gate>> /\ ~done /\ up.pos = up.cut
    BY DEF EndStream
  <1>2. StreamType /\ TermInv /\ (~gate.saw => out = <<>>) /\ UpType /\ out \in Seq(Byte)
    BY <1>1 DEF StreamInv, StreamType
  <1>3. /\ FinishGood(f)
        /\ Proxy /\ setup.same => (gate.verr => NoDone(f)) /\ (NoErr(f) \/ NoDone(f))
        /\ ~Proxy => NoErr(f)
        /\ up.end = "error" => EndsErr(f)
    <2>1. CASE up.end = "error"
      BY <1>2, <2>1, OwnFrames DEF FinishGood
    <2>2. CASE up.end # "error" /\ ~Proxy
      <3>1. f = ClientFinish(gate, setup.wire, up.kind, up.page, up.whole)
        BY <2>2 DEF AtEnd
      <3> QED BY <1>1, <1>2, <2>2, <3>1, ClientFinishes
    <2>3. CASE up.end # "error" /\ Proxy /\ setup.same
      <3>1. f = GateFinish(gate, setup.wire, up.kind, up.page, up.whole)
        BY <2>3 DEF AtEnd
      <3>2. GateInv
        BY <1>1, <2>3 DEF StreamInv
      <3> QED BY <1>1, <1>2, <2>3, <3>1, <3>2, GateFinishes
    <2>4. CASE up.end # "error" /\ Proxy /\ ~setup.same
      <3>1. f = MappedFinish(gate, setup.wire, up.kind, up.page, up.whole)
        BY <2>4 DEF AtEnd
      <3> QED BY <1>1, <1>2, <2>4, <3>1, MappedFinishes
    <2> QED BY <2>1, <2>2, <2>3, <2>4
  <1> HIDE DEF f
  <1>4. /\ w \in Seq(Byte)
        /\ NoErr(out) /\ NoErr(f) => NoErr(w)
        /\ EndsErr(f) => EndsErr(w)
        /\ ShowsError(out) => ShowsError(w)
        /\ out = <<>> => w = f
        /\ f = <<>> => w = out
    BY <1>2, <1>3, ConcatIs DEF FinishGood
  <1>5. StreamType'
    BY <1>1, <1>2, <1>4 DEF StreamType, UpType, Bytes, Kinds, EventStream
  <1>6. Told'
    <2>1. \/ EndsErr(f) \/ (~gate.saw /\ Promoted(f)) \/ (gate.drop /\ f = <<>>)
          \/ ~gate.drop /\ ~Stuck(gate) /\ (gate.term \/ CutFrameEnds)
      BY <1>3 DEF FinishGood
    <2>2. /\ gate.term => HasTerminal(up.cut) \/ ShowsError(out) \/ gate.drop
          /\ gate.drop => EndsErr(out)
          /\ GivenUp(up.pos) => gate.drop \/ ShowsError(out) \/ Stuck(gate)
      BY <1>1, <1>2 DEF TermInv
    <2>4. Promoted(f) /\ ~gate.saw => Promoted(w)
      BY <1>2, <1>4 DEF Promoted
    <2>5. gate.drop /\ f = <<>> => EndsErr(w)
      BY <1>4, <2>2
    <2> HIDE DEF w
    <2>3. \/ EndsErr(w) \/ ShowsError(w) \/ Promoted(w)
          \/ up.end # "error" /\ ~GivenUp(up.pos) /\ (HasTerminal(up.cut) \/ CutFrameEnds)
      BY <1>3, <1>4, <2>1, <2>2, <2>4, <2>5
    <2>6. Told' <=> \/ EndsErr(w) \/ ShowsError(w) \/ Promoted(w)
                    \/ up.end # "error" /\ ~GivenUp(up.pos) /\ (HasTerminal(up.cut) \/ CutFrameEnds)
      BY <1>1 DEF Told, HasTerminal, Terminal, Promoted, EndsErr, ShowsError, GivenUp, CutFrame, CutFrameEnds,
                  NamedTerminal, Proxy
    <2> QED BY <2>3, <2>6
  <1>7. setup.same => Quiet(w)
    <2> SUFFICES ASSUME setup.same PROVE Quiet(w)
      OBVIOUS
    <2>1. (NoErr(out) \/ NoDone(f)) /\ (NoErr(f) \/ NoDone(f)) /\ Quiet(out)
      BY <1>1, <1>3 DEF StreamInv
    <2> QED BY <1>2, <1>3, <2>1, QuietConcat DEF FinishGood
  <1>8. setup.same /\ ~Proxy => NoErr(w)
    BY <1>3, <1>4 DEF StreamInv
  <1> HIDE DEF w
  <1>9. setup'.same => Quiet(out)'
    BY <1>1, <1>7 DEF Quiet, ErrByte, DoneByte, IsError
  <1>10. setup'.same /\ ~Proxy' => NoErr(out)'
    BY <1>1, <1>8 DEF NoErr, ErrByte, IsError, Proxy
  <1> QED BY <1>1, <1>5, <1>6, <1>9, <1>10 DEF StreamInv

\* The invariant of a streamed answer, whatever the vendor sends: a terminal frame
\* is noted only if it arrived or an error was handed on; a reader that met a frame
\* it gives up at has handed on an error or is stuck there; whoever ends without a
\* terminal frame, whole or named in its event line, has handed on an error or the
\* promoted completion; and after an error frame the gate holds nothing back and
\* hands on no [DONE] (SameWireGate, MappedStream, LiveStream).
THEOREM StreamInvariance == Spec => []StreamInv
  <1>1. Init => StreamInv
    BY StreamStarts
  <1>2. StreamInv /\ [Next]_vars => StreamInv'
    <2> SUFFICES ASSUME StreamInv, [Next]_vars PROVE StreamInv'
      OBVIOUS
    <2>1. ASSUME NEW r \in Requests, RequestStep(r) PROVE StreamInv'
      <3>1. UNCHANGED <<setup, stream>>
        BY <2>1 DEF RequestStep, Accept, TakeLock, Resolve, Send, Receive, Check, MarkStale, ClientSend, ClientCheck
      <3> QED BY <3>1, StreamLeftAlone
    <2>2. CASE Login
      <3>1. UNCHANGED <<setup, stream>>
        BY <2>2 DEF Login
      <3> QED BY <3>1, StreamLeftAlone
    <2>3. CASE ReadChunk
      <3>1. Streaming
        BY <2>3 DEF ReadChunk
      <3> QED BY <2>3, <3>1, ReadKeeps
    <2>4. CASE EndStream
      <3>1. Streaming
        BY <2>4 DEF EndStream
      <3> QED BY <2>4, <3>1, EndKeeps
    <2>5. CASE Stop \/ UNCHANGED vars
      <3>1. UNCHANGED <<setup, stream>>
        BY <2>5 DEF Stop, vars, stream
      <3> QED BY <3>1, StreamLeftAlone
    <2> QED BY <2>1, <2>2, <2>3, <2>4, <2>5 DEF Next
  <1> QED BY <1>1, <1>2, PTL DEF Spec

\* A stream that has no terminal frame, ran into a cap or a bad checksum, or whose
\* transport failed, ends in an error for the caller or has shown it the vendor's,
\* and only a JSON completion is promoted instead: for any number of frames and any
\* cut into reads (SameWireGate, MappedStream, LiveStream).
THEOREM TruncationIsReported == Spec => []TruncationReported
  <1>1. StreamInv => TruncationReported
    BY DEF StreamInv, TruncationReported, EndsErr, EndsInError, Promoted, Told
  <1> QED BY <1>1, StreamInvariance, PTL

\* Behind an error frame of the vendor the caller reads no [DONE], for any number
\* of frames and however their bytes come in (SameWireGate::push and finish).
THEOREM NoDoneBehindAnError == Spec => []NoDoneAfterError
  <1>1. StreamInv => NoDoneAfterError
    BY DEF StreamInv, NoDoneAfterError, Quiet, ErrByte, DoneByte
  <1> QED BY <1>1, StreamInvariance, PTL
-----------------------------------------------------------------------------
(* Where every frame is sound, a reader's state is a function of how far   *)
(* the bytes were read.                                                    *)

Frames(h, m) == [k \in 1..(m - h) |-> h + k]
Between(a, b) == SubSeq(Bytes(up), a + 1, b)
Open(q) == Between(2 * (q \div 2), q)
Clean(p, q) == [buf |-> Open(q), frames |-> Frames(p \div 2, q \div 2), term |-> FALSE, err |-> FALSE]

\* The numbers of the frames that end between two frame ends.
LEMMA FramesAre ==
  ASSUME NEW h \in Nat, NEW m \in Nat, h <= m
  PROVE  /\ Frames(h, m) \in Seq(Int) /\ Len(Frames(h, m)) = m - h /\ DOMAIN Frames(h, m) = 1..(m - h)
         /\ \A k \in 1..(m - h) : Frames(h, m)[k] = h + k
         /\ h = m => Frames(h, m) = <<>>
         /\ Append(Frames(h, m), m + 1) = Frames(h, m + 1)
  <1> DEFINE n == m - h
             f == Frames(h, m)
  <1>1. n \in Nat /\ f = [k \in 1..n |-> h + k]
    BY DEF Frames
  <1>2. \A k \in 1..n : h + k \in Int
    BY <1>1
  <1>3. f \in [1..n -> Int] /\ \A k \in 1..n : f[k] = h + k
    <2> HIDE DEF f, n
    <2> QED BY <1>1, <1>2
  <1>4. f \in Seq(Int) /\ Len(f) = n /\ DOMAIN f = 1..n
    <2> HIDE DEF f, n
    <2> QED BY <1>1, <1>3
  <1>5. h = m => f = <<>>
    <2> SUFFICES ASSUME h = m PROVE f = <<>>
      OBVIOUS
    <2>1. Len(f) = 0
      BY <1>4
    <2> HIDE DEF f
    <2> QED BY <1>4, <2>1, EmptySeq
  <1>6. Append(f, m + 1) = Frames(h, m + 1)
    <2> DEFINE a == Append(f, m + 1)
               b == Frames(h, m + 1)
    <2>1. b = [k \in 1..(n + 1) |-> h + k]
      <3>1. (m + 1) - h = n + 1
        OBVIOUS
      <3> HIDE DEF n
      <3> QED BY <3>1 DEF Frames
    <2>2. n + 1 \in Nat /\ (\A k \in 1..(n + 1) : h + k \in Int) /\ h + (n + 1) = m + 1
      BY <1>1
    <2> HIDE DEF f, n
    <2>3. a \in Seq(Int) /\ Len(a) = n + 1 /\ a[n + 1] = m + 1 /\ \A k \in 1..n : a[k] = f[k]
      BY <1>4
    <2>4. \A k \in 1..(n + 1) : a[k] = h + k
      BY <1>1, <1>3, <2>2, <2>3
    <2> HIDE DEF a, b
    <2>5. b \in [1..(n + 1) -> Int]
      BY <2>1, <2>2
    <2>6. b \in Seq(Int) /\ Len(b) = n + 1
      BY <2>2, <2>5
    <2>7. \A k \in 1..Len(a) : a[k] = b[k]
      BY <2>1, <2>3, <2>4
    <2>8. a = b
      BY <2>3, <2>6, <2>7, SeqEqual
    <2> QED BY <2>8 DEF a, b
  <1> QED BY <1>3, <1>4, <1>5, <1>6

\* A part of the answer's bytes.
LEMMA BetweenIs ==
  ASSUME UpType, NEW a \in Nat, NEW b \in Nat, a <= b, b <= Len(Bytes(up))
  PROVE  /\ Between(a, b) \in Seq(Byte) /\ Len(Between(a, b)) = b - a /\ DOMAIN Between(a, b) = 1..(b - a)
         /\ \A j \in 1..(b - a) : Between(a, b)[j] = Bytes(up)[a + j]
         /\ a = b => Between(a, b) = <<>>
  <1> DEFINE s == Bytes(up)
             c == Between(a, b)
             m == a + 1
  <1>1. s \in Seq(Byte)
    BY BytesAre
  <1>2. m \in Int /\ b \in Int /\ 1 <= m /\ b <= Len(s) /\ b - m + 1 = b - a
        /\ (\A j \in 1..(b - a) : m + j - 1 = a + j) /\ (m <= b => b - m + 1 = b - a) /\ (~(m <= b) => b - a = 0)
    OBVIOUS
  <1>3. c = SubSeq(s, m, b)
    BY DEF Between
  <1> HIDE DEF s, c, m
  <1>4. \A i \in m..b : s[i] \in Byte
    BY <1>1, <1>2
  <1>5. c \in Seq(Byte) /\ Len(c) = IF m <= b THEN b - m + 1 ELSE 0
    BY <1>2, <1>3, <1>4, SubSeqProperties
  <1>6. \A i \in 1..(b - m + 1) : c[i] = s[m + i - 1]
    BY <1>2, <1>3, <1>4, SubSeqProperties
  <1>7. Len(c) = b - a
    BY <1>2, <1>5
  <1>8. DOMAIN c = 1..(b - a)
    BY <1>5, <1>7
  <1>9. \A j \in 1..(b - a) : c[j] = s[a + j]
    BY <1>2, <1>6
  <1>10. a = b => c = <<>>
    BY <1>5, <1>7, EmptySeq
  <1> QED BY <1>5, <1>7, <1>8, <1>9, <1>10 DEF c, s

\* Parts that meet.
LEMMA BetweenJoin ==
  ASSUME UpType, NEW a \in Nat, NEW b \in Nat, NEW c \in Nat, a <= b, b <= c, c <= Len(Bytes(up))
  PROVE  Between(a, b) \o Between(b, c) = Between(a, c)
  <1> DEFINE s == Between(a, b)
             t == Between(b, c)
             u == Between(a, c)
             w == Bytes(up)
  <1>0. a <= c /\ b <= Len(Bytes(up))
    <2>1. Len(Bytes(up)) \in Nat
      BY BytesAre
    <2> QED BY <2>1
  <1>1. s \in Seq(Byte) /\ Len(s) = b - a /\ \A j \in 1..(b - a) : s[j] = w[a + j]
    BY <1>0, BetweenIs
  <1>2. t \in Seq(Byte) /\ Len(t) = c - b /\ \A j \in 1..(c - b) : t[j] = w[b + j]
    BY BetweenIs
  <1>3. u \in Seq(Byte) /\ Len(u) = c - a /\ \A j \in 1..(c - a) : u[j] = w[a + j]
    BY <1>0, BetweenIs
  <1> HIDE DEF s, t, u, w
  <1>4. s \o t \in Seq(Byte) /\ Len(s \o t) = c - a
    <2>1. s \o t \in Seq(Byte) /\ Len(s \o t) = Len(s) + Len(t)
      BY <1>1, <1>2, ConcatProperties
    <2> QED BY <1>1, <1>2, <2>1
  <1>5. ASSUME NEW j \in 1..(c - a) PROVE (s \o t)[j] = w[a + j]
    <2>1. CASE j <= b - a
      BY <1>1, <1>2, <2>1
    <2>2. CASE ~(j <= b - a)
      <3>1. j - (b - a) \in 1..(c - b) /\ b + (j - (b - a)) = a + j
        BY <2>2
      <3>2. (s \o t)[j] = t[j - (b - a)]
        BY <1>1, <1>2, <2>2
      <3> QED BY <1>2, <3>1, <3>2
    <2> QED BY <2>1, <2>2
  <1>6. s \o t = u
    BY <1>3, <1>4, <1>5, SeqEqual
  <1> QED BY <1>6 DEF s, t, u

\* The open frame's bytes, one byte on.
LEMMA OpenIs ==
  ASSUME UpType, NEW q \in Nat, q <= Len(Bytes(up))
  PROVE  /\ Open(q) \in Seq(Byte)
         /\ q % 2 = 0 => Open(q) = <<>>
         /\ q % 2 = 1 => Open(q) = <<Bytes(up)[q]>>
  <1> DEFINE h == 2 * (q \div 2)
  <1>1. h \in Nat /\ h <= q /\ (q % 2 = 0 => h = q) /\ (q % 2 = 1 => h + 1 = q /\ q - h = 1)
    OBVIOUS
  <1>2. Open(q) = Between(h, q)
    BY DEF Open
  <1> HIDE DEF h
  <1> DEFINE s == Between(h, q)
  <1>3. s \in Seq(Byte) /\ Len(s) = q - h /\ (\A j \in 1..(q - h) : s[j] = Bytes(up)[h + j]) /\ (h = q => s = <<>>)
    BY <1>1, BetweenIs
  <1> HIDE DEF s
  <1>4. q % 2 = 1 => s = <<Bytes(up)[q]>>
    <2> SUFFICES ASSUME q % 2 = 1 PROVE s = <<Bytes(up)[q]>>
      OBVIOUS
    <2>1. Len(s) = 1 /\ s[1] = Bytes(up)[q]
      BY <1>1, <1>3
    <2> DEFINE x == Bytes(up)[q]
               t == <<x>>
    <2>2. x \in Byte
      <3>1. 1 \in 1..Len(s)
        BY <2>1
      <3>2. s[1] \in Byte
        BY <1>3, <3>1, ElementOfSeq
      <3> QED BY <2>1, <3>2
    <2> HIDE DEF x
    <2>3. t \in Seq(Byte) /\ Len(t) = 1 /\ t[1] = x
      BY <2>2
    <2> HIDE DEF t
    <2>4. \A i \in 1..Len(s) : s[i] = t[i]
      BY <2>1, <2>3 DEF x
    <2>5. s = t
      BY <1>3, <2>1, <2>3, <2>4, SeqEqual
    <2> QED BY <2>5 DEF t, x
  <1> QED BY <1>1, <1>2, <1>3, <1>4 DEF s

\* A byte more, read by either reader.
LEMMA CleanByte ==
  ASSUME UpType, NoErrorFrames, NEW p \in Nat, NEW q \in Nat, p <= q, q < Len(Bytes(up)), NEW wire
  PROVE  FeedByte(wire, up.kind, Clean(p, q), Bytes(up)[q + 1]) = Clean(p, q + 1)
  <1> DEFINE b == Bytes(up)[q + 1]
             o == Open(q)
             h == p \div 2
             m == q \div 2
             f == Frames(h, m)
             acc == [buf |-> o, frames |-> f, term |-> FALSE, err |-> FALSE]
             kind == up.kind
  <1>1. up.page = None /\ \A i \in DOMAIN kind : kind[i] \in {"text", "term", "done"}
    BY DEF NoErrorFrames
  <1>2. Len(kind) \in Nat /\ DOMAIN kind = 1..Len(kind) /\ Len(Bytes(up)) = 2 * Len(kind)
    BY <1>1, BytesAre DEF UpType
  <1>3. b = <<((q + 1) + 1) \div 2, 2 - ((q + 1) % 2)>>
    <2>1. \A j \in 1..(2 * Len(kind)) : Bytes(up)[j] = <<(j + 1) \div 2, 2 - (j % 2)>>
      BY <1>1, BytesAre
    <2>2. q + 1 \in 1..(2 * Len(kind))
      BY <1>2
    <2> DEFINE j == q + 1
    <2> HIDE DEF j
    <2> QED BY <2>1, <2>2 DEF j
  <1>4. h \in Nat /\ m \in Nat /\ h <= m
    OBVIOUS
  <1>5. Clean(p, q) = acc
    BY DEF Clean
  <1>o. /\ q % 2 = 0 => o = <<>> /\ Open(q + 1) = <<b>>
        /\ q % 2 = 1 => Open(q + 1) = <<>>
    <2>1. q \in Nat /\ q <= Len(Bytes(up)) /\ q + 1 \in Nat /\ q + 1 <= Len(Bytes(up))
          /\ (q % 2 = 0 => (q + 1) % 2 = 1) /\ (q % 2 = 1 => (q + 1) % 2 = 0)
      BY <1>2
    <2> DEFINE j == q + 1
    <2>2. j \in Nat /\ j <= Len(Bytes(up))
      BY <2>1
    <2> HIDE DEF j
    <2>3. (j % 2 = 1 => Open(j) = <<Bytes(up)[j]>>) /\ (j % 2 = 0 => Open(j) = <<>>)
      BY <2>2, OpenIs
    <2>4. q % 2 = 0 => Open(q) = <<>>
      BY <2>1, OpenIs
    <2> QED BY <2>1, <2>3, <2>4 DEF j
  <1>n. ~Broken(o)
    <2>1. CASE q % 2 = 0
      <3>1. o = <<>> /\ DOMAIN <<>> = {}
        BY <1>o, <2>1
      <3> HIDE DEF o
      <3> QED BY <3>1 DEF Broken
    <2>2. CASE q % 2 = 1
      <3> DEFINE x == Bytes(up)[q]
      <3>1. q \in Nat /\ q \in 1..(2 * Len(kind)) /\ q <= Len(Bytes(up))
        BY <1>2, <2>2
      <3>2. o = <<x>>
        BY <2>2, <3>1, OpenIs
      <3>3. x = <<(q + 1) \div 2, 2 - (q % 2)>>
        BY <1>1, <3>1, BytesAre
      <3>4. x[2] = 1
        BY <2>2, <3>3
      <3> HIDE DEF o, x
      <3> DEFINE s == <<x>>
      <3>5. DOMAIN s = {1} /\ s[1] = x
        OBVIOUS
      <3>6. o = s
        BY <3>2
      <3> HIDE DEF s
      <3> QED BY <3>4, <3>5, <3>6 DEF Broken
    <2> QED BY <2>1, <2>2
  <1>c. Clean(p, q + 1) = [buf |-> Open(q + 1), frames |-> Frames(h, (q + 1) \div 2), term |-> FALSE, err |-> FALSE]
    BY DEF Clean
  <1>6. CASE q % 2 = 0
    <2>1. (q + 1) % 2 = 1 /\ (q + 1) \div 2 = m
      BY <1>6
    <2>2. b[2] = 1
      BY <1>3, <2>1
    <2>4. Append(o, b) = Open(q + 1)
      <3> HIDE DEF b, o
      <3>1. Append(<<>>, b) = <<b>>
        OBVIOUS
      <3> QED BY <1>o, <1>6, <3>1
    <2>5. Clean(p, q + 1) = [buf |-> Append(o, b), frames |-> f, term |-> FALSE, err |-> FALSE]
      BY <1>c, <2>1, <2>4
    <2> HIDE DEF b, h, m, o, f
    <2>x. [acc EXCEPT !.buf = Append(acc.buf, b)] = [buf |-> Append(o, b), frames |-> f, term |-> FALSE, err |-> FALSE]
      <3> DEFINE v == Append(acc.buf, b)
                 no == FALSE
                 x == [[buf |-> o, frames |-> f, term |-> no, err |-> no] EXCEPT !.buf = v]
      <3>1. v = Append(o, b)
        BY Zenon
      <3>2. [acc EXCEPT !.buf = v] = x
        BY Zenon
      <3> HIDE DEF v, no
      <3>3. x = [buf |-> v, frames |-> f, term |-> no, err |-> no]
        OBVIOUS
      <3> HIDE DEF x
      <3> QED BY <3>1, <3>2, <3>3, Zenon DEF v, no
    <2>y. ~acc.err /\ ~acc.term
      OBVIOUS
    <2> HIDE DEF acc
    <2>7. SseByte(kind, acc, b) = [buf |-> Append(o, b), frames |-> f, term |-> FALSE, err |-> FALSE]
      BY <2>2, <2>x, <2>y DEF SseByte
    <2>8. EventByte(kind, acc, b) = [buf |-> Append(o, b), frames |-> f, term |-> FALSE, err |-> FALSE]
      <3>1. ~Broken(acc.buf)
        BY <1>n DEF acc
      <3> QED BY <2>2, <2>x, <2>y, <3>1 DEF EventByte
    <2>9. FeedByte(wire, kind, acc, b) = Clean(p, q + 1)
      BY <2>5, <2>7, <2>8 DEF FeedByte
    <2> QED BY <1>5, <2>9 DEF b
  <1>7. CASE q % 2 = 1
    <2>1. (q + 1) % 2 = 0 /\ (q + 1) \div 2 = m + 1 /\ ((q + 1) + 1) \div 2 = m + 1 /\ m + 1 \in 1..Len(kind)
      BY <1>2, <1>7
    <2>2. b[2] = 2 /\ b[1] = m + 1
      BY <1>3, <2>1
    <2>4. Append(f, m + 1) = Frames(h, m + 1)
      BY <1>4, FramesAre
    <2>5. kind[b[1]] \in {"text", "term", "done"} /\ b[1] # 0
      BY <1>1, <1>2, <2>1, <2>2
    <2>6. Clean(p, q + 1) = [buf |-> <<>>, frames |-> Append(f, b[1]), term |-> FALSE, err |-> FALSE]
      BY <1>c, <1>o, <1>7, <2>1, <2>2, <2>4
    <2> HIDE DEF b, h, m, f, o
    <2>8. SseByte(kind, acc, b) = [buf |-> <<>>, frames |-> Append(f, b[1]), term |-> FALSE, err |-> FALSE]
      BY <2>2, <2>5 DEF SseByte
    <2>9. EventByte(kind, acc, b) = [buf |-> <<>>, frames |-> Append(f, b[1]), term |-> FALSE, err |-> FALSE]
      <3>1. ~Broken(acc.buf)
        BY <1>n
      <3> QED BY <2>2, <2>5, <3>1 DEF EventByte
    <2> HIDE DEF acc
    <2>10. FeedByte(wire, kind, acc, b) = Clean(p, q + 1)
      BY <2>6, <2>8, <2>9 DEF FeedByte
    <2> QED BY <1>5, <2>10 DEF b
  <1> QED BY <1>6, <1>7

\* A read of sound frames.
LEMMA CleanFeed ==
  ASSUME StreamType, NoErrorFrames, NEW n \in 1..(up.cut - up.pos), gate.buf = Open(up.pos)
  PROVE  Feed(setup.wire, up.kind, gate.buf, Chunk(n)) = Clean(up.pos, up.pos + n)
  <1> DEFINE c == Chunk(n)
             wire == setup.wire
             kind == up.kind
  <1>1. UpType /\ up.pos \in Nat /\ up.cut \in Nat /\ up.cut <= Len(Bytes(up))
    BY DEF StreamType, UpType
  <1>2. /\ c \in Seq(Byte) /\ Len(c) = n
        /\ \A j \in 1..n : c[j] = Bytes(up)[up.pos + j] /\ up.pos + j \in DOMAIN Bytes(up)
    BY <1>1, ChunkIs
  <1>3. n \in Nat
    BY <1>1
  <1> HIDE DEF c
  <1>4. PICK read : /\ read[0] = Reader(gate.buf)
                    /\ \A j \in 1..Len(c) : read[j] = FeedByte(wire, kind, read[j - 1], c[j])
                    /\ Feed(wire, kind, gate.buf, c) = read[Len(c)]
    <2>1. Len(c) \in Nat
      BY <1>2, <1>3
    <2> QED BY <2>1, FeedSteps
  <1> DEFINE T == {j \in 0..n : read[j] = Clean(up.pos, up.pos + j)}
  <1>5. 0 \in T
    <2>1. Frames(up.pos \div 2, up.pos \div 2) = <<>> /\ up.pos + 0 = up.pos
      <3> DEFINE h == up.pos \div 2
      <3>1. h \in Nat /\ h <= h /\ up.pos + 0 = up.pos
        BY <1>1
      <3> HIDE DEF h
      <3>2. Frames(h, h) = <<>>
        BY <3>1, FramesAre
      <3> QED BY <3>1, <3>2 DEF h
    <2>2. Clean(up.pos, up.pos) = Reader(gate.buf)
      BY <2>1 DEF Clean, Reader
    <2> QED BY <1>3, <1>4, <2>1, <2>2
  <1>6. ASSUME NEW j \in 1..n, j - 1 \in T PROVE j \in T
    <2> DEFINE q == up.pos + (j - 1)
    <2>1. read[j - 1] = Clean(up.pos, q)
      BY <1>6
    <2>2. q \in Nat /\ up.pos <= q /\ q < Len(Bytes(up)) /\ q + 1 = up.pos + j
      BY <1>1
    <2>3. FeedByte(wire, kind, Clean(up.pos, q), Bytes(up)[q + 1]) = Clean(up.pos, q + 1)
      <3> HIDE DEF q
      <3> QED BY <1>1, <2>2, CleanByte
    <2>4. c[j] = Bytes(up)[q + 1]
      BY <1>2, <2>2
    <2>5. read[j] = FeedByte(wire, kind, read[j - 1], c[j])
      BY <1>2, <1>4
    <2> HIDE DEF q
    <2>6. read[j] = Clean(up.pos, up.pos + j)
      BY <2>1, <2>2, <2>3, <2>4, <2>5
    <2> QED BY <2>6
  <1>7. \A j \in 0..n : j \in T
    <2> HIDE DEF T
    <2> QED BY <1>3, <1>5, <1>6, Induction
  <1>8. n \in T
    BY <1>3, <1>7
  <1> QED BY <1>2, <1>4, <1>8 DEF c

\* Frames written out again are the bytes they came in.
LEMMA AllOfFrames ==
  ASSUME UpType, NoErrorFrames, NEW h \in Nat, NEW m \in Nat, h <= m, 2 * m <= Len(Bytes(up))
  PROVE  AllOf(Frames(h, m)) = Between(2 * h, 2 * m)
  <1> DEFINE f == Frames(h, m)
             s == AllOf(f)
             t == Between(2 * h, 2 * m)
             d == m - h
  <1>1. up.page = None /\ Len(Bytes(up)) = 2 * Len(up.kind) /\ Len(up.kind) \in Nat
        /\ \A j \in 1..(2 * Len(up.kind)) : Bytes(up)[j] = <<(j + 1) \div 2, 2 - (j % 2)>>
    BY BytesAre DEF NoErrorFrames, UpType
  <1>2. f \in Seq(Int) /\ Len(f) = d /\ \A k \in 1..d : f[k] = h + k
    BY FramesAre
  <1>3. s \in Seq(Byte) /\ Len(s) = 2 * d
    BY <1>2, AllOfIs
  <1>4. s = [j \in 1..(2 * d) |-> <<f[(j + 1) \div 2], 2 - (j % 2)>>]
    BY <1>2 DEF AllOf
  <1>5. t \in Seq(Byte) /\ Len(t) = 2 * d /\ \A j \in 1..(2 * d) : t[j] = Bytes(up)[2 * h + j]
    <2> DEFINE a == 2 * h
               b == 2 * m
    <2>1. a \in Nat /\ b \in Nat /\ a <= b /\ b <= Len(Bytes(up)) /\ b - a = 2 * d
      OBVIOUS
    <2>2. t = Between(a, b)
      OBVIOUS
    <2> HIDE DEF a, b, t, d
    <2>3. t \in Seq(Byte) /\ Len(t) = b - a /\ \A j \in 1..(b - a) : t[j] = Bytes(up)[a + j]
      BY <2>1, <2>2, BetweenIs
    <2> QED BY <2>1, <2>3 DEF a
  <1>6. d \in Nat
    OBVIOUS
  <1> HIDE DEF f, s, t
  <1>7. ASSUME NEW j \in 1..(2 * d) PROVE s[j] = t[j]
    <2>1. (j + 1) \div 2 \in 1..d /\ 2 * h + j \in 1..(2 * Len(up.kind))
          /\ ((2 * h + j) + 1) \div 2 = h + ((j + 1) \div 2) /\ (2 * h + j) % 2 = j % 2
      BY <1>1, <1>6
    <2>2. s[j] = <<f[(j + 1) \div 2], 2 - (j % 2)>>
      BY <1>4
    <2>3. f[(j + 1) \div 2] = h + ((j + 1) \div 2)
      BY <1>2, <2>1
    <2> DEFINE k == 2 * h + j
    <2>4. t[j] = Bytes(up)[k]
      BY <1>5
    <2>5. k \in 1..(2 * Len(up.kind)) /\ (k + 1) \div 2 = h + ((j + 1) \div 2) /\ k % 2 = j % 2
      BY <2>1
    <2> HIDE DEF k
    <2>6. Bytes(up)[k] = <<(k + 1) \div 2, 2 - (k % 2)>>
      BY <1>1, <2>5
    <2> QED BY <2>2, <2>3, <2>4, <2>5, <2>6
  <1>8. s = t
    <2>1. Len(s) = Len(t) /\ \A j \in 1..Len(s) : s[j] = t[j]
      BY <1>3, <1>5, <1>7
    <2> QED BY <1>3, <1>5, <2>1, SeqEqual
  <1> QED BY <1>8 DEF f, s, t

\* A read cuts the answer into frames handed out and one kept open.
LEMMA Pieces ==
  ASSUME UpType, NoErrorFrames, NEW n \in 1..(up.cut - up.pos)
  PROVE  LET p == up.pos
             q == up.pos + n
             all == AllOf(Frames(p \div 2, q \div 2)) IN
         /\ Between(0, p) \o Chunk(n) = Between(0, q)
         /\ Between(0, 2 * (p \div 2)) \o Open(p) = Between(0, p)
         /\ Between(0, 2 * (p \div 2)) \o all = Between(0, 2 * (q \div 2))
         /\ Open(p) \o Chunk(n) = all \o Open(q)
  <1> DEFINE p == up.pos
             q == up.pos + n
             h == p \div 2
             m == q \div 2
             a == 2 * h
             b == 2 * m
             all == AllOf(Frames(h, m))
  <1>1. up.pos \in Nat /\ up.cut \in Nat /\ up.cut <= Len(Bytes(up)) /\ Len(Bytes(up)) \in Nat
    BY BytesAre DEF UpType
  <1>2. p \in Nat /\ q \in Nat /\ p <= q /\ q <= Len(Bytes(up))
    BY <1>1
  <1>3. h \in Nat /\ m \in Nat /\ h <= m /\ a \in Nat /\ b \in Nat /\ a <= p /\ b <= q /\ a <= b
    <2> HIDE DEF p, q
    <2> QED BY <1>2
  <1>4. Chunk(n) = Between(p, q)
    BY DEF Chunk, Between
  <1>5. Open(p) = Between(a, p) /\ Open(q) = Between(b, q)
    BY DEF Open
  <1>6. all = Between(a, b)
    <2>1. 2 * m <= Len(Bytes(up))
      BY <1>1, <1>2, <1>3
    <2> HIDE DEF h, m
    <2> QED BY <1>3, <2>1, AllOfFrames
  <1>7. p <= Len(Bytes(up)) /\ b <= Len(Bytes(up)) /\ a <= q /\ 0 \in Nat /\ 0 <= p /\ 0 <= a
    <2> HIDE DEF p, q, a, b
    <2> QED BY <1>1, <1>2, <1>3
  <1> HIDE DEF p, q, a, b, all
  <1>8. Between(0, p) \o Between(p, q) = Between(0, q)
    BY <1>2, <1>7, BetweenJoin
  <1>9. Between(0, a) \o Between(a, p) = Between(0, p)
    BY <1>2, <1>3, <1>7, BetweenJoin
  <1>10. Between(0, a) \o Between(a, b) = Between(0, b)
    BY <1>3, <1>7, BetweenJoin
  <1>11. Between(a, p) \o Between(p, q) = Between(a, q)
    BY <1>2, <1>3, BetweenJoin
  <1>12. Between(a, b) \o Between(b, q) = Between(a, q)
    BY <1>2, <1>3, BetweenJoin
  <1> QED BY <1>4, <1>5, <1>6, <1>8, <1>9, <1>10, <1>11, <1>12 DEF p, q, a, b, h, m, all

\* [DONE] left out: of a concatenation, and of frames written out again.
LEMMA SansIs ==
  ASSUME NEW x \in Seq(Byte), NEW y \in Seq(Byte)
  PROVE  /\ Sans(x) \in Seq(Byte)
         /\ Sans(x \o y) = Sans(x) \o Sans(y)
  <1> DEFINE D == {i \in DOMAIN up.kind : up.kind[i] = "done"}
  <1>1. Sans(x) = Without(D, x) /\ Sans(y) = Without(D, y) /\ Sans(x \o y) = Without(D, x \o y)
    BY DEF Sans
  <1> HIDE DEF D
  <1>2. x \in Seq(Byte) /\ y \in Seq(Byte)
    OBVIOUS
  <1>3. Without(D, x) \in Seq(Byte)
    BY <1>2, WithoutConcat
  <1>4. Without(D, x \o y) = Without(D, x) \o Without(D, y)
    <2>1. ASSUME NEW I PROVE Without(I, x \o y) = Without(I, x) \o Without(I, y)
      <3> DEFINE e == x
                 f == y
      <3>1. e \in Seq(Byte) /\ f \in Seq(Byte) /\ e = x /\ f = y
        OBVIOUS
      <3> HIDE DEF e, f
      <3>2. Without(I, e \o f) = Without(I, e) \o Without(I, f)
        BY <3>1, WithoutConcat
      <3> QED BY <3>1, <3>2, Zenon
    <2> QED BY <2>1
  <1> QED BY <1>1, <1>3, <1>4

\* Frames the gate writes out again are the bytes they came in, [DONE] aside.
LEMMA SansRewritten ==
  ASSUME NEW frames \in Seq(Int)
  PROVE  /\ Rewritten(up.kind, frames) \in Seq(Byte)
         /\ Sans(Rewritten(up.kind, frames)) = Sans(AllOf(frames))
  <1> DEFINE D == {i \in DOMAIN up.kind : up.kind[i] = "done"}
             s == AllOf(frames)
             w == Without(D, s)
  <1>1. s \in Seq(Byte)
    BY AllOfIs
  <1>2. Rewritten(up.kind, frames) = w /\ Sans(s) = w /\ Sans(w) = Without(D, w)
    BY DEF Rewritten, Sans
  <1> HIDE DEF D, s
  <1>3. w \in Seq(Byte) /\ \A j \in DOMAIN w : w[j][1] \notin D
    BY <1>1, WithoutConcat, WithoutRange
  <1> HIDE DEF w
  <1>4. Without(D, w) = w
    BY <1>3, WithoutNone
  <1> QED BY <1>2, <1>3, <1>4 DEF s

\* The filter on bytes.
LEMMA WithoutBytes ==
  ASSUME NEW I, NEW x \in Seq(Byte), NEW y \in Seq(Byte)
  PROVE  Without(I, x \o y) = Without(I, x) \o Without(I, y)
  <1> DEFINE e == x
             f == y
  <1>1. e \in Seq(Byte) /\ f \in Seq(Byte) /\ e = x /\ f = y
    OBVIOUS
  <1> HIDE DEF e, f
  <1>2. Without(I, e \o f) = Without(I, e) \o Without(I, f)
    BY <1>1, WithoutConcat
  <1> QED BY <1>1, <1>2, Zenon

\* What the caller was handed, the proxy's own error frame aside.
Handed(s) == Without({ErrorId}, Sans(s))

\* Whoever was handed the first k bytes, [DONE] aside, was handed a prefix, also
\* with the error frame behind them.
LEMMA HandedPrefix ==
  ASSUME UpType, NoErrorFrames, NEW s \in Seq(Byte), NEW k \in Nat, k <= Len(Bytes(up)),
         Sans(s) = Sans(Between(0, k))
  PROVE  /\ IsPrefix(Handed(s), Sans(Bytes(up)))
         /\ IsPrefix(Handed(s \o Whole(ErrorId)), Sans(Bytes(up)))
  <1> DEFINE n == Len(Bytes(up))
             a == Between(0, k)
             b == Between(k, n)
             u == Sans(a)
             v == Sans(b)
             e == Whole(ErrorId)
  <1>1. up.page = None /\ n = 2 * Len(up.kind) /\ Len(up.kind) \in Nat /\ Bytes(up) \in Seq(Byte)
        /\ \A j \in 1..(2 * Len(up.kind)) : Bytes(up)[j] = <<(j + 1) \div 2, 2 - (j % 2)>>
    BY BytesAre DEF NoErrorFrames, UpType
  <1>2. n \in Nat /\ k <= n /\ 0 \in Nat /\ 0 <= k /\ n <= n /\ 0 <= n
    BY <1>1
  <1>3. a \in Seq(Byte) /\ Len(a) = k /\ \A j \in 1..k : a[j] = Bytes(up)[j]
    <2>1. a \in Seq(Byte) /\ Len(a) = k - 0 /\ \A j \in 1..(k - 0) : a[j] = Bytes(up)[0 + j]
      <3> HIDE DEF n
      <3> QED BY <1>2, BetweenIs DEF n
    <2>2. k - 0 = k /\ \A j \in 1..k : 0 + j = j
      OBVIOUS
    <2> HIDE DEF a
    <2> QED BY <2>1, <2>2
  <1>4. b \in Seq(Byte)
    <2> HIDE DEF n
    <2> QED BY <1>2, BetweenIs DEF n
  <1>5. a \o b = Bytes(up)
    <2>1. a \o b = Between(0, n)
      <3> HIDE DEF n
      <3> QED BY <1>2, BetweenJoin DEF n
    <2>2. Between(0, n) = SubSeq(Bytes(up), 1, n)
      BY DEF Between
    <2>3. SubSeq(Bytes(up), 1, n) = Bytes(up)
      <3> DEFINE w == Bytes(up)
      <3>1. w \in Seq(Byte)
        BY <1>1
      <3> HIDE DEF w
      <3>2. SubSeq(w, 1, Len(w)) = w
        BY <3>1
      <3> QED BY <3>2 DEF w
    <2> QED BY <2>1, <2>2, <2>3
  <1>6. ASSUME NEW j \in DOMAIN a PROVE a[j][1] # ErrorId
    <2>1. j \in 1..k /\ a[j] = Bytes(up)[j]
      BY <1>3
    <2>2. j \in 1..(2 * Len(up.kind)) /\ (j + 1) \div 2 >= 1
      BY <1>1, <2>1
    <2>3. a[j] = <<(j + 1) \div 2, 2 - (j % 2)>>
      BY <1>1, <2>1, <2>2
    <2> QED BY <2>2, <2>3 DEF ErrorId
  <1>7. e \in Seq(Byte) /\ \A j \in DOMAIN e : e[j][1] \in {ErrorId}
    BY DEF Whole, ErrorId, Byte
  <1> HIDE DEF a, b, e
  <1>8. Sans(Bytes(up)) = u \o v /\ u \in Seq(Byte) /\ v \in Seq(Byte)
    BY <1>3, <1>4, <1>5, SansIs
  <1>9. Handed(s) = u
    <2>1. \A j \in DOMAIN u : \E i \in DOMAIN a : a[i] = u[j]
      <3> DEFINE D == {i \in DOMAIN up.kind : up.kind[i] = "done"}
      <3>1. u = Without(D, a)
        BY DEF Sans
      <3> HIDE DEF D, u
      <3> QED BY <1>3, <3>1, WithoutRange
    <2> HIDE DEF u
    <2>2. \A j \in DOMAIN u : u[j][1] \notin {ErrorId}
      BY <1>6, <2>1
    <2>3. Without({ErrorId}, u) = u
      <3> DEFINE I == {ErrorId}
      <3> HIDE DEF I
      <3>1. \A j \in DOMAIN u : u[j][1] \notin I
        BY <2>2 DEF I
      <3>2. Without(I, u) = u
        BY <1>8, <3>1, WithoutNone
      <3> QED BY <3>2 DEF I
    <2>4. Handed(s) = Without({ErrorId}, Sans(a))
      BY DEF Handed, a
    <2> QED BY <2>3, <2>4 DEF u
  <1>10. Handed(s \o e) = u
    <2> DEFINE D == {i \in DOMAIN up.kind : up.kind[i] = "done"}
               I == {ErrorId}
               x == Sans(s)
               y == Sans(e)
    <2>1. Sans(s \o e) = x \o y /\ x \in Seq(Byte) /\ y \in Seq(Byte)
      BY <1>7, SansIs
    <2>2. \A j \in DOMAIN y : y[j][1] \in I
      <3>1. y = Without(D, e)
        BY DEF Sans
      <3>2. \A j \in DOMAIN y : \E i \in DOMAIN e : e[i] = y[j]
        <4> HIDE DEF D, y
        <4> QED BY <1>7, <3>1, WithoutRange
      <3> HIDE DEF y
      <3> QED BY <1>7, <3>2
    <2> HIDE DEF x, y
    <2>3. Handed(s \o e) = Without(I, x \o y)
      BY <2>1 DEF Handed
    <2>4. Handed(s) = Without(I, x)
      BY DEF Handed, x
    <2> HIDE DEF I
    <2>5. Without(I, y) = <<>>
      BY <2>1, <2>2, WithoutAll
    <2>6. Without(I, x \o y) = Without(I, x) \o Without(I, y)
      BY <2>1, WithoutBytes
    <2>7. u \o <<>> = u
      <3> HIDE DEF u
      <3> QED BY <1>8, ConcatEmptySeq
    <2> QED BY <1>9, <2>3, <2>4, <2>5, <2>6, <2>7
  <1>11. IsPrefix(u, u \o v)
    <2> HIDE DEF u, v
    <2>1. Len(u) <= Len(u \o v)
      BY <1>8
    <2> DEFINE w == SubSeq(u \o v, 1, Len(u))
               m == Len(u)
    <2>2. SubSeq(u, 1, Len(u)) = u
      BY <1>8
    <2>3. w = u
      <3> DEFINE z == u \o v
      <3>1. z \in Seq(Byte) /\ m \in Nat /\ m <= Len(z) /\ \A i \in 1..m : z[i] = u[i]
        BY <1>8
      <3>2. w = SubSeq(z, 1, m)
        OBVIOUS
      <3> HIDE DEF z, m, w
      <3>3. \A i \in 1..m : z[i] \in Byte
        BY <3>1
      <3>4. w \in Seq(Byte) /\ Len(w) = (IF 1 <= m THEN m - 1 + 1 ELSE 0) /\ \A i \in 1..(m - 1 + 1) : w[i] = z[1 + i - 1]
        BY <3>1, <3>2, <3>3, SubSeqProperties
      <3>5. Len(w) = m /\ \A i \in 1..m : w[i] = z[i]
        BY <3>1, <3>4
      <3>6. Len(w) = Len(u) /\ \A i \in 1..Len(w) : w[i] = u[i]
        BY <3>1, <3>5 DEF m
      <3> QED BY <1>8, <3>4, <3>6, SeqEqual
    <2> QED BY <2>1, <2>2, <2>3 DEF IsPrefix
  <1> HIDE DEF u, v
  <1> QED BY <1>8, <1>9, <1>10, <1>11 DEF e

\* A reader of sound frames after q bytes, w handed on: it keeps the open frame
\* only, has noted every terminal frame, and nothing is lost between what it
\* handed on and what it holds.
SoundReader(g, w, q) ==
  /\ g.buf = Open(q)
  /\ ~g.drop /\ ~g.verr
  /\ g.term => g.saw
  /\ HasTerminal(q) => g.term
  /\ ~(Proxy /\ setup.same) => w = Between(0, 2 * (q \div 2))
  /\ Proxy /\ setup.same /\ setup.wire = "responses" =>
       g.held = Open(q) /\ Sans(w) = Sans(Between(0, 2 * (q \div 2)))
  /\ Proxy /\ setup.same /\ setup.wire # "responses" =>
       w \o g.held = Between(0, q) /\ (g.saw => g.held = <<>>)

\* The frames of a read of sound frames.
LEMMA SoundFrames ==
  ASSUME UpType, NoErrorFrames, NEW n \in 1..(up.cut - up.pos)
  PROVE  LET fs == Frames(up.pos \div 2, (up.pos + n) \div 2) IN
         /\ fs \in Seq(Int)
         /\ \A k \in DOMAIN fs : fs[k] \in DOMAIN up.kind /\ up.kind[fs[k]] \in {"text", "term", "done"}
         /\ HasTerminal(up.pos + n) =>
              HasTerminal(up.pos) \/ \E k \in DOMAIN fs : Terminal(setup.wire, up.kind[fs[k]])
         /\ fs = <<>> => AllOf(fs) = <<>>
         /\ Open(up.pos) \in Seq(Byte) /\ Open(up.pos + n) \in Seq(Byte)
         /\ AllOf(fs) \in Seq(Byte)
  <1> DEFINE p == up.pos
             q == up.pos + n
             h == p \div 2
             m == q \div 2
             fs == Frames(h, m)
  <1>1. p \in Nat /\ up.cut \in Nat /\ up.cut <= Len(Bytes(up)) /\ Len(Bytes(up)) = 2 * Len(up.kind)
        /\ Len(up.kind) \in Nat /\ DOMAIN up.kind = 1..Len(up.kind)
        /\ \A i \in DOMAIN up.kind : up.kind[i] \in {"text", "term", "done"}
    BY BytesAre DEF UpType, NoErrorFrames
  <1>2. p \in Nat /\ q \in Nat /\ p <= q /\ q <= 2 * Len(up.kind) /\ q <= Len(Bytes(up)) /\ p <= Len(Bytes(up))
    BY <1>1
  <1> HIDE DEF p, q
  <1>3. h \in Nat /\ m \in Nat /\ h <= m /\ m <= Len(up.kind)
        /\ \A i \in Int : (2 * i <= p <=> i <= h) /\ (2 * i <= q <=> i <= m)
    BY <1>1, <1>2
  <1> HIDE DEF h, m
  <1>4. fs \in Seq(Int) /\ DOMAIN fs = 1..(m - h) /\ \A k \in 1..(m - h) : fs[k] = h + k
    BY <1>3, FramesAre
  <1> HIDE DEF fs
  <1>5. \A k \in DOMAIN fs : fs[k] \in DOMAIN up.kind /\ up.kind[fs[k]] \in {"text", "term", "done"}
    <2> SUFFICES ASSUME NEW k \in 1..(m - h) PROVE fs[k] \in DOMAIN up.kind
      BY <1>1, <1>4
    <2>1. h + k \in 1..Len(up.kind)
      BY <1>1, <1>3
    <2> QED BY <1>1, <1>4, <2>1
  <1>6. ASSUME HasTerminal(q), ~HasTerminal(p)
        PROVE  \E k \in DOMAIN fs : Terminal(setup.wire, up.kind[fs[k]])
    <2>1. PICK i \in DOMAIN up.kind : 2 * i <= q /\ Terminal(setup.wire, up.kind[i])
      BY <1>1, <1>6 DEF HasTerminal
    <2>2. ~(2 * i <= p)
      BY <1>6, <2>1 DEF HasTerminal
    <2>3. i - h \in 1..(m - h) /\ h + (i - h) = i
      BY <1>1, <1>3, <2>1, <2>2
    <2>4. fs[i - h] = i
      BY <1>4, <2>3
    <2> QED BY <1>4, <2>1, <2>3, <2>4
  <1>7. AllOf(fs) \in Seq(Byte) /\ Len(AllOf(fs)) = 2 * Len(fs)
    BY <1>4, AllOfIs
  <1>8. fs = <<>> => AllOf(fs) = <<>>
    <2> SUFFICES ASSUME fs = <<>> PROVE AllOf(fs) = <<>>
      OBVIOUS
    <2> DEFINE w == AllOf(fs)
    <2>1. w \in Seq(Byte) /\ Len(w) = 0
      BY <1>7
    <2> HIDE DEF w
    <2>2. w = <<>>
      BY <2>1, EmptySeq
    <2> QED BY <2>2 DEF w
  <1>9. Open(p) \in Seq(Byte) /\ Open(q) \in Seq(Byte)
    BY <1>2, OpenIs
  <1> QED BY <1>4, <1>5, <1>6, <1>7, <1>8, <1>9 DEF fs, h, m, p, q

\* The mapped stream and the client hand on the frames, as they come.
LEMMA SoundPushFrames ==
  ASSUME StreamType, NoErrorFrames, SoundReader(gate, out, up.pos), NEW n \in 1..(up.cut - up.pos),
         ~(Proxy /\ setup.same), NEW x \in Gates, x.buf = Open(up.pos + n), x.saw = gate.saw, x.term = gate.term,
         x.verr = gate.verr, x.drop = gate.drop, NEW fed, fed = Clean(up.pos, up.pos + n)
  PROVE  LET p == PushFrames(x, setup.wire, up.kind, fed) IN
         ~p.stop /\ SoundReader(p.g, out \o p.out, up.pos + n)
  <1> DEFINE q == up.pos + n
             wire == setup.wire
             kind == up.kind
             fs == Frames(up.pos \div 2, q \div 2)
             good == UpToError(kind, fed.frames)
             came == fed.frames # <<>>
             ends == \E k \in DOMAIN good : Terminal(wire, kind[good[k]])
             g == [x EXCEPT !.saw = @ \/ came, !.term = @ \/ ends]
             p == PushFrames(x, setup.wire, up.kind, fed)
  <1>p. p = IF Len(good) < Len(fed.frames) \/ fed.term
              THEN [g |-> g, out |-> AllOf(good) \o Whole(ErrorId), stop |-> TRUE]
              ELSE Forward(g, AllOf(good))
    BY Zenon DEF PushFrames
  <1>1. fed.frames = fs /\ ~fed.term
    BY DEF Clean
  <1>2. /\ fs \in Seq(Int) /\ UpType
        /\ \A k \in DOMAIN fs : fs[k] \in DOMAIN kind /\ kind[fs[k]] \in {"text", "term", "done"}
        /\ HasTerminal(q) => HasTerminal(up.pos) \/ \E k \in DOMAIN fs : Terminal(wire, kind[fs[k]])
    BY SoundFrames DEF StreamType
  <1>3. Between(0, 2 * (up.pos \div 2)) \o AllOf(fs) = Between(0, 2 * (q \div 2))
    BY <1>2, Pieces
  <1> SUFFICES ~p.stop /\ SoundReader(p.g, out \o p.out, q)
    OBVIOUS
  <1> HIDE DEF p, fs
  <1>4. good = fs
    <2>1. \A k \in DOMAIN fs : ~IsError(kind[fs[k]])
      BY <1>2 DEF IsError
    <2> QED BY <1>1, <1>2, <2>1, UpToErrorIs
  <1>5. ~(Len(good) < Len(fed.frames) \/ fed.term)
    BY <1>1, <1>2, <1>4
  <1>6. p = Forward(g, AllOf(good))
    BY <1>p, <1>5, Zenon
  <1>7. p.g = g /\ p.out = AllOf(fs) /\ ~p.stop
    <2> HIDE DEF g, good
    <2> QED BY <1>4, <1>6 DEF Forward
  <1>8. ends \in BOOLEAN /\ came \in BOOLEAN /\ (ends => came)
    <2>1. DOMAIN <<>> = {}
      OBVIOUS
    <2> QED BY <1>1, <1>4, <2>1
  <1>9. ends <=> \E k \in DOMAIN fs : Terminal(wire, kind[fs[k]])
    BY <1>4
  <1> HIDE DEF ends, came, good
  <1>10. g.buf = Open(q) /\ g.drop = gate.drop /\ g.verr = gate.verr /\ (g.saw <=> gate.saw \/ came) /\ (g.term <=> gate.term \/ ends)
    <2>1. (x.saw \/ came) \in BOOLEAN /\ (x.term \/ ends) \in BOOLEAN
      BY <1>8
    <2> QED BY <2>1 DEF Gates
  <1> HIDE DEF g
  <1>11. out = Between(0, 2 * (up.pos \div 2)) /\ ~gate.drop /\ ~gate.verr /\ (gate.term => gate.saw) /\ (HasTerminal(up.pos) => gate.term)
    BY DEF SoundReader
  <1> HIDE DEF q
  <1> QED BY <1>2, <1>3, <1>7, <1>8, <1>9, <1>10, <1>11 DEF SoundReader

\* map_sse_stream on sound frames.
LEMMA SoundMapped ==
  ASSUME StreamType, NoErrorFrames, SoundReader(gate, out, up.pos), NEW n \in 1..(up.cut - up.pos),
         ~(Proxy /\ setup.same)
  PROVE  LET p == MappedPush(gate, setup.wire, up.kind, up.page, Chunk(n)) IN
         ~p.stop /\ SoundReader(p.g, out \o p.out, up.pos + n)
  <1> DEFINE p == MappedPush(gate, setup.wire, up.kind, up.page, Chunk(n))
             fed == Feed(setup.wire, up.kind, gate.buf, Chunk(n))
             x == [gate EXCEPT !.buf = fed.buf]
  <1>p. p = IF fed.err THEN Fail(gate) ELSE PushFrames(x, setup.wire, up.kind, fed)
    BY Zenon DEF MappedPush
  <1>1. fed = Clean(up.pos, up.pos + n)
    BY CleanFeed DEF SoundReader
  <1>2. fed \in Reading /\ gate \in Gates
    BY FedIs DEF StreamType
  <1> SUFFICES ~p.stop /\ SoundReader(p.g, out \o p.out, up.pos + n)
    OBVIOUS
  <1> HIDE DEF p, fed
  <1>3. ~fed.err /\ fed.buf = Open(up.pos + n) /\ fed.buf \in Seq(Byte)
    BY <1>1, <1>2 DEF Clean, Reading
  <1>4. x \in Gates /\ x.buf = fed.buf /\ x.saw = gate.saw /\ x.term = gate.term /\ x.verr = gate.verr /\ x.drop = gate.drop
    BY <1>2, <1>3 DEF Gates
  <1>5. p = PushFrames(x, setup.wire, up.kind, fed)
    BY <1>p, <1>3, Zenon
  <1> HIDE DEF x
  <1>6. LET q == PushFrames(x, setup.wire, up.kind, fed) IN ~q.stop /\ SoundReader(q.g, out \o q.out, up.pos + n)
    BY <1>1, <1>3, <1>4, SoundPushFrames
  <1> QED BY <1>5, <1>6

\* pull_live on sound frames.
LEMMA SoundClient ==
  ASSUME StreamType, NoErrorFrames, SoundReader(gate, out, up.pos), NEW n \in 1..(up.cut - up.pos),
         ~(Proxy /\ setup.same)
  PROVE  LET p == ClientPush(gate, setup.wire, up.kind, up.page, Chunk(n)) IN
         ~p.stop /\ SoundReader(p.g, out \o p.out, up.pos + n)
  <1> DEFINE p == ClientPush(gate, setup.wire, up.kind, up.page, Chunk(n))
             fed == Feed(setup.wire, up.kind, gate.buf, Chunk(n))
             left == IF gate.saw THEN gate.held ELSE gate.held \o Chunk(n)
             x == [gate EXCEPT !.buf = fed.buf, !.held = left]
  <1>p. p = IF fed.err /\ ~gate.saw /\ up.page = "completion" /\ Len(left) = 2
              THEN [g |-> [x EXCEPT !.saw = TRUE, !.term = TRUE], out |-> Whole(PromotedId), stop |-> TRUE]
            ELSE IF fed.err THEN Fail(x)
            ELSE PushFrames(x, setup.wire, up.kind, fed)
    BY Zenon DEF ClientPush
  <1>1. fed = Clean(up.pos, up.pos + n)
    BY CleanFeed DEF SoundReader
  <1>2. fed \in Reading /\ gate \in Gates
    BY FedIs DEF StreamType
  <1>l. left \in Seq(Byte)
    <2>1. gate.held \in Seq(Byte) /\ Chunk(n) \in Seq(Byte)
      BY <1>2, ChunkIs DEF Gates, StreamType
    <2>2. gate.held \o Chunk(n) \in Seq(Byte)
      BY <2>1
    <2> QED BY <2>1, <2>2
  <1> SUFFICES ~p.stop /\ SoundReader(p.g, out \o p.out, up.pos + n)
    OBVIOUS
  <1> HIDE DEF p, fed, left
  <1>3. ~fed.err /\ fed.buf = Open(up.pos + n) /\ fed.buf \in Seq(Byte)
    BY <1>1, <1>2 DEF Clean, Reading
  <1>4. x \in Gates /\ x.buf = fed.buf /\ x.saw = gate.saw /\ x.term = gate.term /\ x.verr = gate.verr /\ x.drop = gate.drop
    BY <1>2, <1>3, <1>l DEF Gates
  <1>5. p = PushFrames(x, setup.wire, up.kind, fed)
    BY <1>p, <1>3, Zenon
  <1> HIDE DEF x
  <1>6. LET q == PushFrames(x, setup.wire, up.kind, fed) IN ~q.stop /\ SoundReader(q.g, out \o q.out, up.pos + n)
    BY <1>1, <1>3, <1>4, SoundPushFrames
  <1> QED BY <1>5, <1>6

\* Every byte of a sound answer is of one of its frames.
OfFrames(s) == \A j \in DOMAIN s : s[j][1] \in DOMAIN up.kind

\* A part of a sound answer holds bytes of its frames only.
LEMMA BytesOfFrames ==
  ASSUME UpType, NoErrorFrames, NEW a \in Nat, NEW b \in Nat, a <= b, b <= Len(Bytes(up))
  PROVE  OfFrames(Between(a, b))
  <1> DEFINE s == Between(a, b)
  <1>1. up.page = None /\ Len(Bytes(up)) = 2 * Len(up.kind) /\ Len(up.kind) \in Nat /\ DOMAIN up.kind = 1..Len(up.kind)
        /\ \A j \in 1..(2 * Len(up.kind)) : Bytes(up)[j] = <<(j + 1) \div 2, 2 - (j % 2)>>
    BY BytesAre DEF NoErrorFrames, UpType
  <1>2. DOMAIN s = 1..(b - a) /\ \A j \in 1..(b - a) : s[j] = Bytes(up)[a + j]
    BY BetweenIs
  <1> HIDE DEF s
  <1>3. ASSUME NEW j \in 1..(b - a) PROVE s[j][1] \in DOMAIN up.kind
    <2> DEFINE k == a + j
    <2>1. k \in 1..(2 * Len(up.kind)) /\ (k + 1) \div 2 \in 1..Len(up.kind)
      BY <1>1
    <2>2. s[j] = Bytes(up)[k]
      BY <1>2
    <2> HIDE DEF k
    <2>3. s[j] = <<(k + 1) \div 2, 2 - (k % 2)>>
      BY <1>1, <2>1, <2>2
    <2> QED BY <1>1, <2>1, <2>3
  <1> QED BY <1>2, <1>3 DEF OfFrames, s

\* Bytes of frames behind bytes of frames.
LEMMA OfFramesConcat ==
  ASSUME NEW s \in Seq(Byte), NEW t \in Seq(Byte)
  PROVE  OfFrames(s \o t) <=> OfFrames(s) /\ OfFrames(t)
  <1> DEFINE u == s \o t
  <1>1. /\ \A j \in DOMAIN u : (j \in DOMAIN s /\ u[j] = s[j]) \/ (j - Len(s) \in DOMAIN t /\ u[j] = t[j - Len(s)])
        /\ \A j \in DOMAIN s : j \in DOMAIN u /\ u[j] = s[j]
        /\ \A j \in DOMAIN t : Len(s) + j \in DOMAIN u /\ u[Len(s) + j] = t[j]
    OBVIOUS
  <1> HIDE DEF u
  <1>2. OfFrames(u) <=> OfFrames(s) /\ OfFrames(t)
    BY <1>1 DEF OfFrames
  <1> QED BY <1>2 DEF u

\* The gate: on Responses it holds the open frame, on the other wires the bytes
\* before the first frame.
LEMMA SoundGate ==
  ASSUME StreamType, NoErrorFrames, SoundReader(gate, out, up.pos), NEW n \in 1..(up.cut - up.pos),
         Proxy, setup.same
  PROVE  LET p == GatePush(gate, setup.wire, up.kind, up.page, Chunk(n)) IN
         ~p.stop /\ SoundReader(p.g, out \o p.out, up.pos + n)
  <1> DEFINE g == gate
             q == up.pos + n
             wire == setup.wire
             kind == up.kind
             page == up.page
             chunk == Chunk(n)
             p == GatePush(gate, setup.wire, up.kind, up.page, Chunk(n))
             fed == Feed(wire, kind, g.buf, chunk)
             r == [g EXCEPT !.buf = fed.buf]
             fs == fed.frames
             fails == {k \in DOMAIN fs : wire = "responses" /\ kind[fs[k]] = "failed"}
             first == CHOOSE k \in fails : \A m \in fails : k <= m
             hasError == \E k \in DOMAIN fs : kind[fs[k]] = "error"
             noted == Noted(wire, kind, fs)
             seen == [r EXCEPT !.saw = TRUE, !.term = @ \/ noted, !.held = <<>>]
             oversize == Oversize(kind, page, g.held \o chunk)
             failure == VendorFailure(wire, page, g.held \o chunk)
             open == HasOpenFrame(wire, fed.buf)
             early == Between(0, 2 * (up.pos \div 2))
             late == Between(0, 2 * (q \div 2))
             all == AllOf(fs)
             with == g.held \o chunk
  <1>p. p = IF g.drop THEN Hold(g)
            ELSE IF ~g.saw /\ oversize THEN Fail(g)
            ELSE IF fed.err /\ g.saw THEN Fail(g)
            ELSE IF fed.err /\ failure THEN Fail(g)
            ELSE IF fed.err THEN Hold([r EXCEPT !.held = g.held \o chunk])
            ELSE IF fails # {} THEN
              Forward([r EXCEPT !.saw = TRUE, !.term = TRUE, !.verr = TRUE, !.drop = TRUE,
                                !.held = <<>>, !.buf = <<>>],
                      Rewritten(kind, SubSeq(fs, 1, first - 1)) \o Whole(ErrorId))
            ELSE IF wire = "responses" /\ ~g.verr /\ open /\ fs # <<>> /\ ~hasError THEN
              Forward([seen EXCEPT !.held = fed.buf], Rewritten(kind, fs))
            ELSE IF fed.term THEN
              Forward([r EXCEPT !.saw = TRUE, !.term = TRUE, !.held = <<>>], g.held \o chunk)
            ELSE IF fs = <<>> /\ ~g.saw THEN Hold([r EXCEPT !.held = @ \o chunk])
            ELSE IF fs = <<>> /\ g.verr THEN Hold(r)
            ELSE IF fs = <<>> /\ wire = "responses" /\ open THEN Hold([r EXCEPT !.held = @ \o chunk])
            ELSE IF fs = <<>> THEN Forward(r, chunk)
            ELSE IF hasError \/ g.verr THEN Forward([seen EXCEPT !.verr = TRUE], Rewritten(kind, fs))
            ELSE Forward(seen, g.held \o chunk)
    BY Zenon DEF GatePush
  <1>1. fed = Clean(up.pos, q)
    BY CleanFeed DEF SoundReader
  <1>2. fs = Frames(up.pos \div 2, q \div 2) /\ fed.buf = Open(q) /\ ~fed.term /\ ~fed.err
    BY <1>1 DEF Clean
  <1>3. /\ fs \in Seq(Int) /\ UpType
        /\ \A k \in DOMAIN fs : fs[k] \in DOMAIN kind /\ kind[fs[k]] \in {"text", "term", "done"}
        /\ HasTerminal(q) => HasTerminal(up.pos) \/ \E k \in DOMAIN fs : Terminal(wire, kind[fs[k]])
        /\ fs = <<>> => all = <<>>
        /\ Open(up.pos) \in Seq(Byte) /\ Open(q) \in Seq(Byte) /\ all \in Seq(Byte)
    BY <1>2, SoundFrames DEF StreamType
  <1>4. /\ Between(0, up.pos) \o chunk = Between(0, q)
        /\ early \o Open(up.pos) = Between(0, up.pos)
        /\ early \o all = late
        /\ Open(up.pos) \o chunk = all \o Open(q)
    BY <1>2, <1>3, Pieces
  <1>5. /\ g \in Gates /\ g.buf \in Seq(Byte) /\ g.held \in Seq(Byte) /\ out \in Seq(Byte)
        /\ g.saw \in BOOLEAN /\ g.term \in BOOLEAN /\ g.verr \in BOOLEAN /\ g.drop \in BOOLEAN
    BY DEF StreamType, Gates
  <1>6. chunk \in Seq(Byte) /\ Len(chunk) = n /\ with \in Seq(Byte)
    BY <1>3, <1>5, ChunkIs
  <1>7. early \in Seq(Byte) /\ late \in Seq(Byte)
    <2> DEFINE a == 2 * (up.pos \div 2)
               b == 2 * (q \div 2)
    <2>1. up.pos \in Nat /\ up.cut \in Nat /\ up.cut <= Len(Bytes(up)) /\ Len(Bytes(up)) \in Nat
      BY <1>3, BytesAre DEF UpType
    <2>2. q \in Nat /\ q <= Len(Bytes(up)) /\ up.pos <= Len(Bytes(up))
      BY <2>1
    <2>3. a \in Nat /\ a <= Len(Bytes(up)) /\ b \in Nat /\ b <= Len(Bytes(up)) /\ 0 \in Nat /\ 0 <= a /\ 0 <= b
      <3> HIDE DEF q
      <3> QED BY <2>1, <2>2
    <2> HIDE DEF a, b
    <2>4. Between(0, a) \in Seq(Byte) /\ Between(0, b) \in Seq(Byte)
      BY <1>3, <2>3, BetweenIs
    <2> QED BY <2>4 DEF a, b
  <1>8. ~oversize
    <2>1. OfFrames(with)
      <3>1. up.pos \in Nat /\ q \in Nat /\ up.pos <= q /\ q <= Len(Bytes(up)) /\ up.pos <= Len(Bytes(up))
        <4>1. up.pos \in Nat /\ up.cut \in Nat /\ up.cut <= Len(Bytes(up)) /\ Len(Bytes(up)) \in Nat
          BY <1>3, BytesAre DEF UpType
        <4> QED BY <4>1
      <3>2. OfFrames(chunk)
        <4>1. chunk = Between(up.pos, q)
          BY DEF Chunk, Between
        <4> HIDE DEF chunk, q
        <4> QED BY <1>3, <3>1, <4>1, BytesOfFrames
      <3>3. OfFrames(Between(0, up.pos))
        <4>1. 0 \in Nat /\ 0 <= up.pos
          BY <3>1
        <4> HIDE DEF q, chunk
        <4> QED BY <1>3, <3>1, <4>1, BytesOfFrames
      <3>4. CASE wire = "responses"
        <4>1. g.held = Open(up.pos)
          BY <3>4 DEF SoundReader
        <4>2. OfFrames(early \o g.held)
          BY <1>4, <3>3, <4>1
        <4>3. OfFrames(g.held)
          <5> HIDE DEF early
          <5> QED BY <1>5, <1>7, <4>2, OfFramesConcat
        <4> QED BY <1>5, <1>6, <3>2, <4>3, OfFramesConcat
      <3>5. CASE wire # "responses"
        <4>1. OfFrames(out \o g.held)
          BY <3>3, <3>5 DEF SoundReader
        <4>2. OfFrames(g.held)
          BY <1>5, <4>1, OfFramesConcat
        <4> QED BY <1>5, <1>6, <3>2, <4>2, OfFramesConcat
      <3> QED BY <3>4, <3>5
    <2>2. \A i \in DOMAIN kind : i # 0 /\ kind[i] # "big"
      <3>1. DOMAIN kind = 1..Len(kind)
        BY <1>3 DEF UpType
      <3> QED BY <3>1 DEF NoErrorFrames
    <2> HIDE DEF with, kind
    <2>3. ~Oversize(kind, page, with)
      BY <2>1, <2>2 DEF Oversize, OfFrames, kind
    <2> QED BY <2>3 DEF with
  <1>9. fails = {} /\ ~hasError /\ noted \in BOOLEAN
    BY <1>3 DEF Noted
  <1>10. ~g.drop /\ ~g.verr /\ (g.term => g.saw) /\ (HasTerminal(up.pos) => g.term)
    BY DEF SoundReader
  <1> DEFINE Goal == ~p.stop /\ SoundReader(p.g, out \o p.out, q)
  <1> SUFFICES Goal
    OBVIOUS
  <1>11. (HasTerminal(q) => g.term \/ noted) /\ (noted => fs # <<>>)
    <2>1. DOMAIN <<>> = {}
      OBVIOUS
    <2> QED BY <1>3, <1>10, <2>1 DEF Noted
  \* what is held with the read behind it, and what comes of it
  <1>12. wire = "responses" => /\ g.held = Open(up.pos) /\ Sans(out) = Sans(early) /\ with = all \o Open(q)
    BY <1>4 DEF SoundReader
  <1>13. wire # "responses" => /\ out \o g.held = Between(0, up.pos) /\ out \o with = Between(0, q)
                               /\ (g.saw => g.held = <<>>)
    <2> SUFFICES ASSUME wire # "responses"
                 PROVE  out \o g.held = Between(0, up.pos) /\ out \o with = Between(0, q) /\ (g.saw => g.held = <<>>)
      OBVIOUS
    <2>1. out \o g.held = Between(0, up.pos) /\ (g.saw => g.held = <<>>)
      BY DEF SoundReader
    <2>2. (out \o g.held) \o chunk = out \o with
      <3> DEFINE u == g.held
                 v == chunk
                 o == out
      <3>1. o \in Seq(Byte) /\ u \in Seq(Byte) /\ v \in Seq(Byte)
        BY <1>5, <1>6
      <3> HIDE DEF u, v, o
      <3>2. (o \o u) \o v = o \o (u \o v)
        BY <3>1, ConcatAssociative
      <3> QED BY <3>2, Zenon DEF u, v, o
    <2> QED BY <1>4, <2>1, <2>2
  <1>14. open => Open(q) # <<>>
    BY <1>2 DEF HasOpenFrame
  <1>15. wire = "responses" /\ ~open => Open(q) = <<>>
    BY <1>2 DEF HasOpenFrame, EventStream
  <1>16. ASSUME NEW s \in Seq(Byte), Sans(s) = Sans(all), wire = "responses"
         PROVE  Sans(out \o s) = Sans(late)
    <2>1. Sans(out \o s) = Sans(out) \o Sans(s)
      BY <1>5, SansIs
    <2>2. Sans(early \o all) = Sans(early) \o Sans(all)
      <3> HIDE DEF early, all
      <3> QED BY <1>3, <1>7, SansIs
    <2> HIDE DEF early, all, late
    <2> QED BY <1>4, <1>12, <1>16, <2>1, <2>2
  <1>r. r.buf = Open(q) /\ r.drop = g.drop /\ r.verr = g.verr /\ r.saw = g.saw /\ r.term = g.term /\ r.held = g.held /\ r \in Gates
    BY <1>2, <1>3, <1>5 DEF Gates
  <1> DEFINE more == g.term \/ noted
  <1>s. seen.buf = Open(q) /\ seen.drop = g.drop /\ seen.verr = g.verr /\ seen.saw = TRUE /\ seen.term = more /\ seen.held = <<>>
        /\ seen \in Gates
    <2>1. <<>> \in Seq(Byte) /\ more \in BOOLEAN
      BY <1>9, EmptySeq
    <2> HIDE DEF r, noted
    <2> QED BY <1>r, <2>1 DEF Gates
  <1> HIDE DEF r, seen, with, all, early, late, chunk, fed, open, oversize, failure, noted, hasError, p, q, Goal
  <1>e. \A s \in Seq(Byte) : s \o <<>> = s /\ <<>> \o s = s
    BY ConcatEmptySeq
  <1>17. CASE wire = "responses" /\ open /\ fs # <<>>
    <2> DEFINE x == [seen EXCEPT !.held = fed.buf]
               w == Rewritten(kind, fs)
    <2>1. p = Forward(x, w)
      BY <1>p, <1>2, <1>8, <1>9, <1>10, <1>17, Zenon
    <2>2. x.buf = Open(q) /\ x.drop = g.drop /\ x.verr = g.verr /\ x.saw = TRUE /\ x.term = more /\ x.held = Open(q)
      BY <1>s, <1>2 DEF Gates
    <2>3. w \in Seq(Byte) /\ Sans(w) = Sans(all)
      BY <1>3, SansRewritten DEF all
    <2>4. Sans(out \o w) = Sans(late)
      BY <1>16, <1>17, <2>3
    <2> HIDE DEF x, w
    <2>5. p.g = x /\ p.out = w /\ ~p.stop
      BY <2>1 DEF Forward
    <2>6. x.saw /\ (x.term <=> more)
      BY <2>2
    <2> QED BY <1>10, <1>11, <1>17, <2>2, <2>4, <2>5, <2>6 DEF Goal, SoundReader, late
  <1>18. CASE fs = <<>> /\ (~g.saw \/ (wire = "responses" /\ open))
    <2> DEFINE x == [r EXCEPT !.held = @ \o chunk]
    <2>1. p = Hold(x)
      BY <1>p, <1>2, <1>8, <1>9, <1>10, <1>18, Zenon
    <2>2. x.buf = Open(q) /\ x.drop = g.drop /\ x.verr = g.verr /\ x.saw = g.saw /\ x.term = g.term /\ x.held = with
      BY <1>r DEF Gates, with
    <2> HIDE DEF x
    <2>3. p.g = x /\ p.out = <<>> /\ ~p.stop
      BY <2>1 DEF Hold
    <2>4. out \o <<>> = out /\ all = <<>> /\ early = late /\ all \o Open(q) = Open(q)
      BY <1>3, <1>4, <1>5, <1>7, <1>18, <1>e
    <2>5. wire = "responses" => x.held = Open(q) /\ Sans(out) = Sans(late)
      BY <1>12, <2>2, <2>4
    <2>6. wire # "responses" => out \o x.held = Between(0, q) /\ ~x.saw
      BY <1>13, <1>18, <2>2
    <2>7. (x.saw <=> g.saw) /\ (x.term <=> g.term)
      BY <2>2
    <2> QED BY <1>10, <1>11, <1>18, <2>2, <2>3, <2>4, <2>5, <2>6, <2>7 DEF Goal, SoundReader, late
  <1>19. CASE fs = <<>> /\ g.saw /\ ~(wire = "responses" /\ open)
    <2>1. p = Forward(r, chunk)
      BY <1>p, <1>2, <1>8, <1>9, <1>10, <1>19, Zenon
    <2>2. p.g = r /\ p.out = chunk /\ ~p.stop
      BY <2>1 DEF Forward
    <2>3. wire # "responses"
      <3> SUFFICES ASSUME wire = "responses" PROVE FALSE
        OBVIOUS
      <3>1. with = <<>>
        BY <1>3, <1>12, <1>15, <1>19, <1>e
      <3>2. Len(with) = Len(g.held) + Len(chunk)
        BY <1>5, <1>6, ConcatProperties DEF with
      <3> QED BY <1>5, <1>6, <3>1, <3>2
    <2>4. g.held = <<>> /\ out \o chunk = Between(0, q)
      BY <1>4, <1>5, <1>13, <1>19, <1>e, <2>3
    <2>5. out \o chunk \in Seq(Byte)
      BY <1>5, <1>6
    <2>6. (out \o chunk) \o <<>> = out \o chunk
      BY <2>5, ConcatEmptySeq
    <2>7. (r.saw <=> g.saw) /\ (r.term <=> g.term)
      BY <1>r
    <2> QED BY <1>10, <1>11, <1>19, <1>r, <2>2, <2>3, <2>4, <2>6, <2>7 DEF Goal, SoundReader
  <1>20. CASE fs # <<>> /\ ~(wire = "responses" /\ open)
    <2>1. p = Forward(seen, with)
      BY <1>p, <1>2, <1>8, <1>9, <1>10, <1>20, Zenon DEF with
    <2>2. p.g = seen /\ p.out = with /\ ~p.stop
      BY <2>1 DEF Forward
    <2>3. wire = "responses" => Open(q) = <<>> /\ Sans(out \o with) = Sans(late)
      <3> SUFFICES ASSUME wire = "responses" PROVE Open(q) = <<>> /\ Sans(out \o with) = Sans(late)
        OBVIOUS
      <3>1. Open(q) = <<>>
        BY <1>15, <1>20
      <3>2. with = all
        BY <1>3, <1>12, <1>e, <3>1
      <3> QED BY <1>3, <1>16, <3>1, <3>2
    <2>4. out \o with \in Seq(Byte)
      BY <1>5, <1>6
    <2>5. (out \o with) \o <<>> = out \o with
      BY <2>4, ConcatEmptySeq
    <2>6. seen.saw /\ (seen.term <=> more)
      BY <1>s
    <2> QED BY <1>10, <1>11, <1>13, <1>s, <2>2, <2>3, <2>5, <2>6 DEF Goal, SoundReader, late
  <1> QED BY <1>17, <1>18, <1>19, <1>20

\* What was handed on, and what the gate still holds, in bytes of the answer.
LEMMA SoundOut ==
  ASSUME StreamType, NoErrorFrames, SoundReader(gate, out, up.pos), ~gate.saw => out = <<>>
  PROVE  /\ \E k \in 0..Len(Bytes(up)) : Sans(out) = Sans(Between(0, k))
         /\ Proxy /\ setup.same => Sans(out \o gate.held) = Sans(Between(0, up.pos))
  <1> DEFINE b == 2 * (up.pos \div 2)
  <1>1. UpType /\ up.pos \in Nat /\ up.pos <= Len(Bytes(up)) /\ Len(Bytes(up)) \in Nat /\ out \in Seq(Byte) /\ gate.held \in Seq(Byte)
    <2>1. UpType /\ out \in Seq(Byte) /\ gate.held \in Seq(Byte)
      BY DEF StreamType, Gates
    <2>2. up.pos \in Nat /\ up.cut \in Nat /\ up.pos <= up.cut /\ up.cut <= Len(Bytes(up)) /\ Len(Bytes(up)) \in Nat
      BY <2>1, BytesAre DEF UpType
    <2> QED BY <2>1, <2>2
  <1>2. b \in Nat /\ b <= up.pos /\ b <= Len(Bytes(up))
    BY <1>1
  <1>3. Open(up.pos) = Between(b, up.pos)
    BY DEF Open
  <1>4. CASE ~(Proxy /\ setup.same)
    BY <1>2, <1>4 DEF SoundReader
  <1>5. CASE Proxy /\ setup.same /\ setup.wire = "responses"
    <2>1. gate.held = Open(up.pos) /\ Sans(out) = Sans(Between(0, b))
      BY <1>5 DEF SoundReader
    <2> HIDE DEF b
    <2>z. 0 \in Nat /\ 0 <= b
      BY <1>2
    <2>2. Between(0, b) \o Open(up.pos) = Between(0, up.pos)
      <3>1. Between(0, b) \o Between(b, up.pos) = Between(0, up.pos)
        BY <1>1, <1>2, <2>z, BetweenJoin
      <3> QED BY <1>3, <3>1
    <2>3. Between(0, b) \in Seq(Byte)
      BY <1>1, <1>2, BetweenIs
    <2>4. Sans(out \o gate.held) = Sans(out) \o Sans(gate.held)
      BY <1>1, SansIs
    <2>5. Sans(Between(0, b) \o gate.held) = Sans(Between(0, b)) \o Sans(gate.held)
      BY <1>1, <2>3, SansIs
    <2>6. b \in 0..Len(Bytes(up))
      BY <1>1, <1>2
    <2> QED BY <2>1, <2>2, <2>4, <2>5, <2>6
  <1>6. CASE Proxy /\ setup.same /\ setup.wire # "responses"
    <2>1. out \o gate.held = Between(0, up.pos) /\ (gate.saw => gate.held = <<>>)
      BY <1>6 DEF SoundReader
    <2>2. CASE gate.saw
      <3>1. out = Between(0, up.pos)
        BY <1>1, <2>1, <2>2, ConcatEmptySeq
      <3> QED BY <1>1, <2>1, <3>1
    <2>3. CASE ~gate.saw
      <3>1. Between(0, 0) = <<>>
        BY <1>1, BetweenIs
      <3> QED BY <1>1, <2>1, <2>3, <3>1
    <2> QED BY <2>2, <2>3
  <1> QED BY <1>4, <1>5, <1>6

\* The frame that lacks its blank line, handed out at the end.
LastOne(f) == \E i \in CutFrame : f \in {AllOf(<<i>>), AllOf(<<i>>) \o Whole(ErrorId)}

\* The end of map_sse_stream and of pull_live on sound frames.
LEMMA SoundLast ==
  ASSUME StreamType, TermInv, NoErrorFrames, SoundReader(gate, out, up.pos), up.pos = up.cut
  PROVE  LET f == LastFrame(gate, setup.wire, up.kind, up.whole) IN
         /\ f \in {<<>>, Whole(ErrorId)} \/ LastOne(f)
         /\ gate.buf = <<>> /\ gate.term => f = <<>>
  <1> DEFINE wire == setup.wire
             kind == up.kind
             open == OpenFrame(wire, gate.buf)
             last == IF open = {} THEN <<>> ELSE <<gate.buf[1][1]>>
             fed == [Reader(<<>>) EXCEPT !.frames = last]
             p == PushFrames(gate, wire, kind, fed)
             e == Whole(ErrorId)
             fails == FinishFails(wire, gate.buf) \/ (last # <<>> /\ ~up.whole)
             f == LastFrame(gate, wire, kind, up.whole)
  <1>p. f = IF fails THEN e ELSE IF p.stop \/ p.g.term THEN p.out ELSE p.out \o e
    BY Zenon DEF LastFrame
  <1>1. gate \in Gates /\ e \in Seq(Byte) /\ UpType
    BY OwnFrames DEF StreamType
  <1>2. \A i \in open : i = gate.buf[1][1] /\ i \in CutFrame
    BY OpenAtEnd
  <1>3. (last = <<>> \/ \E i \in CutFrame : i \in Int /\ last = <<i>>) /\ (gate.buf = <<>> => last = <<>>)
    <2>1. CASE open = {}
      BY <2>1
    <2>2. CASE open # {}
      <3>1. gate.buf[1][1] \in CutFrame /\ last = <<gate.buf[1][1]>> /\ gate.buf # <<>>
        BY <1>2, <2>2 DEF OpenFrame
      <3>2. \A i \in CutFrame : i \in Int
        BY <1>1 DEF CutFrame, UpType
      <3> HIDE DEF last
      <3> QED BY <3>1, <3>2
    <2> QED BY <2>1, <2>2
  <1>4. last \in Seq(Int) /\ \A k \in DOMAIN last : ~IsError(kind[last[k]])
    <2>1. CASE last = <<>>
      <3>1. DOMAIN <<>> = {}
        OBVIOUS
      <3> HIDE DEF last
      <3> QED BY <2>1, <3>1, EmptySeq
    <2>2. CASE last # <<>>
      <3> HIDE DEF last
      <3>1. PICK i \in CutFrame : i \in Int /\ last = <<i>>
        BY <1>3, <2>2
      <3>2. ~IsError(kind[i])
        BY DEF CutFrame, NoErrorFrames, IsError
      <3> DEFINE s == <<i>>
      <3>3. s \in Seq(Int) /\ DOMAIN s = {1} /\ s[1] = i
        BY <3>1
      <3>4. last = s
        BY <3>1
      <3> HIDE DEF s
      <3> QED BY <3>2, <3>3, <3>4
    <2> QED BY <2>1, <2>2
  <1>5. fed \in Reading /\ fed.frames = last /\ ~fed.term
    <2> HIDE DEF last
    <2> DEFINE r == Reader(<<>>)
    <2>1. <<>> \in Seq(Byte) /\ <<>> \in Seq(Int)
      BY EmptySeq
    <2>2. r \in Reading /\ ~r.term
      BY <2>1 DEF Reader, Reading
    <2>3. fed = [r EXCEPT !.frames = last]
      OBVIOUS
    <2> HIDE DEF r, fed
    <2> QED BY <1>4, <2>2, <2>3 DEF Reading
  <1> DEFINE good == UpToError(kind, fed.frames)
             came == fed.frames # <<>>
             ends == \E k \in DOMAIN good : Terminal(wire, kind[good[k]])
             g == [gate EXCEPT !.saw = @ \/ came, !.term = @ \/ ends]
  <1>6. p = IF Len(good) < Len(fed.frames) \/ fed.term
              THEN [g |-> g, out |-> AllOf(good) \o e, stop |-> TRUE]
              ELSE Forward(g, AllOf(good))
    BY Zenon DEF PushFrames
  <1> HIDE DEF p, fed, last
  <1>7. good = last
    BY <1>4, <1>5, UpToErrorIs
  <1>8. ~(Len(good) < Len(fed.frames) \/ fed.term)
    BY <1>4, <1>5, <1>7
  <1>9. p = Forward(g, AllOf(good))
    BY <1>6, <1>8, Zenon
  <1>10. p.g = g /\ p.out = AllOf(last) /\ ~p.stop
    <2> HIDE DEF g, good
    <2> QED BY <1>7, <1>9 DEF Forward
  <1>11. gate.term => p.g.term
    <2> HIDE DEF ends, came
    <2>1. gate.term => g.term
      BY <1>1 DEF Gates
    <2> HIDE DEF g
    <2> QED BY <1>10, <2>1
  <1>12. last = <<>> => p.out = <<>>
    <2> SUFFICES ASSUME last = <<>> PROVE AllOf(last) = <<>>
      BY <1>10
    <2> DEFINE w == AllOf(last)
    <2>0. w \in Seq(Byte) /\ Len(w) = 2 * Len(last)
      BY <1>4, AllOfIs
    <2> HIDE DEF w
    <2>1. w \in Seq(Byte) /\ Len(w) = 0
      BY <2>0
    <2>2. w = <<>>
      BY <2>1, EmptySeq
    <2> QED BY <2>2 DEF w
  <1>13. <<>> \o e = e
    BY <1>1, ConcatEmptySeq
  <1>14. gate.buf = <<>> => ~fails
    BY <1>3 DEF FinishFails
  <1> HIDE DEF f, fails, e
  <1>15. f \in {e, p.out, p.out \o e}
    BY <1>p, Zenon
  <1>16. f \in {<<>>, e} \/ LastOne(f)
    <2>1. CASE last = <<>>
      BY <1>12, <1>13, <1>15, <2>1, Zenon
    <2>2. CASE last # <<>>
      <3>1. PICK i \in CutFrame : last = <<i>>
        BY <1>3, <2>2
      <3>2. f \in {e, AllOf(<<i>>), AllOf(<<i>>) \o e}
        BY <1>10, <1>15, <3>1, Zenon
      <3> QED BY <3>2, Zenon DEF LastOne, e
    <2> QED BY <2>1, <2>2
  <1>17. gate.buf = <<>> /\ gate.term => f = <<>>
    BY <1>p, <1>3, <1>11, <1>12, <1>14, Zenon
  <1> QED BY <1>16, <1>17, Zenon DEF f, e

\* At the end of the bytes.
LEMMA SoundFinish ==
  ASSUME StreamType, TermInv, NoErrorFrames, SoundReader(gate, out, up.pos), up.pos = up.cut
  PROVE  /\ AtEnd \in {<<>>, Whole(ErrorId)} \/ (~(Proxy /\ setup.same) /\ LastOne(AtEnd))
              \/ (Proxy /\ setup.same /\ AtEnd \in {gate.held, gate.held \o Whole(ErrorId)})
         /\ up.cut = Len(Bytes(up)) /\ HasTerminal(up.cut) =>
              AtEnd = IF Proxy /\ setup.same THEN gate.held ELSE <<>>
  <1> DEFINE g == gate
             wire == setup.wire
             kind == up.kind
             page == up.page
             full == up.cut = Len(Bytes(up)) /\ HasTerminal(up.cut)
             open == OpenFrame(wire, g.buf)
  <1>1. up.page = None /\ UpType /\ gate.held \in Seq(Byte)
    BY DEF NoErrorFrames, StreamType, Gates
  <1>2. ~g.drop /\ ~g.verr /\ (full => g.term /\ g.saw)
    BY DEF SoundReader
  <1>3. full => g.buf = <<>>
    <2> SUFFICES ASSUME full PROVE g.buf = <<>>
      OBVIOUS
    <2>1. Len(Bytes(up)) = 2 * Len(up.kind) /\ Len(up.kind) \in Nat
      BY <1>1, BytesAre DEF UpType
    <2>2. up.pos \in Nat /\ up.pos <= Len(Bytes(up)) /\ up.pos % 2 = 0
      <3> DEFINE m == Len(up.kind)
      <3>1. up.pos = 2 * m /\ m \in Nat /\ up.pos = Len(Bytes(up))
        BY <2>1
      <3> HIDE DEF m
      <3>2. (2 * m) % 2 = 0
        BY <3>1
      <3> QED BY <3>1, <3>2
    <2>3. Open(up.pos) = <<>>
      BY <1>1, <2>2, OpenIs
    <2> QED BY <2>3 DEF SoundReader
  <1>4. full => open = {} /\ ~FinishFails(wire, g.buf)
    BY <1>3 DEF OpenFrame, FinishFails
  <1>5. NoFrameEnd(page, g.held) = Whole(ErrorId)
    BY <1>1 DEF NoFrameEnd, None
  <1>9. LET f == LastFrame(g, wire, kind, up.whole) IN
        /\ f \in {<<>>, Whole(ErrorId)} \/ LastOne(f)
        /\ g.buf = <<>> /\ g.term => f = <<>>
    BY SoundLast
  <1> HIDE DEF full
  <1>6. CASE ~Proxy
    <2>1. AtEnd = ClientFinish(g, wire, kind, page, up.whole)
      BY <1>6 DEF AtEnd
    <2>2. CASE ~g.saw /\ open = {}
      <3>1. AtEnd = Whole(ErrorId)
        BY <1>5, <2>1, <2>2 DEF ClientFinish
      <3> QED BY <1>2, <2>2, <3>1 DEF full
    <2>3. CASE ~(~g.saw /\ open = {})
      <3>1. AtEnd = LastFrame(g, wire, kind, up.whole)
        BY <2>1, <2>3 DEF ClientFinish
      <3> QED BY <1>2, <1>3, <1>6, <1>9, <3>1 DEF full
    <2> QED BY <2>2, <2>3
  <1>7. CASE Proxy /\ ~setup.same
    <2>1. AtEnd = MappedFinish(g, wire, kind, page, up.whole)
      BY <1>7 DEF AtEnd
    <2>2. AtEnd = LastFrame(g, wire, kind, up.whole)
      BY <2>1 DEF MappedFinish
    <2> QED BY <1>2, <1>3, <1>7, <1>9, <2>2 DEF full
  <1>8. CASE Proxy /\ setup.same
    <2> DEFINE rest == IF open # {} /\ g.verr /\ \A i \in open : kind[i] # "done"
                         THEN <<<<g.buf[1][1], 1>>, <<g.buf[1][1], 3>>>> ELSE <<>>
               fails == \E i \in open : kind[i] = "failed"
               ends == g.term \/ NotedOpen(wire, kind, open, up.whole)
    <2>1. AtEnd = GateFinish(g, wire, kind, page, up.whole)
      BY <1>8 DEF AtEnd
    <2>2. AtEnd = IF g.drop THEN <<>>
                  ELSE IF FinishFails(wire, g.buf)
                    THEN IF g.saw THEN g.held \o Whole(ErrorId) ELSE NoFrameEnd(page, g.held)
                  ELSE IF wire = "responses" /\ fails THEN Whole(ErrorId)
                  ELSE IF ~g.saw /\ open = {} THEN NoFrameEnd(page, g.held)
                  ELSE IF ends THEN g.held \o rest ELSE g.held \o rest \o Whole(ErrorId)
      BY <2>1, Zenon DEF GateFinish
    <2>3. rest = <<>>
      BY <1>2
    <2>4. g.held \o rest = g.held
      BY <1>1, <2>3, ConcatEmptySeq
    <2>5. full => ~fails
      BY <1>4
    <2>7. full => ends
      BY <1>2
    <2> HIDE DEF rest, fails, open, ends
    <2>6. AtEnd \in {Whole(ErrorId), g.held, g.held \o Whole(ErrorId)} /\ (full => AtEnd = g.held)
      BY <1>2, <1>4, <1>5, <2>2, <2>4, <2>5, <2>7, Zenon
    <2> QED BY <1>8, <2>6 DEF full
  <1> QED BY <1>6, <1>7, <1>8

\* The bytes a caller was handed, once the stream has ended.
Kept(w) ==
  /\ IsPrefix(Handed(w), Sans(Bytes(up)))
  /\ up.cut = Len(Bytes(up)) /\ up.end = "eof" /\ HasTerminal(up.cut) => Sans(w) = Sans(Bytes(up))

\* The end of a sound stream: what is handed on last keeps the bytes.
LEMMA SoundEnd ==
  ASSUME StreamType, TermInv, NoErrorFrames, SoundReader(gate, out, up.pos), ~gate.saw => out = <<>>, up.pos = up.cut
  PROVE  Kept(out \o (IF up.end = "error" THEN Whole(ErrorId) ELSE AtEnd))
  <1> DEFINE f == IF up.end = "error" THEN Whole(ErrorId) ELSE AtEnd
             e == Whole(ErrorId)
             n == Len(Bytes(up))
             h == gate.held
             whole == up.cut = n /\ up.end = "eof" /\ HasTerminal(up.cut)
             same == Proxy /\ setup.same
  <1>1. UpType /\ out \in Seq(Byte) /\ h \in Seq(Byte) /\ e \in Seq(Byte)
    BY OwnFrames DEF StreamType, Gates
  <1>2. up.pos \in Nat /\ up.cut <= n /\ n \in Nat /\ Bytes(up) \in Seq(Byte)
    BY <1>1, BytesAre DEF UpType
  <1>3. PICK k \in 0..n : Sans(out) = Sans(Between(0, k))
    BY SoundOut
  <1>4. same => Sans(out \o h) = Sans(Between(0, up.pos))
    BY SoundOut
  <1>5. f \in {<<>>, e} \/ (~same /\ LastOne(f)) \/ (same /\ f \in {h, h \o e})
    BY SoundFinish
  <1>6. whole => f = IF same THEN h ELSE <<>>
    BY SoundFinish
  <1>7. Between(0, n) = Bytes(up)
    <2>1. Between(0, n) = SubSeq(Bytes(up), 1, n)
      BY DEF Between
    <2> DEFINE w == Bytes(up)
    <2> HIDE DEF w
    <2>2. w \in Seq(Byte)
      BY <1>2 DEF w
    <2>3. SubSeq(w, 1, Len(w)) = w
      BY <2>2
    <2> QED BY <2>1, <2>3 DEF w
  <1>8. k \in Nat /\ k <= Len(Bytes(up)) /\ up.pos <= Len(Bytes(up))
    BY <1>2
  <1>9. IsPrefix(Handed(out), Sans(Bytes(up))) /\ IsPrefix(Handed(out \o e), Sans(Bytes(up)))
    BY <1>1, <1>3, <1>8, HandedPrefix
  <1>10. same => IsPrefix(Handed(out \o h), Sans(Bytes(up))) /\ IsPrefix(Handed((out \o h) \o e), Sans(Bytes(up)))
    <2> SUFFICES ASSUME same
                 PROVE  IsPrefix(Handed(out \o h), Sans(Bytes(up))) /\ IsPrefix(Handed((out \o h) \o e), Sans(Bytes(up)))
      OBVIOUS
    <2> DEFINE s == out \o h
    <2>1. s \in Seq(Byte)
      BY <1>1
    <2>2. Sans(s) = Sans(Between(0, up.pos))
      BY <1>4
    <2> HIDE DEF s
    <2>3. IsPrefix(Handed(s), Sans(Bytes(up))) /\ IsPrefix(Handed(s \o e), Sans(Bytes(up)))
      BY <1>1, <1>2, <1>8, <2>1, <2>2, HandedPrefix
    <2> QED BY <2>3 DEF s
  <1>11. out \o <<>> = out /\ (out \o h) \o e = out \o (h \o e)
    <2> DEFINE u == h
               v == e
               o == out
    <2>1. o \in Seq(Byte) /\ u \in Seq(Byte) /\ v \in Seq(Byte)
      BY <1>1
    <2> HIDE DEF u, v, o
    <2>2. (o \o u) \o v = o \o (u \o v)
      BY <2>1, ConcatAssociative
    <2>3. o \o <<>> = o
      BY <2>1, ConcatEmptySeq
    <2> QED BY <2>2, <2>3, Zenon DEF u, v, o
  <1>l. ASSUME ~same, LastOne(f) PROVE IsPrefix(Handed(out \o f), Sans(Bytes(up)))
    <2>1. PICK i \in CutFrame : f \in {AllOf(<<i>>), AllOf(<<i>>) \o e}
      BY <1>l DEF LastOne
    <2> DEFINE m == i - 1
               w == AllOf(<<i>>)
               s == out \o w
    <2>2. n = 2 * Len(up.kind) /\ i \in 1..Len(up.kind) /\ Len(up.kind) \in Nat /\ 2 * i - 1 = up.pos
      BY <1>1, BytesAre DEF NoErrorFrames, UpType, CutFrame
    <2>3. m \in Nat /\ m + 1 \in Nat /\ m <= m + 1 /\ i = m + 1 /\ 2 * (m + 1) <= n /\ up.pos = 2 * m + 1
      BY <2>2
    <2>4. up.pos \div 2 = m
      <3> HIDE DEF m
      <3>1. (2 * m + 1) \div 2 = m
        BY <2>3
      <3> QED BY <2>3, <3>1
    <2>5. Frames(m, m + 1) = <<i>>
      <3> DEFINE u == Frames(m, m + 1)
                 v == <<i>>
      <3>1. u \in Seq(Int) /\ Len(u) = (m + 1) - m /\ \A j \in 1..((m + 1) - m) : u[j] = m + j
        <4> DEFINE y == m + 1
        <4>1. y \in Nat /\ m \in Nat /\ m <= y
          BY <2>3
        <4> HIDE DEF y, m
        <4>2. Frames(m, y) \in Seq(Int) /\ Len(Frames(m, y)) = y - m /\ \A j \in 1..(y - m) : Frames(m, y)[j] = m + j
          BY <4>1, FramesAre
        <4> QED BY <4>2 DEF y
      <3> HIDE DEF u, m
      <3>2. Len(u) = 1 /\ u[1] = i
        BY <2>3, <3>1
      <3>3. v \in Seq(Int) /\ Len(v) = 1 /\ v[1] = i
        BY <2>2
      <3> HIDE DEF v
      <3>4. u = v
        <4>1. Len(u) = Len(v) /\ \A j \in 1..Len(u) : u[j] = v[j]
          BY <3>2, <3>3
        <4> QED BY <3>1, <3>3, <4>1, SeqEqual
      <3> QED BY <3>4 DEF u, v
    <2>6. w = Between(2 * m, 2 * (m + 1))
      <3> DEFINE y == m + 1
      <3>1. y \in Nat /\ m \in Nat /\ m <= y /\ 2 * y <= Len(Bytes(up)) /\ Frames(m, y) = <<i>>
        BY <2>3, <2>5
      <3> HIDE DEF y, m
      <3>2. AllOf(Frames(m, y)) = Between(2 * m, 2 * y)
        BY <1>1, <3>1, AllOfFrames
      <3> QED BY <3>1, <3>2 DEF y
    <2>7. out = Between(0, 2 * m)
      <3>1. out = Between(0, 2 * (up.pos \div 2))
        BY <1>l DEF SoundReader
      <3> QED BY <2>4, <3>1
    <2> DEFINE a == 2 * m
               b == 2 * (m + 1)
    <2>8. a \in Nat /\ b \in Nat /\ 0 \in Nat /\ 0 <= a /\ a <= b /\ b <= Len(Bytes(up))
      BY <2>3
    <2>9. s = Between(0, b)
      <3>1. out = Between(0, a) /\ w = Between(a, b)
        BY <2>6, <2>7
      <3> HIDE DEF a, b, w
      <3>2. Between(0, a) \o Between(a, b) = Between(0, b)
        BY <1>1, <2>8, BetweenJoin
      <3> QED BY <3>1, <3>2
    <2>10. w \in Seq(Byte)
      <3> DEFINE v == <<i>>
      <3>1. v \in Seq(Int)
        BY <2>2
      <3> HIDE DEF v
      <3>2. AllOf(v) \in Seq(Byte)
        BY <3>1, AllOfIs
      <3> QED BY <3>2 DEF v
    <2> HIDE DEF a, b, w
    <2>11. s \in Seq(Byte) /\ Sans(s) = Sans(Between(0, b))
      <3>1. s \in Seq(Byte)
        BY <1>1, <2>10
      <3> HIDE DEF s
      <3> QED BY <2>9, <3>1
    <2>12. s \o e = out \o (w \o e)
      <3> DEFINE v == e
                 o == out
                 y == w
      <3>1. o \in Seq(Byte) /\ y \in Seq(Byte) /\ v \in Seq(Byte)
        BY <1>1, <2>10
      <3> HIDE DEF v, o, y
      <3>2. (o \o y) \o v = o \o (y \o v)
        BY <3>1, ConcatAssociative
      <3> QED BY <3>2, Zenon DEF v, o, y
    <2>13. f \in {w, w \o e}
      BY <2>1 DEF w
    <2> HIDE DEF s
    <2>14. IsPrefix(Handed(s), Sans(Bytes(up))) /\ IsPrefix(Handed(s \o e), Sans(Bytes(up)))
      BY <1>1, <2>8, <2>11, HandedPrefix
    <2> HIDE DEF f, e
    <2> QED BY <2>12, <2>13, <2>14, Zenon DEF s
  <1>12. IsPrefix(Handed(out \o f), Sans(Bytes(up)))
    <2> HIDE DEF f, e, h, same
    <2> QED BY <1>5, <1>9, <1>10, <1>11, <1>l, Zenon
  <1>13. whole => Sans(out \o f) = Sans(Bytes(up))
    <2> SUFFICES ASSUME whole PROVE Sans(out \o f) = Sans(Bytes(up))
      OBVIOUS
    <2>1. CASE same
      BY <1>4, <1>6, <1>7, <2>1
    <2>2. CASE ~same
      <3>1. out = Between(0, 2 * (up.pos \div 2))
        BY <2>2 DEF SoundReader
      <3>2. n = 2 * Len(up.kind) /\ Len(up.kind) \in Nat
        BY <1>1, BytesAre DEF NoErrorFrames, UpType
      <3>3. 2 * (up.pos \div 2) = n
        <4> DEFINE m == Len(up.kind)
        <4>1. up.pos = 2 * m /\ m \in Nat /\ n = 2 * m
          BY <3>2
        <4> HIDE DEF m
        <4>2. (2 * m) \div 2 = m
          BY <4>1
        <4> QED BY <4>1, <4>2
      <3>4. f = <<>>
        BY <1>6, <2>2
      <3> QED BY <1>7, <1>11, <3>1, <3>3, <3>4
    <2> QED BY <2>1, <2>2
  <1> QED BY <1>12, <1>13 DEF Kept

\* While the stream runs its reader is sound; once it has ended the bytes are kept.
KeptInv == Streaming /\ NoErrorFrames => IF done THEN Kept(out) ELSE SoundReader(gate, out, up.pos)

\* Before the first read.
LEMMA KeptStarts == Init => KeptInv
  <1> SUFFICES ASSUME Init, Streaming, NoErrorFrames PROVE ~done /\ SoundReader(gate, out, up.pos)
    BY DEF KeptInv
  <1>1. StreamType
    BY StreamStarts DEF StreamInv
  <1>2. gate = GateInit /\ out = <<>> /\ ~done
    BY DEF Init
  <1>3. up.pos = 0
    BY DEF Init, Upstreams, Streaming
  <1>4. gate.buf = <<>> /\ gate.held = <<>> /\ ~gate.drop /\ ~gate.verr /\ ~gate.term /\ ~gate.saw
    BY <1>2 DEF GateInit
  <1>5. UpType /\ Len(Bytes(up)) \in Nat
    BY <1>1, BytesAre DEF StreamType
  <1>6. Between(0, 0) = <<>> /\ 2 * (0 \div 2) = 0
    <2>1. Between(0, 0) = <<>>
      BY <1>5, BetweenIs
    <2> QED BY <2>1
  <1>7. Open(0) = <<>>
    BY <1>6 DEF Open
  <1>8. ~HasTerminal(0)
    BY <1>5 DEF HasTerminal, UpType
  <1>9. <<>> \o <<>> = <<>>
    OBVIOUS
  <1> QED BY <1>2, <1>3, <1>4, <1>6, <1>7, <1>8, <1>9 DEF SoundReader

\* Steps of the requests leave the stream alone.
LEMMA KeptLeftAlone ==
  ASSUME KeptInv, UNCHANGED <<setup, stream>>
  PROVE  KeptInv'
  BY DEF KeptInv, stream, Streaming, NoErrorFrames, Kept, Handed, Sans, SoundReader, Open, Between, HasTerminal, Terminal,
         Proxy, Bytes, EventStream

\* A read of any size, whoever reads.
LEMMA KeptRead ==
  ASSUME StreamInv, KeptInv, ReadChunk
  PROVE  KeptInv'
  <1>1. PICK n \in 1..(up.cut - up.pos) :
          LET p == Push(SubSeq(Bytes(up), up.pos + 1, up.pos + n)) IN
          /\ up' = [up EXCEPT !.pos = @ + n]
          /\ gate' = p.g /\ out' = out \o p.out /\ done' = p.stop
    BY DEF ReadChunk
  <1> DEFINE p == Push(Chunk(n))
             q == up.pos + n
  <1>2. gate' = p.g /\ out' = out \o p.out /\ done' = p.stop /\ up' = [up EXCEPT !.pos = @ + n]
    BY <1>1 DEF Chunk
  <1>3. setup' = setup /\ ~done /\ Streaming
    BY DEF ReadChunk
  <1>4. StreamType /\ UpType
    BY <1>3 DEF StreamInv, StreamType
  <1>5. up'.kind = up.kind /\ up'.page = up.page /\ up'.pos = q
    BY <1>2, <1>4 DEF UpType
  <1>6. Bytes(up') = Bytes(up)
    BY <1>5 DEF Bytes
  <1> SUFFICES ASSUME NoErrorFrames PROVE ~done' /\ SoundReader(gate, out, up.pos)'
    BY <1>5 DEF KeptInv, NoErrorFrames
  <1>7. SoundReader(gate, out, up.pos)
    BY <1>3 DEF KeptInv
  <1>8. ~p.stop /\ SoundReader(p.g, out \o p.out, q)
    <2>1. CASE ~Proxy
      <3>1. p = ClientPush(gate, setup.wire, up.kind, up.page, Chunk(n))
        BY <2>1 DEF Push
      <3> QED BY <1>4, <1>7, <2>1, <3>1, SoundClient
    <2>2. CASE Proxy /\ setup.same
      <3>1. p = GatePush(gate, setup.wire, up.kind, up.page, Chunk(n))
        BY <2>2 DEF Push
      <3> QED BY <1>4, <1>7, <2>2, <3>1, SoundGate
    <2>3. CASE Proxy /\ ~setup.same
      <3>1. p = MappedPush(gate, setup.wire, up.kind, up.page, Chunk(n))
        BY <2>3 DEF Push
      <3> QED BY <1>4, <1>7, <2>3, <3>1, SoundMapped
    <2> QED BY <2>1, <2>2, <2>3
  <1> HIDE DEF p, q
  <1>9. SoundReader(gate', out', q)
    BY <1>2, <1>8
  <1>10. SoundReader(gate, out, up.pos)'
    BY <1>3, <1>5, <1>6, <1>9 DEF SoundReader, Open, Between, Sans, HasTerminal, Terminal, Proxy
  <1> QED BY <1>2, <1>8, <1>10

\* The bytes end, or the transport fails.
LEMMA KeptEnd ==
  ASSUME StreamInv, KeptInv, EndStream
  PROVE  KeptInv'
  <1> DEFINE f == IF up.end = "error" THEN Whole(ErrorId) ELSE AtEnd
  <1>1. out' = out \o f /\ done' /\ UNCHANGED <<setup, up, gate>> /\ ~done /\ up.pos = up.cut /\ Streaming
    BY DEF EndStream
  <1>2. StreamType /\ TermInv /\ (~gate.saw => out = <<>>)
    BY <1>1 DEF StreamInv
  <1> SUFFICES ASSUME NoErrorFrames PROVE Kept(out)'
    BY <1>1 DEF KeptInv, NoErrorFrames
  <1>3. SoundReader(gate, out, up.pos)
    BY <1>1 DEF KeptInv
  <1>4. Kept(out \o f)
    BY <1>1, <1>2, <1>3, SoundEnd
  <1> HIDE DEF f
  <1>5. Kept(out')
    BY <1>1, <1>4
  <1> QED BY <1>1, <1>5 DEF Kept, Handed, Sans, HasTerminal, Terminal

\* While the stream runs, what was handed on is a prefix.
LEMMA KeptSoFar ==
  ASSUME StreamInv, KeptInv
  PROVE  BytesKept
  <1> SUFFICES ASSUME Streaming, NoErrorFrames
               PROVE  /\ IsPrefix(Handed(out), Sans(Bytes(up)))
                      /\ done /\ up.cut = Len(Bytes(up)) /\ up.end = "eof" /\ HasTerminal(up.cut)
                           => Sans(out) = Sans(Bytes(up))
    BY DEF BytesKept, Handed
  <1>1. CASE done
    BY <1>1 DEF KeptInv, Kept
  <1>2. CASE ~done
    <2>1. StreamType /\ (~gate.saw => out = <<>>) /\ SoundReader(gate, out, up.pos) /\ UpType /\ out \in Seq(Byte)
      BY <1>2 DEF StreamInv, KeptInv, StreamType
    <2>2. PICK k \in 0..Len(Bytes(up)) : Sans(out) = Sans(Between(0, k))
      BY <2>1, SoundOut
    <2>3. k \in Nat /\ k <= Len(Bytes(up))
      <3>1. Len(Bytes(up)) \in Nat
        BY <2>1, BytesAre
      <3> QED BY <3>1
    <2>4. IsPrefix(Handed(out), Sans(Bytes(up)))
      BY <2>1, <2>2, <2>3, HandedPrefix
    <2> QED BY <1>2, <2>4
  <1> QED BY <1>1, <1>2

\* However the bytes of a sound stream are cut into reads, and for any number of
\* frames, the caller gets them in order and none twice, [DONE] aside; once the
\* vendor finished, all of them (the three readers of a streamed answer).
THEOREM BytesAreKept == Spec => []BytesKept
  <1>1. Init => KeptInv
    BY KeptStarts
  <1>2. StreamInv /\ KeptInv /\ [Next]_vars => KeptInv'
    <2> SUFFICES ASSUME StreamInv, KeptInv, [Next]_vars PROVE KeptInv'
      OBVIOUS
    <2>1. ASSUME NEW r \in Requests, RequestStep(r) PROVE KeptInv'
      <3>1. UNCHANGED <<setup, stream>>
        BY <2>1 DEF RequestStep, Accept, TakeLock, Resolve, Send, Receive, Check, MarkStale, ClientSend, ClientCheck
      <3> QED BY <3>1, KeptLeftAlone
    <2>2. CASE Login
      <3>1. UNCHANGED <<setup, stream>>
        BY <2>2 DEF Login
      <3> QED BY <3>1, KeptLeftAlone
    <2>3. CASE ReadChunk
      BY <2>3, KeptRead
    <2>4. CASE EndStream
      BY <2>4, KeptEnd
    <2>5. CASE Stop \/ UNCHANGED vars
      <3>1. UNCHANGED <<setup, stream>>
        BY <2>5 DEF Stop, vars, stream
      <3> QED BY <3>1, KeptLeftAlone
    <2> QED BY <2>1, <2>2, <2>3, <2>4, <2>5 DEF Next
  <1>3. StreamInv /\ KeptInv => BytesKept
    BY KeptSoFar
  <1> QED BY <1>1, <1>2, <1>3, StreamInvariance, PTL DEF Spec
=============================================================================
