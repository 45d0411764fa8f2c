---------------------------- MODULE ReadsProofs -----------------------------
(***************************************************************************)
(* Theorems about what a session reads back: queries of a collection, the  *)
(* object log, the values that go to the Stone and return, and the nested  *)
(* arrays.  Each has an inductive invariant of its own; the last section   *)
(* puts them together.  Queries of one call, and what the doctor tells of  *)
(* an environment, are functions, and their theorems are of any input.     *)
(* What a recursive definition or a fold answers for every input is proved *)
(* by induction over a set of natural numbers, from the well-foundedness   *)
(* of their order.                                                         *)
(***************************************************************************)
EXTENDS LibraryProofs, Doctor, WellFoundedInduction

-----------------------------------------------------------------------------
(* Induction                                                               *)

(* Induction over the natural numbers, for a set.                          *)
LEMMA NatSet ==
    ASSUME NEW S, 0 \in S, \A n \in Nat : n \in S => n + 1 \in S
    PROVE  Nat \subseteq S
<1> DEFINE T == Nat \ S
<1>1. SUFFICES ASSUME T # {} PROVE FALSE
  OBVIOUS
<1>2. PICK x \in T : \A y \in T : <<y, x>> \notin OpToRel(<, Nat)
  BY <1>1, NatLessThanWellFounded, WFMin, Zenon
<1>3. \A y \in T : ~ (y < x)
  BY <1>2 DEF OpToRel
<1>4. x # 0 /\ x - 1 \in Nat
  OBVIOUS
<1>5. x - 1 \in S
  BY <1>3, <1>4
<1> QED
  BY <1>4, <1>5

(* A set of positions has a last one.                                      *)
LEMMA MaxOf ==
    ASSUME NEW n \in Nat, NEW S \in SUBSET (1..n), S # {}
    PROVE  Max(S) \in S /\ \A i \in S : i <= Max(S)
<1> DEFINE Q(m) == (\A i \in S : i <= m) => \E i \in S : \A j \in S : j <= i
           P == {m \in Nat : Q(m)}
<1>1. 0 \in P
  <2>0. PICK i : i \in S
    OBVIOUS
  <2>1. i \in S /\ i \in 1..n
    BY <2>0
  <2>2. Q(0)
    BY <2>1
  <2> QED
    BY <2>2
<1>2. ASSUME NEW m \in Nat, m \in P PROVE m + 1 \in P
  <2>1. SUFFICES ASSUME \A i \in S : i <= m + 1 PROVE \E i \in S : \A j \in S : j <= i
    OBVIOUS
  <2>2. CASE m + 1 \in S
    BY <2>1, <2>2
  <2>3. CASE m + 1 \notin S
    <3>1. \A i \in S : i <= m
      BY <2>1, <2>3
    <3>2. Q(m)
      BY <1>2
    <3> QED
      BY <3>1, <3>2
  <2> QED
    BY <2>2, <2>3
<1> HIDE DEF P
<1>3. Nat \subseteq P
  BY <1>1, <1>2, NatSet
<1>4. Q(n)
  BY <1>3 DEF P
<1>5. PICK i \in S : \A j \in S : j <= i
  BY <1>4
<1> QED
  BY <1>5 DEF Max

(* The last position is folded last.                                       *)
FoldsOver(h, n, X, base, G) ==
  /\ h \in [SUBSET (1..n) -> X]
  /\ \A T \in SUBSET (1..n) : h[T] = IF T = {} THEN base ELSE G[<<h[T \ {Max(T)}], Max(T)>>]

(* A fold over positions is defined ...                                    *)
LEMMA FoldDefined ==
    ASSUME NEW n \in Nat, NEW X, NEW base \in X, NEW G \in [X \X (1..n) -> X]
    PROVE  \E h : FoldsOver(h, n, X, base, G)
<1> DEFINE Is(m, h) == \A T \in SUBSET (1..m) : h[T] = IF T = {} THEN base ELSE G[<<h[T \ {Max(T)}], Max(T)>>]
           P == {m \in Nat : m > n \/ \E h \in [SUBSET (1..m) -> X] : Is(m, h)}
<1>1. 0 \in P
  <2> DEFINE h == [T \in SUBSET (1..0) |-> base]
  <2>1. h \in [SUBSET (1..0) -> X] /\ Is(0, h)
    <3>1. \A T \in SUBSET (1..0) : T = {}
      OBVIOUS
    <3> QED
      BY <3>1
  <2> QED
    BY <2>1
<1>2. ASSUME NEW m \in Nat, m \in P PROVE m + 1 \in P
  <2> HIDE DEF Is
  <2>1. SUFFICES ASSUME m + 1 <= n PROVE \E h \in [SUBSET (1..m + 1) -> X] : Is(m + 1, h)
    <3>1. m + 1 \in Nat /\ (~ (m + 1 <= n) => m + 1 > n)
      OBVIOUS
    <3> QED
      BY <3>1, Zenon
  <2>2. PICK g \in [SUBSET (1..m) -> X] : Is(m, g)
    <3>1. ~ (m > n)
      BY <2>1
    <3> QED
      BY <1>2, <3>1
  <2> USE DEF Is
  <2> DEFINE h == [T \in SUBSET (1..m + 1) |-> IF m + 1 \in T THEN G[<<g[T \ {m + 1}], m + 1>>] ELSE g[T]]
  <2>3. ASSUME NEW T \in SUBSET (1..m + 1)
        PROVE  h[T] \in X /\ h[T] = IF T = {} THEN base ELSE G[<<h[T \ {Max(T)}], Max(T)>>]
    <3>1. CASE m + 1 \in T
      <4>1. Max(T) \in T /\ \A i \in T : i <= Max(T)
        <5>1. T # {} /\ m + 1 \in Nat
          BY <3>1
        <5> QED
          BY <5>1, MaxOf, Zenon
      <4>2. Max(T) = m + 1
        <5>1. Max(T) \in 1..m + 1
          BY <4>1
        <5>2. m + 1 <= Max(T)
          BY <4>1, <3>1
        <5> HIDE DEF P
        <5> QED
          BY <5>1, <5>2
      <4>3. T \ {m + 1} \in SUBSET (1..m)
        OBVIOUS
      <4>4. h[T \ {m + 1}] = g[T \ {m + 1}] /\ g[T \ {m + 1}] \in X
        BY <4>3
      <4>5. h[T] = G[<<g[T \ {m + 1}], m + 1>>]
        BY <3>1
      <4>6. m + 1 \in 1..n
        BY <2>1
      <4>7. G[<<g[T \ {m + 1}], m + 1>>] \in X
        BY <4>4, <4>6
      <4> HIDE DEF h
      <4> QED
        BY <4>2, <4>4, <4>5, <4>7, <3>1
    <3>2. CASE m + 1 \notin T
      <4>1. T \in SUBSET (1..m)
        BY <3>2
      <4>2. h[T] = g[T] /\ g[T] \in X
        BY <3>2, <4>1
      <4>3. CASE T = {}
        BY <4>1, <4>2, <4>3, <2>2
      <4>4. CASE T # {}
        <5>1. Max(T) \in T
          BY <4>1, <4>4, MaxOf
        <5>2. T \ {Max(T)} \in SUBSET (1..m) /\ m + 1 \notin T \ {Max(T)}
          BY <4>1, <3>2
        <5>3. h[T \ {Max(T)}] = g[T \ {Max(T)}]
          BY <5>2
        <5>4. g[T] = G[<<g[T \ {Max(T)}], Max(T)>>]
          BY <2>2, <4>1, <4>4
        <5> HIDE DEF h
        <5> QED
          BY <5>3, <5>4, <4>2, <4>4
      <4> QED
        BY <4>3, <4>4
    <3> QED
      BY <3>1, <3>2
  <2>4. h \in [SUBSET (1..m + 1) -> X]
    <3> HIDE DEF h
    <3>1. \A T \in SUBSET (1..m + 1) : h[T] \in X
      BY <2>3
    <3>2. h = [T \in SUBSET (1..m + 1) |-> h[T]]
      BY DEF h
    <3> QED
      BY <3>1, <3>2
  <2>5. Is(m + 1, h)
    <3> HIDE DEF h
    <3> QED
      BY <2>3
  <2> QED
    BY <2>4, <2>5
<1> HIDE DEF P
<1>3. n \in P
  BY <1>1, <1>2, NatSet
<1>4. ~ (n > n)
  OBVIOUS
<1> HIDE DEF Is
<1>5. \E h \in [SUBSET (1..n) -> X] : Is(n, h)
  BY <1>3, <1>4 DEF P
<1> QED
  BY <1>5 DEF Is, FoldsOver

(* ... and goes from one to the next.                                      *)
LEMMA FoldSteps ==
    ASSUME NEW n \in Nat, NEW k \in 1..n
    PROVE  1..k # {} /\ 1..k \in SUBSET (1..n) /\ Max(1..k) = k /\ (1..k) \ {k} = 1..k - 1
<1>1. 1..k # {} /\ k \in Nat /\ 1..k \in SUBSET (1..k)
  OBVIOUS
<1>2. Max(1..k) \in 1..k /\ \A i \in 1..k : i <= Max(1..k)
  BY <1>1, MaxOf, Zenon
<1> DEFINE m == Max(1..k)
<1> HIDE DEF m
<1>3. m \in 1..k /\ k <= m
  BY <1>2 DEF m
<1>4. m = k
  BY <1>3
<1>5. Max(1..k) = k
  BY <1>4 DEF m
<1> QED
  BY <1>5

(* Two chains of the same steps are the same as far as both go.            *)
StepsBy(L, n, G) == \A k \in 1..n : L[k] = G[<<L[k - 1], k>>]

LEMMA ChainsAgree ==
    ASSUME NEW n \in Nat, NEW G, NEW L, NEW M, L[0] = M[0], StepsBy(L, n, G), StepsBy(M, n, G)
    PROVE  \A k \in 0..n : L[k] = M[k]
<1> DEFINE P == {k \in Nat : k > n \/ L[k] = M[k]}
<1>1. 0 \in P
  OBVIOUS
<1>2. ASSUME NEW k \in Nat, k \in P PROVE k + 1 \in P
  <2>1. SUFFICES ASSUME k + 1 <= n PROVE L[k + 1] = M[k + 1]
    OBVIOUS
  <2>2. L[k] = M[k]
    BY <1>2, <2>1
  <2>3. k + 1 \in 1..n /\ (k + 1) - 1 = k
    BY <2>1
  <2> QED
    BY <2>2, <2>3 DEF StepsBy
<1>3. Nat \subseteq P
  BY <1>1, <1>2, NatSet
<1> QED
  BY <1>3

(* What two sequences one after the other are.                             *)
LEMMA ConcatIs ==
    ASSUME NEW X, NEW a \in Seq(X), NEW b \in Seq(X)
    PROVE  /\ a \o b \in Seq(X) /\ Len(a \o b) = Len(a) + Len(b)
           /\ \A i \in 1..Len(a) : (a \o b)[i] = a[i]
           /\ \A i \in 1..Len(b) : (a \o b)[Len(a) + i] = b[i]
OBVIOUS

-----------------------------------------------------------------------------
(* Queries of a collection                                                 *)

WithoutSteps(L, X, base, seq) ==
  /\ L \in [0..Len(seq) -> X]
  /\ L[0] = base
  /\ \A k \in 1..Len(seq) : L[k] = Without(L[k - 1], seq[k])
  /\ WithoutEach(base, seq) = L[Len(seq)]

(* What WithoutEach folds over the values.                                 *)
LEMMA WithoutFold ==
    ASSUME NEW X, NEW E, \A x \in X, e \in E : Without(x, e) \in X, NEW base \in X, NEW seq \in Seq(E)
    PROVE  \E L : WithoutSteps(L, X, base, seq)
<1> DEFINE n == Len(seq)
           G == [p \in X \X (1..n) |-> Without(p[1], seq[p[2]])]
           Is(h) == h = [T \in SUBSET (DOMAIN seq) |->
                                   IF T = {} THEN base ELSE LET x == Max(T) IN Without(h[T \ {x}], seq[x])]
           iter == CHOOSE h : Is(h)
<1>1. n \in Nat /\ DOMAIN seq = 1..n /\ \A k \in 1..n : seq[k] \in E
  OBVIOUS
<1>2. G \in [X \X (1..n) -> X]
  BY <1>1
<1> HIDE DEF n
<1>3. PICK h \in [SUBSET (1..n) -> X] :
        \A T \in SUBSET (1..n) : h[T] = IF T = {} THEN base ELSE G[<<h[T \ {Max(T)}], Max(T)>>]
  <2> HIDE DEF G
  <2>1. PICK h : FoldsOver(h, n, X, base, G)
    BY <1>1, <1>2, FoldDefined, Zenon
  <2> QED
    BY <2>1 DEF FoldsOver
<1>4. ASSUME NEW T \in SUBSET (1..n), T # {} PROVE G[<<h[T \ {Max(T)}], Max(T)>>] = Without(h[T \ {Max(T)}], seq[Max(T)])
  <2>1. Max(T) \in 1..n
    BY <1>1, <1>4, MaxOf
  <2>2. h[T \ {Max(T)}] \in X
    BY <1>3
  <2> QED
    BY <2>1, <2>2
<1>5. Is(h)
  <2> HIDE DEF G
  <2> QED
    BY <1>1, <1>3, <1>4
<1>6. Is(iter)
  <2> HIDE DEF Is
  <2> QED
    BY <1>5, Zenon
<1>7. WithoutEach(base, seq) = iter[DOMAIN seq]
  BY Zenon DEF WithoutEach, FoldLeft, MapThenFoldSet
<1> HIDE DEF iter
<1>8. ASSUME NEW T \in SUBSET (1..n) PROVE iter[T] = IF T = {} THEN base ELSE Without(iter[T \ {Max(T)}], seq[Max(T)])
  BY <1>1, <1>6
<1> HIDE DEF Is, G
<1> DEFINE L == [k \in 0..n |-> iter[1..k]]
<1>9. L[0] = base
  <2>1. 1..0 = {} /\ 0 \in 0..n
    BY <1>1
  <2> QED
    BY <1>8, <2>1
<1>10. ASSUME NEW k \in 1..n PROVE L[k] = Without(L[k - 1], seq[k])
  <2>1. 1..k # {} /\ 1..k \in SUBSET (1..n) /\ Max(1..k) = k /\ (1..k) \ {k} = 1..k - 1
    BY <1>1, FoldSteps
  <2>2. L[k] = iter[1..k] /\ L[k - 1] = iter[1..k - 1]
    BY <1>1
  <2>3. iter[1..k] = Without(iter[(1..k) \ {Max(1..k)}], seq[Max(1..k)])
    BY <1>8, <2>1
  <2> QED
    BY <2>1, <2>2, <2>3
<1>11. L[n] = iter[DOMAIN seq]
  BY <1>1
<1> DEFINE P == {k \in Nat : k <= n => L[k] \in X}
<1> HIDE DEF L
<1>12. 0 \in P
  BY <1>9
<1>13. ASSUME NEW k \in Nat, k \in P PROVE k + 1 \in P
  <2>1. SUFFICES ASSUME k + 1 <= n PROVE L[k + 1] \in X
    OBVIOUS
  <2>2. L[k] \in X
    BY <1>1, <2>1, <1>13
  <2>3. k + 1 \in 1..n /\ (k + 1) - 1 = k
    BY <1>1, <2>1
  <2>4. L[k + 1] = Without(L[k], seq[k + 1])
    BY <1>10, <2>3
  <2> QED
    BY <2>2, <2>3, <2>4, <1>1
<1>14. Nat \subseteq P
  <2> HIDE DEF P
  <2> QED
    BY <1>12, <1>13, NatSet
<1>15. L \in [0..n -> X]
  <2>1. \A k \in 0..n : L[k] \in X
    BY <1>1, <1>14
  <2>2. L = [k \in 0..n |-> L[k]]
    BY DEF L
  <2> QED
    BY <2>1, <2>2
<1> QED
  BY <1>15, <1>9, <1>10, <1>7, <1>11 DEF n, WithoutSteps

(* The least of a set of numbers.                                          *)
LEMMA MinOf ==
    ASSUME NEW S \in SUBSET Nat, S # {}
    PROVE  Min(S) \in S /\ \A i \in S : Min(S) <= i
<1>1. PICK x \in S : \A y \in S : <<y, x>> \notin OpToRel(<, Nat)
  BY NatLessThanWellFounded, WFMin, Zenon
<1>2. \A y \in S : ~ (y < x)
  BY <1>1 DEF OpToRel
<1>3. \E i \in S : \A j \in S : i <= j
  BY <1>2
<1> QED
  BY <1>3 DEF Min

(* To remove a value is to leave out one position that holds it.           *)
LEMMA RemoveFirstIs ==
    ASSUME NEW X, NEW s \in Seq(X), NEW v, v \in Range(s)
    PROVE  \E i \in 1..Len(s) : s[i] = v /\ RemoveFirst(s, v) = SubSeq(s, 1, i - 1) \o SubSeq(s, i + 1, Len(s))
<1> DEFINE I == {i \in 1..Len(s) : s[i] = v}
<1>1. I # {} /\ I \in SUBSET Nat
  BY DEF Range
<1>2. Min(I) \in I
  BY <1>1, MinOf
<1>3. \E i \in 1..Len(s) : s[i] = v
  BY <1>1
<1>4. RemoveFirst(s, v) = RemoveAt(s, SelectInSeq(s, LAMBDA w : w = v))
  BY <1>3, Zenon DEF RemoveFirst
<1>5. SelectInSeq(s, LAMBDA w : w = v) = Min(I)
  BY <1>1, Zenon DEF SelectInSeq
<1>6. RemoveFirst(s, v) = RemoveAt(s, Min(I))
  BY <1>4, <1>5, Zenon
<1>7. Min(I) \in 1..Len(s) /\ s[Min(I)] = v
  BY <1>2
<1> QED
  BY <1>6, <1>7 DEF RemoveAt

(* A member less, and the others as they were.                             *)
LEMMA WithoutIs ==
    ASSUME NEW X, NEW s \in Seq(X), NEW v
    PROVE  /\ Without(s, v) \in Seq(X)
           /\ v \in Range(s) => Len(Without(s, v)) = Len(s) - 1
           /\ IsInjective(s) => IsInjective(Without(s, v))
<1>1. CASE v \notin Range(s)
  BY <1>1 DEF Without
<1>2. CASE v \in Range(s)
  <2>1. PICK i \in 1..Len(s) : RemoveFirst(s, v) = SubSeq(s, 1, i - 1) \o SubSeq(s, i + 1, Len(s))
    BY <1>2, RemoveFirstIs
  <2> DEFINE t == SubSeq(s, 1, i - 1) \o SubSeq(s, i + 1, Len(s))
  <2>2. Without(s, v) = t
    BY <1>2, <2>1 DEF Without
  <2> DEFINE a == SubSeq(s, 1, i - 1)
             b == SubSeq(s, i + 1, Len(s))
  <2>3. /\ a \in Seq(X) /\ Len(a) = i - 1 /\ \A k \in 1..i - 1 : a[k] = s[k]
        /\ b \in Seq(X) /\ Len(b) = Len(s) - i /\ \A k \in 1..Len(s) - i : b[k] = s[i + k]
    OBVIOUS
  <2> HIDE DEF a, b
  <2>4. t = a \o b
    BY DEF a, b
  <2> HIDE DEF t
  <2>6. t \in Seq(X) /\ Len(t) = Len(s) - 1
    BY <2>3, <2>4
  <2>7. ASSUME NEW k \in 1..Len(s) - 1 PROVE t[k] = s[IF k < i THEN k ELSE k + 1]
    <3>1. CASE k < i
      BY <2>3, <2>4, <3>1
    <3>2. CASE ~ (k < i)
      <4>1. t[k] = b[k - (i - 1)] /\ k - (i - 1) \in 1..Len(s) - i
        BY <2>3, <2>4, <3>2
      <4> QED
        BY <4>1, <2>3, <3>2
    <3> QED
      BY <3>1, <3>2
  <2>5. ASSUME IsInjective(s) PROVE IsInjective(t)
    <3>1. DOMAIN t = 1..Len(s) - 1
      BY <2>6
    <3>2. SUFFICES ASSUME NEW j \in 1..Len(s) - 1, NEW k \in 1..Len(s) - 1, t[j] = t[k] PROVE j = k
      BY <3>1 DEF IsInjective
    <3> DEFINE aa == IF j < i THEN j ELSE j + 1
               bb == IF k < i THEN k ELSE k + 1
    <3>3. aa \in 1..Len(s) /\ bb \in 1..Len(s)
      OBVIOUS
    <3>4. s[aa] = s[bb]
      BY <2>7, <3>2
    <3>5. aa = bb
      <4> HIDE DEF aa, bb
      <4> QED
        BY <3>3, <3>4, <2>5 DEF IsInjective
    <3> QED
      BY <3>5
  <2> QED
    BY <2>2, <2>6, <2>5, <1>2
<1> QED
  BY <1>1, <1>2

(* Nothing is removed when no value is given, and one value more is        *)
(* removed after the others.                                               *)
LEMMA NothingRemoved ==
    ASSUME NEW X, NEW s \in Seq(X)
    PROVE  WithoutEach(s, <<>>) = s
<1>1. \A x \in Seq(X), e \in X : Without(x, e) \in Seq(X)
  BY WithoutIs
<1>2. <<>> \in Seq(X) /\ Len(<<>>) = 0
  OBVIOUS
<1>3. PICK N : WithoutSteps(N, Seq(X), s, <<>>)
  BY <1>1, <1>2, WithoutFold, Zenon
<1>4. N[0] = s /\ WithoutEach(s, <<>>) = N[Len(<<>>)]
  BY <1>3, Zenon DEF WithoutSteps
<1> QED
  BY <1>2, <1>4

LEMMA WithoutAppend ==
    ASSUME NEW X, NEW s \in Seq(X), NEW did \in Seq(X), NEW v \in X
    PROVE  /\ WithoutEach(s, did) \in Seq(X)
           /\ WithoutEach(s, Append(did, v)) = Without(WithoutEach(s, did), v)
<1> DEFINE n == Len(did)
           both == Append(did, v)
<1>1. /\ n \in Nat /\ both \in Seq(X) /\ Len(both) = n + 1 /\ both[n + 1] = v
      /\ \A k \in 1..n : both[k] = did[k]
  OBVIOUS
<1>2. \A x \in Seq(X), e \in X : Without(x, e) \in Seq(X)
  BY WithoutIs
<1> HIDE DEF both
<1>31. PICK L : WithoutSteps(L, Seq(X), s, did)
  BY <1>2, WithoutFold, Zenon
<1>3. /\ L \in [0..n -> Seq(X)] /\ L[0] = s
      /\ \A k \in 1..n : L[k] = Without(L[k - 1], did[k])
      /\ WithoutEach(s, did) = L[n]
  BY <1>31 DEF WithoutSteps
<1>41. PICK M : WithoutSteps(M, Seq(X), s, both)
  BY <1>2, <1>1, WithoutFold, Zenon
<1>4. /\ M \in [0..Len(both) -> Seq(X)] /\ M[0] = s
      /\ \A k \in 1..Len(both) : M[k] = Without(M[k - 1], both[k])
      /\ WithoutEach(s, both) = M[Len(both)]
  BY <1>41 DEF WithoutSteps
<1> HIDE DEF n
<1> DEFINE G == [p \in Seq(X) \X (1..n) |-> Without(p[1], did[p[2]])]
<1>5. StepsBy(L, n, G) /\ StepsBy(M, n, G)
  <2> SUFFICES ASSUME NEW k \in 1..n PROVE L[k] = G[<<L[k - 1], k>>] /\ M[k] = G[<<M[k - 1], k>>]
    BY DEF StepsBy
  <2>1. k - 1 \in 0..n /\ k \in 1..Len(both) /\ k - 1 \in 0..Len(both)
    BY <1>1
  <2>2. L[k - 1] \in Seq(X) /\ M[k - 1] \in Seq(X)
    BY <2>1, <1>3, <1>4
  <2>3. G[<<L[k - 1], k>>] = Without(L[k - 1], did[k]) /\ G[<<M[k - 1], k>>] = Without(M[k - 1], did[k])
    BY <2>2
  <2>4. L[k] = Without(L[k - 1], did[k]) /\ M[k] = Without(M[k - 1], both[k])
    BY <2>1, <1>3, <1>4
  <2> QED
    BY <2>3, <2>4, <1>1
<1>6. L[n] = M[n]
  <2> HIDE DEF G
  <2>0. n \in Nat /\ L[0] = M[0]
    BY <1>1, <1>3, <1>4
  <2>1. \A k \in 0..n : L[k] = M[k]
    BY <2>0, <1>5, ChainsAgree, Zenon
  <2> QED
    BY <1>1, <2>1
<1>7. M[n + 1] = Without(M[n], v)
  <2>1. n + 1 \in 1..Len(both) /\ (n + 1) - 1 = n
    BY <1>1
  <2>2. M[n + 1] = Without(M[(n + 1) - 1], both[n + 1])
    BY <1>4, <2>1
  <2> QED
    BY <1>1, <2>1, <2>2
<1>8. L[n] \in Seq(X)
  BY <1>1, <1>3
<1> QED
  BY <1>3, <1>4, <1>6, <1>7, <1>8, <1>1 DEF both

(* A set with a new member in it is a longer one, in some order.           *)
LEMMA AddedToSet ==
    ASSUME NEW X, NEW s \in Seq(X), IsInjective(s), NEW v \in X, v \notin Range(s), NEW t \in Orders(Range(s) \cup {v})
    PROVE  t \in Seq(X) /\ IsInjective(t) /\ Range(t) = Range(s) \cup {v} /\ Len(t) > Len(s)
<1> DEFINE S == Range(s) \cup {v}
<1>1. IsFiniteSet(Range(s)) /\ Cardinality(Range(s)) = Len(s)
  <2>1. s \in [1..Len(s) -> Range(s)] /\ DOMAIN s = 1..Len(s)
    BY DEF Range
  <2>2. s \in Bijection(1..Len(s), Range(s))
    BY <2>1 DEF Bijection, Injection, Surjection, Range
  <2>3. ExistsBijection(1..Len(s), Range(s))
    BY <2>2 DEF ExistsBijection
  <2>4. Len(s) \in Nat /\ IsFiniteSet(1..Len(s)) /\ Cardinality(1..Len(s)) = Len(s)
    <3> DEFINE n == Len(s)
    <3>1. n \in Nat
      OBVIOUS
    <3> HIDE DEF n
    <3>2. IsFiniteSet(1..n) /\ Cardinality(1..n) = n
      BY <3>1, FS_Interval
    <3> QED
      BY <3>1, <3>2 DEF n
  <2> QED
    BY <2>3, <2>4, FS_Bijection
<1>2. IsFiniteSet(S) /\ Cardinality(S) = Len(s) + 1
  BY <1>1, FS_AddElement
<1> DEFINE n == Cardinality(S)
<1>3. n = Len(s) + 1 /\ n \in Nat
  BY <1>2
<1>4. S \subseteq X
  BY DEF Range
<1>5. t \in [1..n -> S] /\ IsInjective(t)
  BY DEF Orders
<1>6. IsFiniteSet(1..n) /\ Cardinality(1..n) = n
  <2>1. 1 \in Int /\ n \in Int /\ (1 > n => n = 0) /\ n - 1 + 1 = n
    BY <1>3
  <2> HIDE DEF n
  <2>2. IsFiniteSet(1..n) /\ Cardinality(1..n) = IF 1 > n THEN 0 ELSE n - 1 + 1
    BY <2>1, FS_Interval
  <2> QED
    BY <2>1, <2>2
<1> HIDE DEF S
<1>7. t \in Surjection(1..n, S)
  <2>1. t \in Injection(1..n, S)
    BY <1>5 DEF Injection
  <2> QED
    BY <1>2, <1>6, <2>1, FS_Injection
<1> HIDE DEF n
<1>8. t \in Seq(X) /\ Len(t) = n
  BY <1>3, <1>4, <1>5
<1>9. Range(t) = S
  BY <1>5, <1>7 DEF Range, Surjection
<1> QED
  BY <1>3, <1>5, <1>8, <1>9 DEF S

-----------------------------------------------------------------------------

Positive == Nat \ {0}

QueryRecord ==
  [at : {"next", "clear", "remove", "end"}, call : UNION {Queries[q] : q \in Queriers},
   left : Seq(Members), values : Seq(Members), chunk : Positive, offset : Positive, got : Seq(Members),
   outcome : {"busy", "ok", "failed"}, old : Seq(Members), after : Seq(Members), grew : BOOLEAN, lost : BOOLEAN]

Calm(o) == ~o.grew /\ ~o.lost
BaseOf(o) == IF o.call = "replaceAll" THEN <<>> ELSE o.old

(* What the operation has made of the collection when `did' are done.      *)
QueryEffect(o, did, m, ord) ==
  /\ o.at = "clear" => m = o.old /\ did = <<>>
  /\ o.at # "clear" /\ o.call = "removeAll" => m = WithoutEach(o.old, did) /\ Len(m) + Len(o.got) = Len(o.old)
  /\ o.at = "remove" => o.left # <<>> /\ Head(o.left) \in Range(m)
  /\ o.at # "clear" /\ o.call \in {"addAll", "replaceAll"} =>
       IF ord THEN m = BaseOf(o) \o did ELSE Range(m) = Range(BaseOf(o)) \cup Range(did)

(* How far an iteration is.                                                *)
HasRead(o, m) ==
  /\ IsPrefix(o.old, m)
  /\ Len(o.got) <= Len(m) /\ Len(o.got) <= o.offset - 1
  /\ o.offset - 1 < Len(o.old) => Len(o.got) = o.offset - 1
  /\ o.offset - 1 >= Len(o.old) => Len(o.got) >= Len(o.old)
  /\ \A i \in 1..Len(o.old) : i <= Len(o.got) => o.got[i] = o.old[i]

Halfway(o, m, ord) ==
  /\ o.call = "iter" => o.at = "next"
  /\ o.at = "clear" => o.call = "replaceAll"
  /\ o.at = "remove" => o.call = "removeAll" /\ o.left # <<>>
  /\ \E did \in Seq(Members) : o.values = did \o o.left /\ (Calm(o) => QueryEffect(o, did, m, ord))
  /\ o.call = "iter" /\ ~o.lost /\ (ord \/ ~o.grew) => HasRead(o, m)
  /\ o.call = "iter" /\ Calm(o) => m = o.old

AtomicEnd(o, ord) ==
  (o.at = "end" /\ o.outcome = "ok" /\ ~o.grew /\ ~o.lost) =>
    /\ o.call = "iter" => o.got = o.old /\ o.after = o.old
    /\ o.call = "removeAll" => o.after = WithoutEach(o.old, o.values) /\ Len(o.after) + Len(o.got) = Len(o.old)
    /\ o.call \in {"addAll", "replaceAll"} =>
         LET first == IF o.call = "replaceAll" THEN <<>> ELSE o.old
         IN  IF ord THEN o.after = first \o o.values
             ELSE IsInjective(o.after) /\ Range(o.after) = Range(first) \cup Range(o.values)

WholeEnd(o, ord) ==
  (o.at = "end" /\ o.call = "iter" /\ o.outcome = "ok" /\ ord /\ ~o.lost) =>
    IsPrefix(o.old, o.got) /\ Len(o.got) - Len(o.old) <= Cardinality({i \in DOMAIN o.after : i > Len(o.old)})

FineQuery(o, m, ord) == IF o.at = "end" THEN AtomicEnd(o, ord) /\ WholeEnd(o, ord) ELSE Halfway(o, m, ord)

(* The members that are there, and what each call has done so far: a call  *)
(* that was neither disturbed nor failed is halfway to what it is to do.   *)
QueryInv ==
  /\ ordered \in BOOLEAN
  /\ members \in Seq(Members) /\ (~ordered => IsInjective(members))
  /\ query \in [Queriers -> {NoQuery} \cup QueryRecord]
  /\ \A q \in Queriers : query[q] # NoQuery => FineQuery(query[q], members, ordered)

(* What a step may make of the collection.                                 *)
GoodChange(m, next, ord) ==
  /\ next \in Seq(Members) /\ (~ord => IsInjective(next))
  /\ next = m \/ Len(next) # Len(m)
  /\ ord /\ Len(next) > Len(m) => IsPrefix(m, next)

(* A session that queries nothing yet has no query.                        *)
LEMMA NoQueryIsNone == NoQuery \notin QueryRecord
<1>1. \A o \in QueryRecord : o.at # "none"
  BY DEF QueryRecord
<1>2. NoQuery.at = "none"
  BY DEF NoQuery
<1> QED
  BY <1>1, <1>2

(* Beginnings of sequences.                                                *)
LEMMA PrefixOfPrefix ==
    ASSUME NEW X, NEW a \in Seq(X), NEW b \in Seq(X), NEW c \in Seq(X), IsPrefix(a, b), IsPrefix(b, c)
    PROVE  IsPrefix(a, c)
<1>1. Len(a) <= Len(b) /\ Len(b) <= Len(c) /\ SubSeq(a, 1, Len(a)) = SubSeq(b, 1, Len(a))
      /\ SubSeq(b, 1, Len(b)) = SubSeq(c, 1, Len(b))
  BY DEF IsPrefix
<1>2. \A i \in 1..Len(a) : a[i] = b[i]
  <2> TAKE i \in 1..Len(a)
  <2>1. SubSeq(a, 1, Len(a))[i] = a[i] /\ SubSeq(b, 1, Len(a))[i] = b[i]
    BY <1>1
  <2> QED
    BY <2>1, <1>1
<1>3. \A i \in 1..Len(b) : b[i] = c[i]
  <2> TAKE i \in 1..Len(b)
  <2>1. SubSeq(b, 1, Len(b))[i] = b[i] /\ SubSeq(c, 1, Len(b))[i] = c[i]
    BY <1>1
  <2> QED
    BY <2>1, <1>1
<1>4. \A i \in 1..Len(a) : a[i] = c[i]
  BY <1>1, <1>2, <1>3
<1>5. SubSeq(a, 1, Len(a)) = SubSeq(c, 1, Len(a))
  BY <1>1, <1>4
<1> QED
  BY <1>1, <1>5 DEF IsPrefix

LEMMA PrefixIs ==
    ASSUME NEW X, NEW a \in Seq(X), NEW b \in Seq(X)
    PROVE  IsPrefix(a, b) <=> Len(a) <= Len(b) /\ \A i \in 1..Len(a) : a[i] = b[i]
<1>1. ASSUME IsPrefix(a, b) PROVE Len(a) <= Len(b) /\ \A i \in 1..Len(a) : a[i] = b[i]
  <2>1. Len(a) <= Len(b) /\ SubSeq(a, 1, Len(a)) = SubSeq(b, 1, Len(a))
    BY <1>1 DEF IsPrefix
  <2>2. ASSUME NEW i \in 1..Len(a) PROVE a[i] = b[i]
    <3>1. SubSeq(a, 1, Len(a))[i] = a[i] /\ SubSeq(b, 1, Len(a))[i] = b[i]
      BY <2>1
    <3> QED
      BY <3>1, <2>1
  <2> QED
    BY <2>1, <2>2
<1>2. ASSUME Len(a) <= Len(b), \A i \in 1..Len(a) : a[i] = b[i] PROVE IsPrefix(a, b)
  <2>1. SubSeq(a, 1, Len(a)) = SubSeq(b, 1, Len(a))
    BY <1>2
  <2> QED
    BY <1>2, <2>1 DEF IsPrefix
<1> QED
  BY <1>1, <1>2

Open(o) == o.at # "end"
Seen(o, m, next) == [o EXCEPT !.grew = @ \/ Len(next) > Len(m), !.lost = @ \/ Len(next) < Len(m)]

(* The others are told, and what they may rely on stays true.              *)
LEMMA OthersKeep ==
    ASSUME NEW o \in QueryRecord, NEW m \in Seq(Members), NEW next, NEW ord \in BOOLEAN,
           GoodChange(m, next, ord), Open(o), Halfway(o, m, ord), NEW r, r = Seen(o, m, next)
    PROVE  r \in QueryRecord /\ Open(r) /\ Halfway(r, next, ord)
<1> USE DEF Open, Seen
<1>1. r \in QueryRecord
  BY DEF QueryRecord
<1>2. /\ r.at = o.at /\ r.call = o.call /\ r.left = o.left /\ r.values = o.values /\ r.offset = o.offset
      /\ r.got = o.got /\ r.old = o.old
      /\ r.grew = (o.grew \/ Len(next) > Len(m)) /\ r.lost = (o.lost \/ Len(next) < Len(m))
  BY DEF QueryRecord
<1>3. /\ o.got \in Seq(Members) /\ o.old \in Seq(Members) /\ o.grew \in BOOLEAN /\ o.lost \in BOOLEAN
      /\ next \in Seq(Members)
  BY DEF QueryRecord, GoodChange
<1>4. Calm(r) => Calm(o) /\ next = m
  <2>1. Calm(r) => ~ (Len(next) > Len(m)) /\ ~ (Len(next) < Len(m)) /\ ~o.grew /\ ~o.lost
    BY <1>2 DEF Calm
  <2>2. next = m \/ Len(next) # Len(m)
    BY DEF GoodChange
  <2> QED
    BY <2>1, <2>2, <1>3 DEF Calm
<1>5. PICK did \in Seq(Members) : o.values = did \o o.left /\ (Calm(o) => QueryEffect(o, did, m, ord))
  BY DEF Halfway
<1>6. r.values = did \o r.left /\ (Calm(r) => QueryEffect(r, did, next, ord))
  BY <1>2, <1>4, <1>5 DEF QueryEffect, BaseOf
<1>7. ASSUME r.call = "iter", ~r.lost, ord \/ ~r.grew PROVE HasRead(r, next)
  <2>1. HasRead(o, m)
    BY <1>7, <1>2 DEF Halfway
  <2>2. next = m \/ (Len(next) > Len(m) /\ ord /\ IsPrefix(m, next))
    <3>1. ~ (Len(next) < Len(m)) /\ (ord \/ ~ (Len(next) > Len(m)))
      BY <1>7, <1>2
    <3>2. next = m \/ Len(next) # Len(m)
      BY DEF GoodChange
    <3>3. Len(next) \in Nat /\ Len(m) \in Nat
      BY <1>3
    <3>4. next = m \/ (Len(next) > Len(m) /\ ord)
      BY <3>1, <3>2, <3>3
    <3> QED
      BY <3>4 DEF GoodChange
  <2>3. IsPrefix(o.old, next) /\ Len(m) <= Len(next)
    BY <2>1, <2>2, <1>3, PrefixOfPrefix DEF HasRead
  <2>4. Len(o.got) \in Nat
    BY <1>3
  <2> QED
    BY <2>1, <2>3, <2>4, <1>2, <1>3 DEF HasRead
<1>8. r.call = "iter" /\ Calm(r) => next = r.old
  BY <1>2, <1>4 DEF Halfway
<1>9. /\ (r.call = "iter" => r.at = "next") /\ (r.at = "clear" => r.call = "replaceAll")
      /\ (r.at = "remove" => r.call = "removeAll" /\ r.left # <<>>)
  BY <1>2 DEF Halfway
<1>10. Halfway(r, next, ord)
  BY <1>6, <1>7, <1>8, <1>9 DEF Halfway
<1> QED
  BY <1>1, <1>2, <1>10

(* A step that changes the collection only as the others may see it keeps  *)
(* the invariant.                                                          *)
LEMMA ChangeKeeps ==
    ASSUME QueryInv, NEW q \in Queriers, NEW next, NEW mine, Change(q, next, mine), GoodChange(members, next, ordered),
           mine \in QueryRecord, FineQuery(mine, next, ordered)
    PROVE  QueryInv'
<1>1. /\ members' = next /\ ordered' = ordered
      /\ query' = [r \in Queriers |-> IF r = q THEN mine ELSE IF ~Busy(r) THEN query[r] ELSE Seen(query[r], members, next)]
  BY DEF Change, Seen
<1>2. next \in Seq(Members) /\ (~ordered => IsInjective(next))
  BY DEF GoodChange
<1>3. ASSUME NEW r \in Queriers
      PROVE  query'[r] \in {NoQuery} \cup QueryRecord /\ (query'[r] # NoQuery => FineQuery(query'[r], next, ordered))
  <2>1. CASE r = q
    BY <2>1, <1>1
  <2>2. CASE r # q /\ ~Busy(r)
    <3>1. query'[r] = query[r]
      BY <2>2, <1>1
    <3>2. ASSUME query[r] # NoQuery PROVE query[r].at = "end"
      <4>1. query[r] \in QueryRecord
        BY <3>2 DEF QueryInv
      <4> QED
        BY <4>1, <2>2 DEF Busy, QueryRecord
    <3>3. ASSUME query[r] # NoQuery PROVE FineQuery(query[r], next, ordered)
      BY <3>2, <3>3 DEF QueryInv, FineQuery
    <3> QED
      BY <3>1, <3>3 DEF QueryInv
  <2>3. CASE r # q /\ Busy(r)
    <3>1. query'[r] = Seen(query[r], members, next)
      BY <2>3, <1>1 DEF Seen
    <3>2. query[r] # NoQuery /\ Open(query[r])
      BY <2>3 DEF Busy, NoQuery, Open
    <3>3. query[r] \in QueryRecord /\ Halfway(query[r], members, ordered)
      BY <3>2 DEF QueryInv, FineQuery, Open
    <3>4. members \in Seq(Members) /\ ordered \in BOOLEAN
      BY DEF QueryInv
    <3> DEFINE t == Seen(query[r], members, next)
    <3>5. t = Seen(query[r], members, next)
      OBVIOUS
    <3> HIDE DEF t
    <3>6. t \in QueryRecord /\ Open(t) /\ Halfway(t, next, ordered)
      BY <3>2, <3>3, <3>4, <3>5, OthersKeep, Zenon
    <3> QED
      BY <3>1, <3>5, <3>6 DEF FineQuery, Open
  <2> QED
    BY <2>1, <2>2, <2>3
<1>4. query' \in [Queriers -> {NoQuery} \cup QueryRecord]
  <2>1. query' = [r \in Queriers |-> query'[r]]
    BY <1>1
  <2> QED
    BY <1>3, <2>1
<1> QED
  BY <1>1, <1>2, <1>3, <1>4 DEF QueryInv

(* To leave the collection alone is one of these changes.                  *)
LEMMA NothingChanges ==
    ASSUME QueryInv
    PROVE  GoodChange(members, members, ordered)
BY DEF GoodChange, QueryInv

(* A call that is not over.                                                *)
LEMMA BusyIs ==
    ASSUME QueryInv, NEW q \in Queriers, Busy(q)
    PROVE  query[q] \in QueryRecord /\ query[q].at # "end" /\ Halfway(query[q], members, ordered)
<1>1. query[q] # NoQuery /\ query[q].at # "end"
  BY DEF Busy, NoQuery
<1> QED
  BY <1>1 DEF QueryInv, FineQuery

LEMMA FieldsOf ==
    ASSUME NEW o \in QueryRecord
    PROVE  /\ o.left \in Seq(Members) /\ o.values \in Seq(Members) /\ o.chunk \in Positive /\ o.offset \in Positive
           /\ o.got \in Seq(Members) /\ o.old \in Seq(Members) /\ o.after \in Seq(Members)
           /\ o.grew \in BOOLEAN /\ o.lost \in BOOLEAN
BY DEF QueryRecord

(* One more value is done.                                                 *)
LEMMA OneMore ==
    ASSUME NEW X, NEW did \in Seq(X), NEW left \in Seq(X), left # <<>>
    PROVE  /\ Head(left) \in X /\ Tail(left) \in Seq(X) /\ Append(did, Head(left)) \in Seq(X)
           /\ did \o left = Append(did, Head(left)) \o Tail(left)
<1> DEFINE a == did \o left
           b == Append(did, Head(left)) \o Tail(left)
<1>1. /\ Head(left) \in X /\ Tail(left) \in Seq(X) /\ Append(did, Head(left)) \in Seq(X) /\ Len(left) >= 1
      /\ Head(left) = left[1] /\ Len(Tail(left)) = Len(left) - 1 /\ \A i \in 1..Len(left) - 1 : Tail(left)[i] = left[i + 1]
  OBVIOUS
<1>2. a \in Seq(X) /\ b \in Seq(X) /\ Len(a) = Len(did) + Len(left) /\ Len(b) = Len(did) + Len(left)
  BY <1>1
<1>3. ASSUME NEW i \in 1..Len(did) + Len(left) PROVE a[i] = b[i]
  <2>1. CASE i <= Len(did)
    BY <2>1, <1>1
  <2>2. CASE i = Len(did) + 1
    BY <2>2, <1>1
  <2>3. CASE i > Len(did) + 1
    <3>1. a[i] = left[i - Len(did)]
      BY <2>3
    <3>2. b[i] = Tail(left)[i - (Len(did) + 1)] /\ i - (Len(did) + 1) \in 1..Len(left) - 1
      BY <2>3, <1>1
    <3> QED
      BY <3>1, <3>2, <1>1
  <2> QED
    BY <2>1, <2>2, <2>3
<1>4. a = b
  <2> HIDE DEF a, b
  <2> QED
    BY <1>2, <1>3
<1> QED
  BY <1>1, <1>4

(* A call that ends keeps the invariant when what it tells of itself is    *)
(* true.                                                                   *)
LEMMA EndKeeps ==
    ASSUME QueryInv, NEW q \in Queriers, Busy(q), NEW outcome \in {"ok", "failed"}, Same(q, EndQuery(q, outcome)),
           outcome = "ok" => \A mine : mine = EndQuery(q, outcome) => AtomicEnd(mine, ordered) /\ WholeEnd(mine, ordered)
    PROVE  QueryInv'
<1> DEFINE mine == EndQuery(q, outcome)
<1>1. query[q] \in QueryRecord /\ members \in Seq(Members)
  BY BusyIs DEF QueryInv
<1>2. mine \in QueryRecord /\ mine.at = "end" /\ mine.outcome = outcome
  BY <1>1 DEF EndQuery, QueryRecord
<1>3. AtomicEnd(mine, ordered) /\ WholeEnd(mine, ordered)
  <2>1. CASE outcome = "ok"
    BY <2>1
  <2>2. CASE outcome # "ok"
    <3> HIDE DEF mine
    <3> QED
      BY <2>2, <1>2 DEF AtomicEnd, WholeEnd
  <2> QED
    BY <2>1, <2>2
<1>4. Change(q, members, mine)
  BY DEF Same
<1> HIDE DEF mine
<1>5. FineQuery(mine, members, ordered)
  BY <1>2, <1>3 DEF FineQuery
<1> QED
  BY <1>2, <1>4, <1>5, NothingChanges, ChangeKeeps, Zenon

(* The steps: a call fails, addAll or removeAll has no value left, clear   *)
(* sends its one script.                                                   *)
LEMMA QueryFailsKeeps == ASSUME QueryInv, NEW q \in Queriers, QueryFails(q) PROVE QueryInv'
<1>1. Busy(q) /\ Same(q, EndQuery(q, "failed"))
  BY DEF QueryFails
<1>2. "failed" # "ok"
  OBVIOUS
<1> QED
  BY <1>1, <1>2, EndKeeps

LEMMA AllDoneKeeps == ASSUME QueryInv, NEW q \in Queriers, AllDone(q) PROVE QueryInv'
<1> DEFINE o == query[q]
<1>1. /\ Busy(q) /\ o.at = "next" /\ o.call \in {"addAll", "replaceAll", "removeAll"} /\ o.left = <<>>
      /\ Same(q, EndQuery(q, "ok"))
  BY DEF AllDone, Done
<1>2. o \in QueryRecord /\ Halfway(o, members, ordered)
  BY <1>1, BusyIs
<1>3. ASSUME NEW mine, mine = EndQuery(q, "ok") PROVE AtomicEnd(mine, ordered) /\ WholeEnd(mine, ordered)
  <2>1. mine = [o EXCEPT !.at = "end", !.outcome = "ok", !.after = members]
    BY <1>3 DEF EndQuery
  <2> HIDE DEF o
  <2>2. /\ mine.call = o.call /\ mine.values = o.values /\ mine.got = o.got /\ mine.old = o.old
        /\ mine.after = members /\ mine.grew = o.grew /\ mine.lost = o.lost /\ mine.at = "end"
    BY <1>2, <2>1 DEF QueryRecord
  <2>3. WholeEnd(mine, ordered)
    BY <1>1, <2>2 DEF WholeEnd
  <2>4. ASSUME Calm(o)
        PROVE  /\ o.call = "removeAll" => members = WithoutEach(o.old, o.values) /\ Len(members) + Len(o.got) = Len(o.old)
               /\ o.call \in {"addAll", "replaceAll"} =>
                    IF ordered THEN members = BaseOf(o) \o o.values
                    ELSE IsInjective(members) /\ Range(members) = Range(BaseOf(o)) \cup Range(o.values)
    <3>1. PICK did \in Seq(Members) : o.values = did \o o.left /\ QueryEffect(o, did, members, ordered)
      BY <1>2, <2>4 DEF Halfway
    <3>2. o.values = did
      <4>1. did \o <<>> = did
        OBVIOUS
      <4> QED
        BY <3>1, <1>1, <4>1
    <3>3. QueryEffect(o, o.values, members, ordered)
      BY <3>1, <3>2
    <3>4. ordered \in BOOLEAN /\ (~ordered => IsInjective(members))
      BY DEF QueryInv
    <3> QED
      BY <3>3, <3>4, <1>1 DEF QueryEffect
  <2>5. AtomicEnd(mine, ordered)
    BY <1>1, <2>2, <2>4 DEF AtomicEnd, Calm, BaseOf
  <2> QED
    BY <2>3, <2>5
<1> HIDE DEF o
<1> QED
  BY <1>1, <1>3, EndKeeps

LEMMA ClearAllKeeps == ASSUME QueryInv, NEW q \in Queriers, ClearAll(q) PROVE QueryInv'
<1> DEFINE o == query[q]
           mine == [o EXCEPT !.at = "next"]
<1>1. Busy(q) /\ o.at = "clear" /\ Change(q, <<>>, mine)
  BY DEF ClearAll
<1>2. o \in QueryRecord /\ Halfway(o, members, ordered)
  BY <1>1, BusyIs
<1>3. GoodChange(members, <<>>, ordered)
  <2>1. members \in Seq(Members) /\ <<>> \in Seq(Members) /\ Len(<<>>) = 0
    BY DEF QueryInv
  <2>2. IsInjective(<<>>)
    BY DEF IsInjective
  <2>3. <<>> = members \/ Len(<<>>) # Len(members)
    BY <2>1
  <2>4. ~ (Len(<<>>) > Len(members))
    BY <2>1
  <2> QED
    BY <2>1, <2>2, <2>3, <2>4 DEF GoodChange
<1> HIDE DEF o
<1>4. /\ mine \in QueryRecord /\ mine.at = "next" /\ mine.call = o.call /\ mine.values = o.values /\ mine.left = o.left
      /\ mine.grew = o.grew /\ mine.lost = o.lost
  BY <1>2 DEF QueryRecord
<1> HIDE DEF mine
<1>5. o.call = "replaceAll" /\ mine.call = "replaceAll"
  BY <1>1, <1>2, <1>4 DEF Halfway
<1>6. PICK did \in Seq(Members) : o.values = did \o o.left /\ (Calm(o) => QueryEffect(o, did, members, ordered))
  BY <1>2 DEF Halfway
<1>7. Calm(mine) => QueryEffect(mine, did, <<>>, ordered)
  <2>1. SUFFICES ASSUME Calm(mine) PROVE QueryEffect(mine, did, <<>>, ordered)
    OBVIOUS
  <2>2. did = <<>>
    BY <2>1, <1>1, <1>4, <1>6 DEF Calm, QueryEffect
  <2>3. <<>> = BaseOf(mine) \o did /\ Range(<<>>) = Range(BaseOf(mine)) \cup Range(did)
    BY <2>2, <1>5 DEF BaseOf, Range
  <2> QED
    BY <2>3, <1>4, <1>5 DEF QueryEffect
<1>8. Halfway(mine, <<>>, ordered)
  BY <1>4, <1>5, <1>6, <1>7 DEF Halfway
<1>9. FineQuery(mine, <<>>, ordered)
  BY <1>4, <1>8 DEF FineQuery
<1> QED
  BY <1>1, <1>3, <1>4, <1>9, ChangeKeeps, Zenon

(* The next value is done, and the collection is `next'.                   *)
LEMMA NextDone ==
    ASSUME QueryInv, NEW q \in Queriers, Busy(q), NEW mine, NEW gets \in Seq(Members), NEW next,
           query[q].left # <<>>, query[q].at # "clear", query[q].call # "iter",
           mine = [NextValue(q) EXCEPT !.got = gets], Change(q, next, mine), GoodChange(members, next, ordered),
           \A did \in Seq(Members) : Calm(query[q]) /\ QueryEffect(query[q], did, members, ordered) =>
             QueryEffect(mine, Append(did, Head(query[q].left)), next, ordered)
    PROVE  QueryInv'
<1> DEFINE o == query[q]
<1>1. o \in QueryRecord /\ Halfway(o, members, ordered)
  BY BusyIs
<1>2. mine = [[o EXCEPT !.at = "next", !.left = Tail(@)] EXCEPT !.got = gets]
  BY DEF NextValue
<1>3. o.left # <<>> /\ o.at # "clear" /\ o.call # "iter"
  OBVIOUS
<1>4. \A did \in Seq(Members) : Calm(o) /\ QueryEffect(o, did, members, ordered) => QueryEffect(mine, Append(did, Head(o.left)), next, ordered)
  OBVIOUS
<1> HIDE DEF o
<1>5. o.left \in Seq(Members) /\ Tail(o.left) \in Seq(Members)
  BY <1>1, <1>3, FieldsOf
<1>6. /\ mine \in QueryRecord /\ mine.at = "next" /\ mine.call = o.call /\ mine.values = o.values /\ mine.left = Tail(o.left)
      /\ mine.grew = o.grew /\ mine.lost = o.lost
  BY <1>1, <1>2, <1>5 DEF QueryRecord
<1>7. PICK did \in Seq(Members) : o.values = did \o o.left /\ (Calm(o) => QueryEffect(o, did, members, ordered))
  BY <1>1 DEF Halfway
<1> DEFINE more == Append(did, Head(o.left))
<1>8. more \in Seq(Members) /\ o.values = more \o Tail(o.left)
  BY <1>3, <1>5, <1>7, OneMore
<1>9. Calm(mine) => QueryEffect(mine, more, next, ordered)
  BY <1>4, <1>6, <1>7 DEF Calm
<1> HIDE DEF more
<1>10. Halfway(mine, next, ordered)
  BY <1>3, <1>6, <1>8, <1>9 DEF Halfway
<1>11. FineQuery(mine, next, ordered)
  BY <1>6, <1>10 DEF FineQuery
<1> QED
  BY <1>6, <1>11, ChangeKeeps

(* A sequence and one element more.                                        *)
LEMMA AppendIs ==
    ASSUME NEW X, NEW a \in Seq(X), NEW b \in Seq(X), NEW v \in X
    PROVE  /\ a \o Append(b, v) = Append(a \o b, v)
           /\ Range(Append(a, v)) = Range(a) \cup {v}
           /\ Append(a, v) \in Seq(X) /\ Len(Append(a, v)) = Len(a) + 1 /\ IsPrefix(a, Append(a, v))
<1>1. Append(a, v) \in Seq(X) /\ Len(Append(a, v)) = Len(a) + 1 /\ Append(a, v)[Len(a) + 1] = v
      /\ \A i \in 1..Len(a) : Append(a, v)[i] = a[i]
  OBVIOUS
<1>2. a \o Append(b, v) = Append(a \o b, v)
  OBVIOUS
<1>3. IsPrefix(a, Append(a, v))
  <2> DEFINE c == Append(a, v)
  <2>1. c \in Seq(X) /\ Len(a) <= Len(c) /\ \A i \in 1..Len(a) : a[i] = c[i]
    BY <1>1
  <2> HIDE DEF c
  <2>2. IsPrefix(a, c)
    BY <2>1, PrefixIs
  <2> QED
    BY <2>2 DEF c
<1>4. Range(Append(a, v)) = Range(a) \cup {v}
  <2> DEFINE c == Append(a, v)
  <2>1. DOMAIN c = 1..Len(a) + 1 /\ DOMAIN a = 1..Len(a)
    BY <1>1
  <2> HIDE DEF c
  <2>2. c[Len(a) + 1] = v /\ \A i \in 1..Len(a) : c[i] = a[i]
    BY <1>1 DEF c
  <2>3. Range(c) = Range(a) \cup {v}
    BY <2>1, <2>2 DEF Range
  <2> QED
    BY <2>3 DEF c
<1> QED
  BY <1>1, <1>2, <1>3, <1>4

(* addAll sends the next value.                                            *)
LEMMA AddNextKeeps == ASSUME QueryInv, NEW q \in Queriers, AddNext(q) PROVE QueryInv'
<1> DEFINE o == query[q]
           v == Head(o.left)
<1>1. Busy(q) /\ o.call \in {"addAll", "replaceAll"} /\ o.at = "next" /\ o.left # <<>>
  BY DEF AddNext
<1>2. PICK next \in Added(v) : Change(q, next, NextValue(q))
  BY DEF AddNext
<1>3. o \in QueryRecord
  BY <1>1, BusyIs
<1>4. o.left \in Seq(Members) /\ v \in Members /\ o.got \in Seq(Members) /\ o.old \in Seq(Members)
  BY <1>1, <1>3, FieldsOf
<1>5. members \in Seq(Members) /\ ordered \in BOOLEAN /\ (~ordered => IsInjective(members))
  BY DEF QueryInv
<1>6. /\ next \in Seq(Members) /\ (~ordered => IsInjective(next))
      /\ next = members \/ Len(next) > Len(members)
      /\ ordered => next = Append(members, v) /\ IsPrefix(members, next)
      /\ Range(next) = Range(members) \cup {v}
  <2> HIDE DEF v
  <2>1. CASE ordered
    <3>1. next = Append(members, v)
      BY <1>2, <2>1 DEF Added
    <3> QED
      BY <2>1, <3>1, <1>4, <1>5, AppendIs
  <2>2. CASE ~ordered /\ v \in Range(members)
    <3>1. next = members
      BY <1>2, <2>2 DEF Added
    <3> QED
      BY <2>2, <3>1, <1>5
  <2>3. CASE ~ordered /\ v \notin Range(members)
    <3>1. next \in Orders(Range(members) \cup {v})
      BY <1>2, <2>3 DEF Added
    <3>2. next \in Seq(Members) /\ IsInjective(next) /\ Range(next) = Range(members) \cup {v} /\ Len(next) > Len(members)
      BY <2>3, <3>1, <1>4, <1>5, AddedToSet
    <3> QED
      BY <2>3, <3>2
  <2> QED
    BY <2>1, <2>2, <2>3
<1>7. GoodChange(members, next, ordered)
  <2>1. Len(next) \in Nat /\ Len(members) \in Nat
    BY <1>5, <1>6
  <2>2. next = members \/ Len(next) # Len(members)
    BY <1>6, <2>1
  <2> QED
    BY <1>6, <2>2 DEF GoodChange
<1> DEFINE mine == [NextValue(q) EXCEPT !.got = o.got]
<1>8. mine = NextValue(q) /\ mine.old = o.old /\ mine.call = o.call /\ mine.at = "next"
  BY <1>3, <1>4 DEF NextValue, QueryRecord
<1>9. ASSUME NEW did \in Seq(Members), Calm(o), QueryEffect(o, did, members, ordered)
      PROVE  QueryEffect(mine, Append(did, v), next, ordered)
  <2> HIDE DEF v, mine, o
  <2>1. IF ordered THEN members = BaseOf(o) \o did ELSE Range(members) = Range(BaseOf(o)) \cup Range(did)
    BY <1>1, <1>9 DEF QueryEffect
  <2>2. BaseOf(mine) = BaseOf(o) /\ BaseOf(o) \in Seq(Members)
    BY <1>4, <1>8 DEF BaseOf
  <2>3. BaseOf(o) \o Append(did, v) = Append(BaseOf(o) \o did, v) /\ Range(Append(did, v)) = Range(did) \cup {v}
    BY <1>4, <2>2, AppendIs
  <2>4. IF ordered THEN next = BaseOf(mine) \o Append(did, v) ELSE Range(next) = Range(BaseOf(mine)) \cup Range(Append(did, v))
    BY <1>5, <1>6, <2>1, <2>2, <2>3
  <2> QED
    BY <1>1, <1>8, <2>4 DEF QueryEffect
<1>10. Change(q, next, mine)
  BY <1>2, <1>8
<1> HIDE DEF mine
<1>11. mine = [NextValue(q) EXCEPT !.got = o.got]
  BY DEF mine
<1> QED
  BY <1>1, <1>4, <1>7, <1>9, <1>10, <1>11, NextDone

(* removeAll asks whether the next value is there, and removes it if it    *)
(* was.                                                                    *)
LEMMA RemoveAsksKeeps == ASSUME QueryInv, NEW q \in Queriers, RemoveAsks(q) PROVE QueryInv'
<1> DEFINE o == query[q]
           v == Head(o.left)
<1>1. Busy(q) /\ o.call = "removeAll" /\ o.at = "next" /\ o.left # <<>>
  BY DEF RemoveAsks
<1>2. o \in QueryRecord /\ Halfway(o, members, ordered)
  BY <1>1, BusyIs
<1>3. o.left \in Seq(Members) /\ v \in Members /\ o.got \in Seq(Members) /\ o.old \in Seq(Members)
  BY <1>1, <1>2, FieldsOf
<1>4. members \in Seq(Members) /\ GoodChange(members, members, ordered)
  BY NothingChanges DEF QueryInv
<1>5. CASE v \in Range(members)
  <2> DEFINE mine == [o EXCEPT !.at = "remove"]
  <2>1. Change(q, members, mine)
    BY <1>5 DEF RemoveAsks, Same
  <2> HIDE DEF o
  <2>2. /\ mine \in QueryRecord /\ mine.at = "remove" /\ mine.call = o.call /\ mine.values = o.values /\ mine.left = o.left
        /\ mine.grew = o.grew /\ mine.lost = o.lost /\ mine.old = o.old /\ mine.got = o.got
    BY <1>2 DEF QueryRecord
  <2> HIDE DEF mine, v
  <2>3. PICK did \in Seq(Members) : o.values = did \o o.left /\ (Calm(o) => QueryEffect(o, did, members, ordered))
    BY <1>2 DEF Halfway
  <2>4. Calm(mine) => QueryEffect(mine, did, members, ordered)
    BY <1>1, <1>5, <2>2, <2>3 DEF Calm, QueryEffect, v
  <2>5. Halfway(mine, members, ordered)
    BY <1>1, <2>2, <2>3, <2>4 DEF Halfway
  <2>6. FineQuery(mine, members, ordered)
    BY <2>2, <2>5 DEF FineQuery
  <2> QED
    BY <1>4, <2>1, <2>2, <2>6, ChangeKeeps
<1>6. CASE v \notin Range(members)
  <2> DEFINE mine == [NextValue(q) EXCEPT !.got = o.got]
  <2>1. mine = NextValue(q) /\ mine.old = o.old /\ mine.call = o.call /\ mine.at = "next" /\ mine.got = o.got
    BY <1>2, <1>3 DEF NextValue, QueryRecord
  <2>2. Change(q, members, mine)
    BY <1>6, <2>1 DEF RemoveAsks, Same
  <2>3. ASSUME NEW did \in Seq(Members), Calm(o), QueryEffect(o, did, members, ordered)
        PROVE  QueryEffect(mine, Append(did, v), members, ordered)
    <3> HIDE DEF v, mine, o
    <3>1. members = WithoutEach(o.old, did) /\ Len(members) + Len(o.got) = Len(o.old)
      BY <1>1, <2>3 DEF QueryEffect
    <3>2. WithoutEach(o.old, Append(did, v)) = Without(members, v)
      BY <1>3, <3>1, WithoutAppend
    <3>3. Without(members, v) = members
      BY <1>6 DEF Without
    <3> QED
      BY <1>1, <2>1, <3>1, <3>2, <3>3 DEF QueryEffect
  <2> HIDE DEF mine
  <2>4. mine = [NextValue(q) EXCEPT !.got = o.got]
    BY DEF mine
  <2> QED
    BY <1>1, <1>3, <1>4, <2>2, <2>3, <2>4, NextDone
<1> QED
  BY <1>5, <1>6

LEMMA RemoveNextKeeps == ASSUME QueryInv, NEW q \in Queriers, RemoveNext(q) PROVE QueryInv'
<1> DEFINE o == query[q]
           v == Head(o.left)
<1>1. Busy(q) /\ o.at = "remove"
  BY DEF RemoveNext
<1>2. o \in QueryRecord /\ Halfway(o, members, ordered) /\ o.call = "removeAll"
  BY <1>1, BusyIs DEF Halfway
<1>3. CASE v \notin Range(members)
  <2>1. Same(q, EndQuery(q, "failed"))
    BY <1>3 DEF RemoveNext
  <2>2. "failed" # "ok"
    OBVIOUS
  <2> QED
    BY <1>1, <2>1, <2>2, EndKeeps
<1>4. CASE v \in Range(members)
  <2> DEFINE next == Without(members, v)
             mine == [NextValue(q) EXCEPT !.got = Append(@, v)]
  <2>1. Change(q, next, mine)
    BY <1>4 DEF RemoveNext
  <2>2. members \in Seq(Members)
    BY DEF QueryInv
  <2>3. o.left \in Seq(Members) /\ o.got \in Seq(Members) /\ o.old \in Seq(Members)
    BY <1>2, FieldsOf
  <2>4. v \in Members
    BY <1>4, <2>2 DEF Range
  <2>5. NextValue(q).got = o.got
    BY <1>2 DEF NextValue, QueryRecord
  <2>6. mine = [NextValue(q) EXCEPT !.got = Append(o.got, v)] /\ Append(o.got, v) \in Seq(Members)
    BY <2>3, <2>4, <2>5
  <2>7. mine.old = o.old /\ mine.call = o.call /\ mine.at = "next" /\ mine.got = Append(o.got, v)
    BY <1>2, <2>6 DEF NextValue, QueryRecord
  <2> HIDE DEF v
  <2>8. next \in Seq(Members) /\ Len(next) = Len(members) - 1 /\ (IsInjective(members) => IsInjective(next))
    BY <1>4, <2>2, WithoutIs
  <2>9. GoodChange(members, next, ordered)
    <3>1. Len(next) # Len(members) /\ ~ (Len(next) > Len(members))
      BY <2>2, <2>8
    <3> QED
      BY <2>8, <3>1 DEF GoodChange, QueryInv
  <2> HIDE DEF next, mine
  <2>10. CASE o.left # <<>>
    <3>1. ASSUME NEW did \in Seq(Members), Calm(o), QueryEffect(o, did, members, ordered)
          PROVE  QueryEffect(mine, Append(did, v), next, ordered)
      <4> HIDE DEF o
      <4>1. members = WithoutEach(o.old, did) /\ Len(members) + Len(o.got) = Len(o.old)
        BY <1>1, <1>2, <3>1 DEF QueryEffect
      <4>2. WithoutEach(o.old, Append(did, v)) = next
        BY <2>3, <2>4, <4>1, WithoutAppend DEF next
      <4>3. Len(next) + Len(Append(o.got, v)) = Len(o.old)
        <5>1. Len(Append(o.got, v)) = Len(o.got) + 1 /\ Len(o.got) \in Nat /\ Len(members) \in Nat /\ Len(o.old) \in Nat
          BY <2>2, <2>3, <2>4
        <5>2. Len(members) + Len(o.got) = Len(o.old) /\ Len(next) = Len(members) - 1
          BY <4>1, <2>8
        <5> DEFINE a == Len(members)
                   b == Len(o.got)
                   c == Len(Append(o.got, v))
                   d == Len(next)
        <5>3. c = b + 1 /\ a + b = Len(o.old) /\ d = a - 1 /\ a \in Nat /\ b \in Nat
          BY <5>1, <5>2
        <5> HIDE DEF a, b, c, d
        <5>4. d + c = Len(o.old)
          BY <5>3
        <5> QED
          BY <5>4 DEF c, d
      <4> QED
        BY <1>2, <2>7, <4>2, <4>3 DEF QueryEffect
    <3> QED
      BY <1>1, <1>2, <2>1, <2>6, <2>9, <2>10, <3>1, NextDone DEF v
  <2>11. o.left # <<>>
    BY <1>1, <1>2 DEF Halfway
  <2> QED
    BY <2>10, <2>11
<1> QED
  BY <1>3, <1>4

(* A chunk is a stretch of the collection, shorter than asked for only at  *)
(* its end.                                                                *)
LEMMA ChunkIs ==
    ASSUME NEW X, NEW s \in Seq(X), NEW offset \in Positive, NEW size \in Positive
    PROVE  LET items == ChunkFrom(s, offset, size)
           IN  /\ items \in Seq(X)
               /\ Len(items) = IF offset > Len(s) THEN 0
                               ELSE IF offset + size - 1 < Len(s) THEN size ELSE Len(s) - offset + 1
               /\ \A i \in 1..Len(items) : items[i] = s[offset + i - 1]
<1> DEFINE to == IF offset + size - 1 < Len(s) THEN offset + size - 1 ELSE Len(s)
           items == SubSeq(s, offset, to)
<1>1. Len(s) \in Nat /\ to \in Nat /\ to <= Len(s) /\ offset \in Nat /\ offset >= 1 /\ size \in Nat /\ size >= 1
  BY DEF Positive
<1>2. ChunkFrom(s, offset, size) = items
  BY DEF ChunkFrom
<1>3. /\ to = IF offset + size - 1 < Len(s) THEN offset + size - 1 ELSE Len(s)
  OBVIOUS
<1> HIDE DEF to
<1>4. items \in Seq(X) /\ Len(items) = (IF offset <= to THEN to - offset + 1 ELSE 0)
      /\ \A i \in 1..Len(items) : items[i] = s[offset + i - 1]
  <2>1. \A i \in offset..to : s[i] \in X
    BY <1>1
  <2>2. CASE offset <= to
    BY <1>1, <2>1, <2>2
  <2>3. CASE ~ (offset <= to)
    BY <1>1, <2>3
  <2> QED
    BY <2>2, <2>3
<1> HIDE DEF items
<1>5. Len(items) = IF offset > Len(s) THEN 0 ELSE IF offset + size - 1 < Len(s) THEN size ELSE Len(s) - offset + 1
  BY <1>1, <1>3, <1>4
<1> QED
  BY <1>2, <1>4, <1>5

(* iterate reads the next chunk, and ends with one that is not full.       *)
LEMMA IterNextKeeps == ASSUME QueryInv, NEW q \in Queriers, IterNext(q) PROVE QueryInv'
<1> DEFINE o == query[q]
           items == ChunkFrom(members, o.offset, o.chunk)
<1>1. Busy(q) /\ o.call = "iter" /\ o.at = "next"
  BY DEF IterNext
<1>2. o \in QueryRecord /\ Halfway(o, members, ordered)
  BY <1>1, BusyIs
<1>3. /\ o.offset \in Positive /\ o.chunk \in Positive /\ o.got \in Seq(Members) /\ o.old \in Seq(Members)
      /\ o.grew \in BOOLEAN /\ o.lost \in BOOLEAN
  BY <1>2, FieldsOf
<1>4. members \in Seq(Members) /\ ordered \in BOOLEAN /\ GoodChange(members, members, ordered)
  BY NothingChanges DEF QueryInv
<1>5. Same(q, IF items = <<>> THEN EndQuery(q, "ok") ELSE [o EXCEPT !.got = @ \o items, !.offset = @ + o.chunk])
  BY DEF IterNext
<1>6. /\ items \in Seq(Members)
      /\ Len(items) = IF o.offset > Len(members) THEN 0
                      ELSE IF o.offset + o.chunk - 1 < Len(members) THEN o.chunk ELSE Len(members) - o.offset + 1
      /\ \A i \in 1..Len(items) : items[i] = members[o.offset + i - 1]
  BY <1>3, <1>4, ChunkIs
<1> HIDE DEF items
<1>7. o.offset \in Nat /\ o.offset >= 1 /\ o.chunk \in Nat /\ o.chunk >= 1 /\ Len(members) \in Nat /\ Len(o.old) \in Nat
      /\ Len(o.got) \in Nat /\ Len(items) \in Nat
  BY <1>3, <1>4, <1>6 DEF Positive
<1>8. CASE items = <<>>
  <2>1. o.offset - 1 >= Len(members)
    <3>1. Len(items) = 0
      BY <1>8
    <3> QED
      BY <3>1, <1>6, <1>7
  <2>2. ASSUME NEW mine, mine = EndQuery(q, "ok") PROVE AtomicEnd(mine, ordered) /\ WholeEnd(mine, ordered)
    <3>1. mine = [o EXCEPT !.at = "end", !.outcome = "ok", !.after = members]
      BY <2>2 DEF EndQuery
    <3> HIDE DEF o
    <3>2. /\ mine.call = "iter" /\ mine.got = o.got /\ mine.old = o.old /\ mine.after = members
          /\ mine.grew = o.grew /\ mine.lost = o.lost
      BY <1>1, <1>2, <3>1 DEF QueryRecord
    <3>3. ASSUME ~o.lost, ordered \/ ~o.grew
          PROVE  IsPrefix(o.old, o.got) /\ Len(o.got) <= Len(members) /\ Len(o.old) <= Len(members)
      <4>1. HasRead(o, members)
        BY <1>1, <1>2, <3>3 DEF Halfway
      <4>2. Len(o.old) <= Len(members)
        BY <4>1 DEF HasRead, IsPrefix
      <4>3. Len(o.got) >= Len(o.old)
        BY <4>1, <4>2, <2>1, <1>7 DEF HasRead
      <4>4. \A i \in 1..Len(o.old) : o.got[i] = o.old[i]
        BY <4>1, <4>3, <1>7 DEF HasRead
      <4>5. IsPrefix(o.old, o.got)
        BY <4>3, <4>4, <1>3, PrefixIs
      <4> QED
        BY <4>1, <4>2, <4>5 DEF HasRead
    <3>4. ASSUME Calm(o) PROVE o.got = o.old /\ members = o.old
      <4>1. members = o.old
        BY <1>1, <1>2, <3>4 DEF Halfway
      <4>2. IsPrefix(o.old, o.got) /\ Len(o.got) <= Len(o.old)
        BY <3>3, <3>4, <4>1 DEF Calm
      <4>3. Len(o.old) = Len(o.got) /\ \A i \in 1..Len(o.old) : o.old[i] = o.got[i]
        BY <4>2, <1>3, <1>7, PrefixIs
      <4>4. o.got = o.old
        BY <4>3, <1>3
      <4> QED
        BY <4>1, <4>4
    <3>5. AtomicEnd(mine, ordered)
      BY <3>2, <3>4 DEF AtomicEnd, Calm
    <3>6. ASSUME ordered, ~o.lost
          PROVE  Len(o.got) - Len(o.old) <= Cardinality({i \in DOMAIN members : i > Len(o.old)})
      <4>1. Len(o.got) <= Len(members) /\ Len(o.old) <= Len(members)
        BY <3>3, <3>6
      <4> DEFINE a == Len(o.old) + 1
                 b == Len(members)
      <4>2. a \in Int /\ b \in Int
        BY <1>7
      <4>3. {i \in DOMAIN members : i > Len(o.old)} = a..b
        BY <1>4, <1>7
      <4>4. Cardinality(a..b) = IF a > b THEN 0 ELSE b - a + 1
        <5> HIDE DEF a, b
        <5> QED
          BY <4>2, FS_Interval
      <4>5. Cardinality(a..b) = Len(members) - Len(o.old)
        BY <4>1, <4>4, <1>7
      <4> DEFINE c == Cardinality({i \in DOMAIN members : i > Len(o.old)})
      <4>6. c = Len(members) - Len(o.old)
        BY <4>3, <4>5
      <4> HIDE DEF c
      <4>7. Len(o.got) - Len(o.old) <= c
        BY <4>1, <4>6, <1>7
      <4> QED
        BY <4>7 DEF c
    <3>7. WholeEnd(mine, ordered)
      BY <3>2, <3>3, <3>6 DEF WholeEnd
    <3> QED
      BY <3>5, <3>7
  <2>3. Same(q, EndQuery(q, "ok"))
    BY <1>5, <1>8
  <2> HIDE DEF o
  <2> QED
    BY <1>1, <2>2, <2>3, EndKeeps
<1>9. CASE items # <<>>
  <2> DEFINE mine == [o EXCEPT !.got = @ \o items, !.offset = @ + o.chunk]
  <2>1. Change(q, members, mine)
    BY <1>5, <1>9 DEF Same
  <2> HIDE DEF o
  <2>2. o.got \o items \in Seq(Members) /\ o.offset + o.chunk \in Positive
    BY <1>3, <1>6, <1>7 DEF Positive
  <2>3. /\ mine \in QueryRecord /\ mine.at = "next" /\ mine.call = "iter" /\ mine.values = o.values /\ mine.left = o.left
        /\ mine.grew = o.grew /\ mine.lost = o.lost /\ mine.old = o.old /\ mine.got = o.got \o items
        /\ mine.offset = o.offset + o.chunk
    BY <1>1, <1>2, <2>2 DEF QueryRecord
  <2> HIDE DEF mine
  <2>4. PICK did \in Seq(Members) : o.values = did \o o.left /\ (Calm(o) => QueryEffect(o, did, members, ordered))
    BY <1>2 DEF Halfway
  <2>5. QueryEffect(mine, did, members, ordered)
    BY <2>3 DEF QueryEffect
  <2>6. ASSUME ~o.lost, ordered \/ ~o.grew PROVE HasRead(mine, members)
    <3>1. HasRead(o, members)
      BY <1>1, <1>2, <2>6 DEF Halfway
    <3>10. o.got \in Seq(Members) /\ items \in Seq(Members)
      BY <1>3, <1>6
    <3>2. /\ Len(o.got \o items) = Len(o.got) + Len(items)
          /\ \A i \in 1..Len(o.got) : (o.got \o items)[i] = o.got[i]
          /\ \A i \in 1..Len(items) : (o.got \o items)[Len(o.got) + i] = items[i]
      BY <3>10, ConcatIs
    <3>11. /\ Len(o.got) <= Len(members) /\ Len(o.got) <= o.offset - 1
           /\ o.offset - 1 < Len(o.old) => Len(o.got) = o.offset - 1
           /\ o.offset - 1 >= Len(o.old) => Len(o.got) >= Len(o.old)
      BY <3>1 DEF HasRead
    <3>12. Len(items) = IF o.offset > Len(members) THEN 0
                        ELSE IF o.offset + o.chunk - 1 < Len(members) THEN o.chunk ELSE Len(members) - o.offset + 1
      BY <1>6
    <3>3. o.offset <= Len(members) /\ Len(items) >= 1
      <4>1. Len(items) # 0
        BY <1>6, <1>9
      <4> QED
        BY <4>1, <1>6, <1>7
    <3>4. Len(o.old) <= Len(members) /\ \A i \in 1..Len(o.old) : o.old[i] = members[i]
      BY <3>1, <1>3, <1>4, PrefixIs DEF HasRead
    <3>5. Len(o.got) + Len(items) <= Len(members) /\ Len(o.got) + Len(items) <= o.offset + o.chunk - 1
      BY <3>3, <3>11, <3>12, <1>7
    <3>6. o.offset + o.chunk - 1 < Len(o.old) => Len(o.got) + Len(items) = o.offset + o.chunk - 1
      BY <3>3, <3>4, <3>11, <3>12, <1>7
    <3>7. o.offset + o.chunk - 1 >= Len(o.old) => Len(o.got) + Len(items) >= Len(o.old)
      BY <3>3, <3>4, <3>11, <3>12, <1>7
    <3>8. ASSUME NEW i \in 1..Len(o.old), i <= Len(o.got) + Len(items) PROVE (o.got \o items)[i] = o.old[i]
      <4>1. CASE i <= Len(o.got)
        <5>1. (o.got \o items)[i] = o.got[i]
          BY <4>1, <3>2, <3>8, <1>7
        <5> QED
          BY <5>1, <4>1, <3>1 DEF HasRead
      <4>2. CASE i > Len(o.got)
        <5>1. (o.got \o items)[i] = items[i - Len(o.got)] /\ i - Len(o.got) \in 1..Len(items)
          <6> DEFINE j == i - Len(o.got)
          <6>1. j \in 1..Len(items) /\ i = Len(o.got) + j
            BY <4>2, <3>8, <1>7
          <6> HIDE DEF j
          <6>2. (o.got \o items)[i] = items[j]
            BY <6>1, <3>2
          <6> QED
            BY <6>1, <6>2, <1>7 DEF j
        <5>2. Len(o.got) = o.offset - 1
          BY <4>2, <3>11, <3>8, <1>7
        <5>3. items[i - Len(o.got)] = members[i]
          <6> DEFINE j == i - Len(o.got)
          <6>1. j \in 1..Len(items) /\ o.offset + j - 1 = i
            BY <5>1, <5>2, <1>7
          <6>2. items[j] = members[o.offset + j - 1]
            BY <6>1, <1>6
          <6> QED
            BY <6>1, <6>2
        <5> QED
          BY <5>1, <5>3, <3>4
      <4>3. i <= Len(o.got) \/ i > Len(o.got)
        BY <1>7
      <4> QED
        BY <4>1, <4>2, <4>3
    <3>9. Len(mine.got) = Len(o.got) + Len(items) /\ mine.offset - 1 = o.offset + o.chunk - 1
      BY <2>3, <3>2, <1>7
    <3> QED
      BY <2>3, <3>1, <3>5, <3>6, <3>7, <3>8, <3>9 DEF HasRead
  <2>7. o.call = "iter" /\ Calm(o) => members = o.old
    BY <1>2 DEF Halfway
  <2>8. Halfway(mine, members, ordered)
    BY <1>1, <2>3, <2>4, <2>5, <2>6, <2>7 DEF Halfway, Calm
  <2>9. FineQuery(mine, members, ordered)
    BY <2>3, <2>8 DEF FineQuery
  <2> QED
    BY <1>4, <2>1, <2>3, <2>9, ChangeKeeps
<1> QED
  BY <1>8, <1>9

(* A call begins.                                                          *)
LEMMA AskKeeps ==
    ASSUME QueryInv, NEW q \in Queriers, NEW call \in Queries[q], NEW values \in Seq(Members), NEW chunk \in Positive,
           Ask(q, call, values, chunk)
    PROVE  QueryInv'
<1> DEFINE mine == [at |-> IF call = "replaceAll" THEN "clear" ELSE "next", call |-> call, left |-> values, values |-> values,
                    chunk |-> chunk, offset |-> 1, got |-> <<>>, outcome |-> "busy",
                    old |-> members, after |-> members, grew |-> FALSE, lost |-> FALSE]
<1>1. query' = [query EXCEPT ![q] = mine] /\ members' = members /\ ordered' = ordered
  BY DEF Ask
<1>2. members \in Seq(Members) /\ ordered \in BOOLEAN /\ query \in [Queriers -> {NoQuery} \cup QueryRecord]
  BY DEF QueryInv
<1>3. /\ mine \in QueryRecord /\ mine.at = (IF call = "replaceAll" THEN "clear" ELSE "next") /\ mine.call = call
      /\ mine.left = values /\ mine.values = values /\ mine.got = <<>> /\ mine.old = members /\ mine.offset = 1
      /\ mine.grew = FALSE /\ mine.lost = FALSE
  BY <1>2 DEF QueryRecord, Positive
<1> HIDE DEF mine
<1>4. QueryEffect(mine, <<>>, members, ordered)
  <2>1. WithoutEach(members, <<>>) = members
    BY <1>2, NothingRemoved
  <2>2. members \o <<>> = members /\ Range(<<>>) = {} /\ Len(<<>>) = 0 /\ Len(members) \in Nat
    BY <1>2 DEF Range
  <2>3. mine.at # "clear" => mine.call # "replaceAll" /\ BaseOf(mine) = members
    BY <1>3 DEF BaseOf
  <2> QED
    BY <1>3, <2>1, <2>2, <2>3 DEF QueryEffect
<1>5. HasRead(mine, members)
  <2>1. IsPrefix(members, members)
    BY <1>2, PrefixIs
  <2>2. Len(<<>>) = 0 /\ Len(members) \in Nat
    BY <1>2
  <2> QED
    BY <1>3, <2>1, <2>2 DEF HasRead
<1>6. <<>> \in Seq(Members) /\ values = <<>> \o values
  OBVIOUS
<1>7. Halfway(mine, members, ordered)
  BY <1>3, <1>4, <1>5, <1>6 DEF Halfway
<1>8. FineQuery(mine, members, ordered) /\ mine # NoQuery
  BY <1>3, <1>7, NoQueryIsNone DEF FineQuery
<1>9. query' \in [Queriers -> {NoQuery} \cup QueryRecord]
  BY <1>1, <1>2, <1>3
<1>10. \A r \in Queriers : query'[r] # NoQuery => FineQuery(query'[r], members, ordered)
  BY <1>1, <1>2, <1>8 DEF QueryInv
<1> QED
  BY <1>1, <1>9, <1>10 DEF QueryInv

(* The invariant holds at the beginning, and tells what the runs ask of    *)
(* it.                                                                     *)
LEMMA QueryStarts == QueryInit => QueryInv
<1> SUFFICES ASSUME QueryInit PROVE QueryInv
  OBVIOUS
<1>1. ordered \in BOOLEAN /\ members \in Seq(Members) /\ (~ordered => IsInjective(members))
  BY QueryAssumption DEF QueryInit
<1>2. query = [q \in Queriers |-> NoQuery]
  BY DEF QueryInit
<1> QED
  BY <1>1, <1>2 DEF QueryInv

LEMMA QuerySteps == QueryInv /\ [QueryNext]_queryVars => QueryInv'
<1> SUFFICES ASSUME QueryInv, [QueryNext]_queryVars PROVE QueryInv'
  OBVIOUS
<1>1. CASE UNCHANGED queryVars
  BY <1>1 DEF queryVars, QueryInv
<1>2. ASSUME NEW q \in Queriers, QueryStep(q) PROVE QueryInv'
  <2>1. ASSUME NEW call \in Queries[q], NEW n \in Chunks, Ask(q, call, <<>>, n) PROVE QueryInv'
    <3>1. <<>> \in Seq(Members) /\ n \in Positive
      BY QueryAssumption DEF Positive
    <3> QED
      BY <2>1, <3>1, AskKeeps
  <2>2. ASSUME NEW call \in Queries[q], NEW values \in ValueLists, Ask(q, call, values, 1) PROVE QueryInv'
    <3>1. values \in Seq(Members) /\ 1 \in Positive
      BY QueryAssumption DEF Positive
    <3> QED
      BY <2>2, <3>1, AskKeeps
  <2> QED
    BY <1>2, <2>1, <2>2, QueryFailsKeeps, AllDoneKeeps, ClearAllKeeps, AddNextKeeps, RemoveAsksKeeps, RemoveNextKeeps,
       IterNextKeeps DEF QueryStep
<1> QED
  BY <1>1, <1>2 DEF QueryNext

LEMMA QueryHolds == QueryInv => QueriedAtomic /\ IterationIsWhole
<1> SUFFICES ASSUME QueryInv, NEW q \in Queriers PROVE AtomicEnd(query[q], ordered) /\ WholeEnd(query[q], ordered)
  BY DEF QueriedAtomic, IterationIsWhole, AtomicEnd, WholeEnd
<1>1. CASE query[q] = NoQuery
  BY <1>1 DEF NoQuery, AtomicEnd, WholeEnd
<1>2. CASE query[q] # NoQuery
  BY <1>2 DEF QueryInv, FineQuery, AtomicEnd, WholeEnd
<1> QED
  BY <1>1, <1>2

(* addAll, removeAll and replaceAll of a queried collection that no other  *)
(* changed anything under and that did not fail have the effect of one     *)
(* step, and an iteration by chunks hands out all there is; of an ordered  *)
(* collection that only grows it hands out what was there when it began,   *)
(* once and in order.                                                      *)
THEOREM QueriesAreAtomic == QuerySpec => [](QueriedAtomic /\ IterationIsWhole)
<1>1. QuerySpec => []QueryInv
  BY QueryStarts, QuerySteps, PTL DEF QuerySpec
<1> QED
  BY <1>1, QueryHolds, PTL

-----------------------------------------------------------------------------
(* The object log                                                          *)

KeptSteps(L, X, base, seq, S) ==
  /\ L \in [0..Len(seq) -> X]
  /\ L[0] = base
  /\ \A k \in 1..Len(seq) : L[k] = KeepIf(L[k - 1], seq[k], S)
  /\ FoldLeft(LAMBDA kept, each : KeepIf(kept, each, S), base, seq) = L[Len(seq)]

(* What Kept, Full and RemovedRows fold over the entries and the           *)
(* positions.                                                              *)
LEMMA KeptFold ==
    ASSUME NEW X, NEW E, NEW S, \A x \in X, e \in E : KeepIf(x, e, S) \in X, NEW base \in X, NEW seq \in Seq(E)
    PROVE  \E L : KeptSteps(L, X, base, seq, S)
<1> DEFINE n == Len(seq)
           G == [p \in X \X (1..n) |-> KeepIf(p[1], seq[p[2]], S)]
           Is(h) == h = [T \in SUBSET (DOMAIN seq) |->
                                   IF T = {} THEN base ELSE LET x == Max(T) IN KeepIf(h[T \ {x}], seq[x], S)]
           iter == CHOOSE h : Is(h)
<1>1. n \in Nat /\ DOMAIN seq = 1..n /\ \A k \in 1..n : seq[k] \in E
  OBVIOUS
<1>2. G \in [X \X (1..n) -> X]
  BY <1>1
<1> HIDE DEF n
<1>3. PICK h \in [SUBSET (1..n) -> X] :
        \A T \in SUBSET (1..n) : h[T] = IF T = {} THEN base ELSE G[<<h[T \ {Max(T)}], Max(T)>>]
  <2> HIDE DEF G
  <2>1. PICK h : FoldsOver(h, n, X, base, G)
    BY <1>1, <1>2, FoldDefined, Zenon
  <2> QED
    BY <2>1 DEF FoldsOver
<1>4. ASSUME NEW T \in SUBSET (1..n), T # {} PROVE G[<<h[T \ {Max(T)}], Max(T)>>] = KeepIf(h[T \ {Max(T)}], seq[Max(T)], S)
  <2>1. Max(T) \in 1..n
    BY <1>1, <1>4, MaxOf
  <2>2. h[T \ {Max(T)}] \in X
    BY <1>3
  <2> QED
    BY <2>1, <2>2
<1>5. Is(h)
  <2> HIDE DEF G
  <2> QED
    BY <1>1, <1>3, <1>4
<1>6. Is(iter)
  <2> HIDE DEF Is
  <2> QED
    BY <1>5, Zenon
<1>7. FoldLeft(LAMBDA kept, each : KeepIf(kept, each, S), base, seq) = iter[DOMAIN seq]
  BY Zenon DEF FoldLeft, MapThenFoldSet
<1> HIDE DEF iter
<1>8. ASSUME NEW T \in SUBSET (1..n) PROVE iter[T] = IF T = {} THEN base ELSE KeepIf(iter[T \ {Max(T)}], seq[Max(T)], S)
  BY <1>1, <1>6
<1> HIDE DEF Is, G
<1> DEFINE L == [k \in 0..n |-> iter[1..k]]
<1>9. L[0] = base
  <2>1. 1..0 = {} /\ 0 \in 0..n
    BY <1>1
  <2> QED
    BY <1>8, <2>1
<1>10. ASSUME NEW k \in 1..n PROVE L[k] = KeepIf(L[k - 1], seq[k], S)
  <2>1. 1..k # {} /\ 1..k \in SUBSET (1..n) /\ Max(1..k) = k /\ (1..k) \ {k} = 1..k - 1
    BY <1>1, FoldSteps
  <2>2. L[k] = iter[1..k] /\ L[k - 1] = iter[1..k - 1]
    BY <1>1
  <2>3. iter[1..k] = KeepIf(iter[(1..k) \ {Max(1..k)}], seq[Max(1..k)], S)
    BY <1>8, <2>1
  <2> QED
    BY <2>1, <2>2, <2>3
<1>11. L[n] = iter[DOMAIN seq]
  BY <1>1
<1> DEFINE P == {k \in Nat : k <= n => L[k] \in X}
<1> HIDE DEF L
<1>12. 0 \in P
  BY <1>9
<1>13. ASSUME NEW k \in Nat, k \in P PROVE k + 1 \in P
  <2>1. SUFFICES ASSUME k + 1 <= n PROVE L[k + 1] \in X
    OBVIOUS
  <2>2. L[k] \in X
    BY <1>1, <2>1, <1>13
  <2>3. k + 1 \in 1..n /\ (k + 1) - 1 = k
    BY <1>1, <2>1
  <2>4. L[k + 1] = KeepIf(L[k], seq[k + 1], S)
    BY <1>10, <2>3
  <2> QED
    BY <2>2, <2>3, <2>4, <1>1
<1>14. Nat \subseteq P
  <2> HIDE DEF P
  <2> QED
    BY <1>12, <1>13, NatSet
<1>15. L \in [0..n -> X]
  <2>1. \A k \in 0..n : L[k] \in X
    BY <1>1, <1>14
  <2>2. L = [k \in 0..n |-> L[k]]
    BY DEF L
  <2> QED
    BY <2>1, <2>2
<1> QED
  BY <1>15, <1>9, <1>10, <1>7, <1>11 DEF n, KeptSteps

VisitedSteps(L, X, base, seq, options) ==
  /\ L \in [0..Len(seq) -> X]
  /\ L[0] = base
  /\ \A k \in 1..Len(seq) : L[k] = Visited(L[k - 1], seq[k], options)
  /\ FoldLeft(LAMBDA rows, i : Visited(rows, i, options), base, seq) = L[Len(seq)]

LEMMA VisitedFold ==
    ASSUME NEW X, NEW E, NEW options, \A x \in X, e \in E : Visited(x, e, options) \in X, NEW base \in X, NEW seq \in Seq(E)
    PROVE  \E L : VisitedSteps(L, X, base, seq, options)
<1> DEFINE n == Len(seq)
           G == [p \in X \X (1..n) |-> Visited(p[1], seq[p[2]], options)]
           Is(h) == h = [T \in SUBSET (DOMAIN seq) |->
                                   IF T = {} THEN base ELSE LET x == Max(T) IN Visited(h[T \ {x}], seq[x], options)]
           iter == CHOOSE h : Is(h)
<1>1. n \in Nat /\ DOMAIN seq = 1..n /\ \A k \in 1..n : seq[k] \in E
  OBVIOUS
<1>2. G \in [X \X (1..n) -> X]
  BY <1>1
<1> HIDE DEF n
<1>3. PICK h \in [SUBSET (1..n) -> X] :
        \A T \in SUBSET (1..n) : h[T] = IF T = {} THEN base ELSE G[<<h[T \ {Max(T)}], Max(T)>>]
  <2> HIDE DEF G
  <2>1. PICK h : FoldsOver(h, n, X, base, G)
    BY <1>1, <1>2, FoldDefined, Zenon
  <2> QED
    BY <2>1 DEF FoldsOver
<1>4. ASSUME NEW T \in SUBSET (1..n), T # {} PROVE G[<<h[T \ {Max(T)}], Max(T)>>] = Visited(h[T \ {Max(T)}], seq[Max(T)], options)
  <2>1. Max(T) \in 1..n
    BY <1>1, <1>4, MaxOf
  <2>2. h[T \ {Max(T)}] \in X
    BY <1>3
  <2> QED
    BY <2>1, <2>2
<1>5. Is(h)
  <2> HIDE DEF G
  <2> QED
    BY <1>1, <1>3, <1>4
<1>6. Is(iter)
  <2> HIDE DEF Is
  <2> QED
    BY <1>5, Zenon
<1>7. FoldLeft(LAMBDA rows, i : Visited(rows, i, options), base, seq) = iter[DOMAIN seq]
  BY Zenon DEF FoldLeft, MapThenFoldSet
<1> HIDE DEF iter
<1>8. ASSUME NEW T \in SUBSET (1..n) PROVE iter[T] = IF T = {} THEN base ELSE Visited(iter[T \ {Max(T)}], seq[Max(T)], options)
  BY <1>1, <1>6
<1> HIDE DEF Is, G
<1> DEFINE L == [k \in 0..n |-> iter[1..k]]
<1>9. L[0] = base
  <2>1. 1..0 = {} /\ 0 \in 0..n
    BY <1>1
  <2> QED
    BY <1>8, <2>1
<1>10. ASSUME NEW k \in 1..n PROVE L[k] = Visited(L[k - 1], seq[k], options)
  <2>1. 1..k # {} /\ 1..k \in SUBSET (1..n) /\ Max(1..k) = k /\ (1..k) \ {k} = 1..k - 1
    BY <1>1, FoldSteps
  <2>2. L[k] = iter[1..k] /\ L[k - 1] = iter[1..k - 1]
    BY <1>1
  <2>3. iter[1..k] = Visited(iter[(1..k) \ {Max(1..k)}], seq[Max(1..k)], options)
    BY <1>8, <2>1
  <2> QED
    BY <2>1, <2>2, <2>3
<1>11. L[n] = iter[DOMAIN seq]
  BY <1>1
<1> DEFINE P == {k \in Nat : k <= n => L[k] \in X}
<1> HIDE DEF L
<1>12. 0 \in P
  BY <1>9
<1>13. ASSUME NEW k \in Nat, k \in P PROVE k + 1 \in P
  <2>1. SUFFICES ASSUME k + 1 <= n PROVE L[k + 1] \in X
    OBVIOUS
  <2>2. L[k] \in X
    BY <1>1, <2>1, <1>13
  <2>3. k + 1 \in 1..n /\ (k + 1) - 1 = k
    BY <1>1, <2>1
  <2>4. L[k + 1] = Visited(L[k], seq[k + 1], options)
    BY <1>10, <2>3
  <2> QED
    BY <2>2, <2>3, <2>4, <1>1
<1>14. Nat \subseteq P
  <2> HIDE DEF P
  <2> QED
    BY <1>12, <1>13, NatSet
<1>15. L \in [0..n -> X]
  <2>1. \A k \in 0..n : L[k] \in X
    BY <1>1, <1>14
  <2>2. L = [k \in 0..n |-> L[k]]
    BY DEF L
  <2> QED
    BY <2>1, <2>2
<1> QED
  BY <1>15, <1>9, <1>10, <1>7, <1>11 DEF n, VisitedSteps

RemovedSteps(L, X, base, seq) ==
  /\ L \in [0..Len(seq) -> X]
  /\ L[0] = base
  /\ \A k \in 1..Len(seq) : L[k] = RemoveIndex(L[k - 1], seq[k])
  /\ FoldLeft(RemoveIndex, base, seq) = L[Len(seq)]

LEMMA RemovedFold ==
    ASSUME NEW X, NEW E, \A x \in X, e \in E : RemoveIndex(x, e) \in X, NEW base \in X, NEW seq \in Seq(E)
    PROVE  \E L : RemovedSteps(L, X, base, seq)
<1> DEFINE n == Len(seq)
           G == [p \in X \X (1..n) |-> RemoveIndex(p[1], seq[p[2]])]
           Is(h) == h = [T \in SUBSET (DOMAIN seq) |->
                                   IF T = {} THEN base ELSE LET x == Max(T) IN RemoveIndex(h[T \ {x}], seq[x])]
           iter == CHOOSE h : Is(h)
<1>1. n \in Nat /\ DOMAIN seq = 1..n /\ \A k \in 1..n : seq[k] \in E
  OBVIOUS
<1>2. G \in [X \X (1..n) -> X]
  BY <1>1
<1> HIDE DEF n
<1>3. PICK h \in [SUBSET (1..n) -> X] :
        \A T \in SUBSET (1..n) : h[T] = IF T = {} THEN base ELSE G[<<h[T \ {Max(T)}], Max(T)>>]
  <2> HIDE DEF G
  <2>1. PICK h : FoldsOver(h, n, X, base, G)
    BY <1>1, <1>2, FoldDefined, Zenon
  <2> QED
    BY <2>1 DEF FoldsOver
<1>4. ASSUME NEW T \in SUBSET (1..n), T # {} PROVE G[<<h[T \ {Max(T)}], Max(T)>>] = RemoveIndex(h[T \ {Max(T)}], seq[Max(T)])
  <2>1. Max(T) \in 1..n
    BY <1>1, <1>4, MaxOf
  <2>2. h[T \ {Max(T)}] \in X
    BY <1>3
  <2> QED
    BY <2>1, <2>2
<1>5. Is(h)
  <2> HIDE DEF G
  <2> QED
    BY <1>1, <1>3, <1>4
<1>6. Is(iter)
  <2> HIDE DEF Is
  <2> QED
    BY <1>5, Zenon
<1>7. FoldLeft(RemoveIndex, base, seq) = iter[DOMAIN seq]
  BY Zenon DEF FoldLeft, MapThenFoldSet
<1> HIDE DEF iter
<1>8. ASSUME NEW T \in SUBSET (1..n) PROVE iter[T] = IF T = {} THEN base ELSE RemoveIndex(iter[T \ {Max(T)}], seq[Max(T)])
  BY <1>1, <1>6
<1> HIDE DEF Is, G
<1> DEFINE L == [k \in 0..n |-> iter[1..k]]
<1>9. L[0] = base
  <2>1. 1..0 = {} /\ 0 \in 0..n
    BY <1>1
  <2> QED
    BY <1>8, <2>1
<1>10. ASSUME NEW k \in 1..n PROVE L[k] = RemoveIndex(L[k - 1], seq[k])
  <2>1. 1..k # {} /\ 1..k \in SUBSET (1..n) /\ Max(1..k) = k /\ (1..k) \ {k} = 1..k - 1
    BY <1>1, FoldSteps
  <2>2. L[k] = iter[1..k] /\ L[k - 1] = iter[1..k - 1]
    BY <1>1
  <2>3. iter[1..k] = RemoveIndex(iter[(1..k) \ {Max(1..k)}], seq[Max(1..k)])
    BY <1>8, <2>1
  <2> QED
    BY <2>1, <2>2, <2>3
<1>11. L[n] = iter[DOMAIN seq]
  BY <1>1
<1> DEFINE P == {k \in Nat : k <= n => L[k] \in X}
<1> HIDE DEF L
<1>12. 0 \in P
  BY <1>9
<1>13. ASSUME NEW k \in Nat, k \in P PROVE k + 1 \in P
  <2>1. SUFFICES ASSUME k + 1 <= n PROVE L[k + 1] \in X
    OBVIOUS
  <2>2. L[k] \in X
    BY <1>1, <2>1, <1>13
  <2>3. k + 1 \in 1..n /\ (k + 1) - 1 = k
    BY <1>1, <2>1
  <2>4. L[k + 1] = RemoveIndex(L[k], seq[k + 1])
    BY <1>10, <2>3
  <2> QED
    BY <2>2, <2>3, <2>4, <1>1
<1>14. Nat \subseteq P
  <2> HIDE DEF P
  <2> QED
    BY <1>12, <1>13, NatSet
<1>15. L \in [0..n -> X]
  <2>1. \A k \in 0..n : L[k] \in X
    BY <1>1, <1>14
  <2>2. L = [k \in 0..n |-> L[k]]
    BY DEF L
  <2> QED
    BY <2>1, <2>2
<1> QED
  BY <1>15, <1>9, <1>10, <1>7, <1>11 DEF n, RemovedSteps

-----------------------------------------------------------------------------

(* What is kept of a sequence: of none, of one element more, of one after  *)
(* another.                                                                *)
LEMMA KeepIfIs ==
    ASSUME NEW X, NEW S, NEW x \in Seq(X), NEW e \in X
    PROVE  KeepIf(x, e, S) \in Seq(X)
BY DEF KeepIf

LEMMA KeptNone ==
    ASSUME NEW X, NEW S
    PROVE  Kept(<<>>, S) = <<>>
<1>1. \A x \in Seq(X), e \in X : KeepIf(x, e, S) \in Seq(X)
  BY KeepIfIs
<1>2. <<>> \in Seq(X) /\ Len(<<>>) = 0
  OBVIOUS
<1>3. PICK N : KeptSteps(N, Seq(X), <<>>, <<>>, S)
  BY <1>1, <1>2, KeptFold, Zenon
<1>4. N[0] = <<>> /\ Kept(<<>>, S) = N[Len(<<>>)]
  BY <1>3, Zenon DEF KeptSteps, Kept
<1> QED
  BY <1>2, <1>4

LEMMA KeptAppend ==
    ASSUME NEW X, NEW S, NEW did \in Seq(X), NEW v \in X
    PROVE  /\ Kept(did, S) \in Seq(X)
           /\ Kept(Append(did, v), S) = KeepIf(Kept(did, S), v, S)
<1> DEFINE n == Len(did)
           both == Append(did, v)
<1>1. /\ n \in Nat /\ both \in Seq(X) /\ Len(both) = n + 1 /\ both[n + 1] = v
      /\ \A k \in 1..n : both[k] = did[k]
  OBVIOUS
<1>2. \A x \in Seq(X), e \in X : KeepIf(x, e, S) \in Seq(X)
  BY KeepIfIs
<1>0. <<>> \in Seq(X)
  OBVIOUS
<1> HIDE DEF both
<1>31. PICK L : KeptSteps(L, Seq(X), <<>>, did, S)
  BY <1>0, <1>2, KeptFold, Zenon
<1>3. /\ L \in [0..n -> Seq(X)] /\ L[0] = <<>>
      /\ \A k \in 1..n : L[k] = KeepIf(L[k - 1], did[k], S)
      /\ Kept(did, S) = L[n]
  BY <1>31, Zenon DEF KeptSteps, Kept
<1>41. PICK M : KeptSteps(M, Seq(X), <<>>, both, S)
  BY <1>0, <1>1, <1>2, KeptFold, Zenon
<1>4. /\ M \in [0..Len(both) -> Seq(X)] /\ M[0] = <<>>
      /\ \A k \in 1..Len(both) : M[k] = KeepIf(M[k - 1], both[k], S)
      /\ Kept(both, S) = M[Len(both)]
  BY <1>41, Zenon DEF KeptSteps, Kept
<1> HIDE DEF n
<1> DEFINE G == [p \in Seq(X) \X (1..n) |-> KeepIf(p[1], did[p[2]], S)]
<1>5. StepsBy(L, n, G) /\ StepsBy(M, n, G)
  <2> SUFFICES ASSUME NEW k \in 1..n PROVE L[k] = G[<<L[k - 1], k>>] /\ M[k] = G[<<M[k - 1], k>>]
    BY DEF StepsBy
  <2>1. k - 1 \in 0..n /\ k \in 1..Len(both) /\ k - 1 \in 0..Len(both)
    BY <1>1
  <2>2. L[k - 1] \in Seq(X) /\ M[k - 1] \in Seq(X)
    BY <2>1, <1>3, <1>4
  <2>3. G[<<L[k - 1], k>>] = KeepIf(L[k - 1], did[k], S) /\ G[<<M[k - 1], k>>] = KeepIf(M[k - 1], did[k], S)
    BY <2>2
  <2>4. L[k] = KeepIf(L[k - 1], did[k], S) /\ M[k] = KeepIf(M[k - 1], both[k], S)
    BY <2>1, <1>3, <1>4
  <2> QED
    BY <2>3, <2>4, <1>1
<1>6. L[n] = M[n]
  <2> HIDE DEF G
  <2>0. n \in Nat /\ L[0] = M[0]
    BY <1>1, <1>3, <1>4
  <2>1. \A k \in 0..n : L[k] = M[k]
    BY <2>0, <1>5, ChainsAgree, Zenon
  <2> QED
    BY <1>1, <2>1
<1>7. M[n + 1] = KeepIf(M[n], v, S)
  <2>1. n + 1 \in 1..Len(both) /\ (n + 1) - 1 = n
    BY <1>1
  <2>2. M[n + 1] = KeepIf(M[(n + 1) - 1], both[n + 1], S)
    BY <1>4, <2>1
  <2> QED
    BY <1>1, <2>1, <2>2
<1>8. L[n] \in Seq(X)
  BY <1>1, <1>3
<1> QED
  BY <1>3, <1>4, <1>6, <1>7, <1>8, <1>1 DEF both

LEMMA KeptIn ==
    ASSUME NEW X, NEW S, NEW s \in Seq(X)
    PROVE  Kept(s, S) \in Seq(X)
<1>1. CASE X = {}
  <2>1. s = <<>> /\ <<>> \in Seq(X)
    BY <1>1
  <2> QED
    BY <2>1, KeptNone
<1>2. CASE X # {}
  BY <1>2, KeptAppend
<1> QED
  BY <1>1, <1>2

(* The first elements and one more.                                        *)
LEMMA FirstOnes ==
    ASSUME NEW X, NEW s \in Seq(X), NEW k \in Nat, k + 1 <= Len(s)
    PROVE  /\ SubSeq(s, 1, k) \in Seq(X) /\ Len(SubSeq(s, 1, k)) = k
           /\ Append(SubSeq(s, 1, k), s[k + 1]) = SubSeq(s, 1, k + 1)
<1> DEFINE a == SubSeq(s, 1, k)
           b == SubSeq(s, 1, k + 1)
<1>1. a \in Seq(X) /\ Len(a) = k /\ \A i \in 1..k : a[i] = s[i]
  OBVIOUS
<1>2. b \in Seq(X) /\ Len(b) = k + 1 /\ \A i \in 1..k + 1 : b[i] = s[i]
  OBVIOUS
<1>3. s[k + 1] \in X
  OBVIOUS
<1> HIDE DEF a, b
<1>4. Append(a, s[k + 1]) = b
  BY <1>1, <1>2, <1>3
<1> QED
  BY <1>1, <1>4 DEF a, b

(* Everything that is shown for a beginning and one element more.          *)
LEMMA SeqInduction ==
    ASSUME NEW X, NEW s \in Seq(X), NEW Good, <<>> \in Good,
           \A k \in 0..Len(s) - 1 : SubSeq(s, 1, k) \in Good => Append(SubSeq(s, 1, k), s[k + 1]) \in Good
    PROVE  s \in Good
<1> DEFINE P == {k \in Nat : k <= Len(s) => SubSeq(s, 1, k) \in Good}
<1>1. 0 \in P
  <2>1. SubSeq(s, 1, 0) = <<>>
    OBVIOUS
  <2> QED
    BY <2>1
<1>2. ASSUME NEW k \in Nat, k \in P PROVE k + 1 \in P
  <2>1. SUFFICES ASSUME k + 1 <= Len(s) PROVE SubSeq(s, 1, k + 1) \in Good
    OBVIOUS
  <2>2. k \in 0..Len(s) - 1 /\ SubSeq(s, 1, k) \in Good
    BY <1>2, <2>1
  <2>3. Append(SubSeq(s, 1, k), s[k + 1]) \in Good
    BY <2>2
  <2>4. Append(SubSeq(s, 1, k), s[k + 1]) = SubSeq(s, 1, k + 1)
    BY <2>1, FirstOnes
  <2> QED
    BY <2>3, <2>4
<1>3. Nat \subseteq P
  <2> HIDE DEF P
  <2> QED
    BY <1>1, <1>2, NatSet
<1>4. SubSeq(s, 1, Len(s)) = s /\ Len(s) \in Nat
  OBVIOUS
<1>5. SubSeq(s, 1, Len(s)) \in Good
  BY <1>3, <1>4
<1> QED
  BY <1>4, <1>5

Tacks(X, a, b, e) ==
  a \o Append(b, e) = Append(a \o b, e) /\ a \o b \in Seq(X) /\ Append(b, e) \in Seq(X)

(* An element behind two sequences.                                        *)
LEMMA ConcatAppend ==
    ASSUME NEW X, NEW a \in Seq(X), NEW b \in Seq(X), NEW e \in X
    PROVE  Tacks(X, a, b, e)
BY DEF Tacks

(* What is kept of two sequences, of one that is all to be kept, and of    *)
(* one element.                                                            *)
LEMMA KeptConcat ==
    ASSUME NEW X, NEW S, NEW s \in Seq(X), NEW t \in Seq(X)
    PROVE  Kept(s \o t, S) = Kept(s, S) \o Kept(t, S)
<1> DEFINE Good == {u \in Seq(X) : Kept(s \o u, S) = Kept(s, S) \o Kept(u, S)}
<1>1. <<>> \in Good
  <2>1. Kept(<<>>, S) = <<>> /\ s \o <<>> = s /\ Kept(s, S) \o <<>> = Kept(s, S)
    <3>1. Kept(s, S) \in Seq(X)
      BY KeptIn
    <3> QED
      BY <3>1, KeptNone
  <2>2. <<>> \in Seq(X)
    OBVIOUS
  <2>3. Kept(s \o <<>>, S) = Kept(s, S) \o Kept(<<>>, S)
    BY <2>1, Zenon
  <2> QED
    BY <2>2, <2>3, Zenon
<1>2. ASSUME NEW k \in 0..Len(t) - 1, SubSeq(t, 1, k) \in Good PROVE Append(SubSeq(t, 1, k), t[k + 1]) \in Good
  <2> DEFINE u == SubSeq(t, 1, k)
             e == t[k + 1]
  <2>1. u \in Seq(X) /\ e \in X /\ Kept(s \o u, S) = Kept(s, S) \o Kept(u, S)
    BY <1>2
  <2> HIDE DEF u, e
  <2>2. Append(u, e) \in Seq(X) /\ s \o Append(u, e) = Append(s \o u, e) /\ s \o u \in Seq(X)
    <3>1. Tacks(X, s, u, e)
      BY <2>1, ConcatAppend, Zenon
    <3> QED
      BY <3>1, Zenon DEF Tacks
  <2>3. Kept(Append(s \o u, e), S) = KeepIf(Kept(s \o u, S), e, S) /\ Kept(Append(u, e), S) = KeepIf(Kept(u, S), e, S)
    BY <2>1, <2>2, KeptAppend
  <2>4. Kept(s, S) \in Seq(X) /\ Kept(u, S) \in Seq(X)
    BY <2>1, KeptIn
  <2>5. KeepIf(Kept(s, S) \o Kept(u, S), e, S) = Kept(s, S) \o KeepIf(Kept(u, S), e, S)
    <3>1. Kept(s, S) \o Append(Kept(u, S), e) = Append(Kept(s, S) \o Kept(u, S), e)
      <4>1. Tacks(X, Kept(s, S), Kept(u, S), e)
        BY <2>1, <2>4, ConcatAppend, Zenon
      <4> QED
        BY <4>1, Zenon DEF Tacks
    <3> QED
      BY <3>1, Zenon DEF KeepIf
  <2>6. Kept(s \o Append(u, e), S) = Kept(s, S) \o Kept(Append(u, e), S)
    BY <2>1, <2>2, <2>3, <2>5
  <2>7. Append(u, e) \in Good
    BY <2>2, <2>6
  <2> QED
    BY <2>7 DEF u, e
<1>3. t \in Good
  <2> HIDE DEF Good
  <2> QED
    BY <1>1, <1>2, SeqInduction
<1> QED
  BY <1>3

LEMMA KeptAll ==
    ASSUME NEW X, NEW S, NEW s \in Seq(X), \A i \in 1..Len(s) : s[i] \in S
    PROVE  Kept(s, S) = s
<1> DEFINE Good == {u \in Seq(X) : Kept(u, S) = u}
<1>1. <<>> \in Good
  BY KeptNone
<1>2. ASSUME NEW k \in 0..Len(s) - 1, SubSeq(s, 1, k) \in Good PROVE Append(SubSeq(s, 1, k), s[k + 1]) \in Good
  <2> DEFINE u == SubSeq(s, 1, k)
             e == s[k + 1]
  <2>1. u \in Seq(X) /\ e \in X /\ e \in S /\ Kept(u, S) = u
    BY <1>2
  <2> HIDE DEF u, e
  <2>2. Append(u, e) \in Seq(X) /\ Kept(Append(u, e), S) = Append(u, e)
    BY <2>1, KeptAppend DEF KeepIf
  <2>3. Append(u, e) \in Good
    BY <2>2
  <2> QED
    BY <2>3 DEF u, e
<1>3. s \in Good
  <2> HIDE DEF Good
  <2> QED
    BY <1>1, <1>2, SeqInduction
<1> QED
  BY <1>3

LEMMA KeptOne ==
    ASSUME NEW X, NEW S, NEW e \in X
    PROVE  Kept(<<e>>, S) = IF e \in S THEN <<e>> ELSE <<>>
<1>1. <<>> \in Seq(X) /\ Append(<<>>, e) = <<e>>
  OBVIOUS
<1>2. Kept(Append(<<>>, e), S) = KeepIf(<<>>, e, S)
  BY <1>1, KeptAppend, KeptNone
<1> QED
  BY <1>1, <1>2 DEF KeepIf

-----------------------------------------------------------------------------

Entry == [label : Nat, priority : Priorities]
OwnLabels(s) == \A i, j \in 1..Len(s) : s[i].label = s[j].label => i = j
GoodLog(s, n) == s \in Seq(Entry) /\ OwnLabels(s) /\ \A i \in 1..Len(s) : s[i].label < n

(* Entries that are left out leave a log that was added to in order.       *)
LEMMA KeptGood ==
    ASSUME NEW n \in Nat, NEW s, GoodLog(s, n), NEW S
    PROVE  GoodLog(Kept(s, S), n)
<1> DEFINE Among(t, u) == \A i \in 1..Len(t) : \E j \in 1..Len(u) : t[i] = u[j]
           Good == {u \in Seq(Entry) : OwnLabels(u) => OwnLabels(Kept(u, S)) /\ Among(Kept(u, S), u)}
<1>0. s \in Seq(Entry) /\ OwnLabels(s)
  BY DEF GoodLog
<1>1. <<>> \in Good
  <2>1. Kept(<<>>, S) = <<>> /\ Len(<<>>) = 0 /\ <<>> \in Seq(Entry)
    BY KeptNone
  <2> QED
    BY <2>1 DEF OwnLabels
<1>2. ASSUME NEW k \in 0..Len(s) - 1, SubSeq(s, 1, k) \in Good PROVE Append(SubSeq(s, 1, k), s[k + 1]) \in Good
  <2> DEFINE u == SubSeq(s, 1, k)
             e == s[k + 1]
             v == Append(u, e)
             t == Kept(u, S)
  <2>1. u \in Seq(Entry) /\ e \in Entry /\ (OwnLabels(u) => OwnLabels(t) /\ Among(t, u))
    <3>1. u \in Seq(Entry) /\ e \in Entry
      BY <1>0
    <3>2. u \in Good
      BY <1>2
    <3> QED
      BY <3>1, <3>2
  <2> HIDE DEF u, e
  <2>2. v \in Seq(Entry) /\ Len(v) = Len(u) + 1 /\ v[Len(u) + 1] = e /\ \A i \in 1..Len(u) : v[i] = u[i]
    BY <2>1
  <2>3. t \in Seq(Entry) /\ Kept(v, S) = KeepIf(t, e, S)
    BY <2>1, KeptAppend
  <2> HIDE DEF t, v
  <2>4. ASSUME OwnLabels(v) PROVE OwnLabels(Kept(v, S)) /\ Among(Kept(v, S), v)
    <3>1. OwnLabels(u)
      BY <2>1, <2>2, <2>4 DEF OwnLabels
    <3>2. OwnLabels(t) /\ \A i \in 1..Len(t) : \E j \in 1..Len(u) : t[i] = v[j]
      BY <2>1, <2>2, <3>1
    <3>3. \A i \in 1..Len(t) : t[i].label # e.label
      <4> SUFFICES ASSUME NEW i \in 1..Len(t), t[i].label = e.label PROVE FALSE
        OBVIOUS
      <4>1. PICK j \in 1..Len(u) : t[i] = v[j]
        BY <3>2
      <4>2. j \in 1..Len(v) /\ Len(u) + 1 \in 1..Len(v) /\ j # Len(u) + 1 /\ v[j].label = v[Len(u) + 1].label
        BY <2>1, <2>2, <4>1
      <4> QED
        BY <4>2, <2>4 DEF OwnLabels
    <3>4. CASE e \notin S
      <4>1. Kept(v, S) = t
        BY <2>3, <3>4 DEF KeepIf
      <4>2. 1..Len(u) \subseteq 1..Len(v)
        BY <2>1, <2>2
      <4> QED
        BY <3>2, <4>1, <4>2
    <3>5. CASE e \in S
      <4> DEFINE w == Append(t, e)
      <4>1. Kept(v, S) = w
        BY <2>3, <3>5 DEF KeepIf
      <4>2. Len(w) = Len(t) + 1 /\ w[Len(t) + 1] = e /\ \A i \in 1..Len(t) : w[i] = t[i]
        BY <2>1, <2>3
      <4> HIDE DEF w
      <4>3. Len(t) \in Nat /\ Len(u) \in Nat
        BY <2>1, <2>3
      <4>4. OwnLabels(w)
        <5> SUFFICES ASSUME NEW i \in 1..Len(w), NEW j \in 1..Len(w), w[i].label = w[j].label PROVE i = j
          BY DEF OwnLabels
        <5>1. CASE i <= Len(t) /\ j <= Len(t)
          BY <5>1, <3>2, <4>2, <4>3 DEF OwnLabels
        <5>2. CASE i <= Len(t) /\ j = Len(t) + 1
          BY <5>2, <3>3, <4>2, <4>3
        <5>3. CASE j <= Len(t) /\ i = Len(t) + 1
          BY <5>3, <3>3, <4>2, <4>3
        <5> QED
          BY <5>1, <5>2, <5>3, <4>2, <4>3
      <4>5. Among(w, v)
        <5> SUFFICES ASSUME NEW i \in 1..Len(w) PROVE \E j \in 1..Len(v) : w[i] = v[j]
          OBVIOUS
        <5>1. CASE i <= Len(t)
          <6>1. PICK j \in 1..Len(u) : t[i] = v[j]
            BY <5>1, <3>2, <4>3
          <6> QED
            BY <5>1, <6>1, <2>2, <4>2, <4>3
        <5>2. CASE i = Len(t) + 1
          <6>1. Len(u) + 1 \in 1..Len(v)
            BY <2>2, <4>3
          <6> QED
            BY <5>2, <6>1, <2>2, <4>2
        <5> QED
          BY <5>1, <5>2, <4>2, <4>3
      <4> QED
        BY <4>1, <4>4, <4>5
    <3> QED
      BY <3>4, <3>5
  <2>5. v \in Good
    BY <2>2, <2>4
  <2> QED
    BY <2>5 DEF u, e, v
<1>3. s \in Good
  <2> HIDE DEF Good
  <2> QED
    BY <1>0, <1>1, <1>2, SeqInduction
<1>4. OwnLabels(Kept(s, S)) /\ Among(Kept(s, S), s) /\ Kept(s, S) \in Seq(Entry)
  BY <1>0, <1>3, KeptIn
<1>5. \A i \in 1..Len(Kept(s, S)) : Kept(s, S)[i].label < n
  BY <1>4 DEF GoodLog
<1> QED
  BY <1>4, <1>5 DEF GoodLog

(* The first and the last elements of a sequence, at most so many.         *)
Oldest(s, m) == IF Len(s) <= m THEN s ELSE SubSeq(s, 1, m)
Newest(s, m) == IF Len(s) <= m THEN s ELSE SubSeq(s, Len(s) - m + 1, Len(s))

LEMMA OldestGrows ==
    ASSUME NEW X, NEW s \in Seq(X), NEW e \in X, NEW m \in Nat
    PROVE  /\ Oldest(s, m) \in Seq(X)
           /\ Len(Oldest(s, m)) = IF Len(s) <= m THEN Len(s) ELSE m
           /\ Oldest(Append(s, e), m) = IF Len(Oldest(s, m)) >= m THEN Oldest(s, m) ELSE Append(Oldest(s, m), e)
<1> DEFINE n == Len(s)
           t == Append(s, e)
<1>1. n \in Nat /\ t \in Seq(X) /\ Len(t) = n + 1 /\ t[n + 1] = e /\ \A i \in 1..n : t[i] = s[i]
  OBVIOUS
<1>2. CASE n < m
  <2>1. Oldest(s, m) = s /\ Oldest(t, m) = t
    BY <1>1, <1>2 DEF Oldest
  <2> QED
    BY <2>1, <1>1, <1>2
<1>3. CASE n = m
  <2>1. SubSeq(t, 1, m) = s
    <3>1. SubSeq(t, 1, m) \in Seq(X) /\ Len(SubSeq(t, 1, m)) = m /\ \A i \in 1..m : SubSeq(t, 1, m)[i] = t[i]
      <4> HIDE DEF t, n
      <4> QED
        BY <1>1, <1>3
    <3> QED
      BY <3>1, <1>1, <1>3
  <2>2. Oldest(s, m) = s /\ Oldest(t, m) = SubSeq(t, 1, m)
    BY <1>1, <1>3 DEF Oldest
  <2> QED
    BY <2>1, <2>2, <1>1, <1>3
<1>4. CASE n > m
  <2> DEFINE a == SubSeq(s, 1, m)
             b == SubSeq(t, 1, m)
  <2>1. a \in Seq(X) /\ Len(a) = m /\ \A i \in 1..m : a[i] = s[i]
    BY <1>4
  <2>2. b \in Seq(X) /\ Len(b) = m /\ \A i \in 1..m : b[i] = t[i]
    <3> HIDE DEF t, n
    <3> QED
      BY <1>1, <1>4
  <2>3. a = b
    <3> HIDE DEF a, b, t, n
    <3>1. \A i \in 1..m : a[i] = b[i]
      BY <1>1, <1>4, <2>1, <2>2
    <3> QED
      BY <3>1, <2>1, <2>2
  <2>4. Oldest(s, m) = a /\ Oldest(t, m) = b
    BY <1>1, <1>4 DEF Oldest
  <2> HIDE DEF a, b
  <2> QED
    BY <2>1, <2>3, <2>4, <1>4
<1> QED
  BY <1>1, <1>2, <1>3, <1>4

LEMMA NewestGrows ==
    ASSUME NEW X, NEW s \in Seq(X), NEW e \in X, NEW m \in Nat
    PROVE  /\ Newest(s, m) \in Seq(X)
           /\ Len(Newest(s, m)) = IF Len(s) <= m THEN Len(s) ELSE m
           /\ Newest(<<e>> \o s, m) = IF Len(Newest(s, m)) >= m THEN Newest(s, m) ELSE <<e>> \o Newest(s, m)
<1> DEFINE n == Len(s)
           t == <<e>> \o s
<1>1. n \in Nat /\ t \in Seq(X) /\ Len(t) = n + 1 /\ \A i \in 1..n : t[i + 1] = s[i]
  OBVIOUS
<1>2. CASE n < m
  <2>1. Newest(s, m) = s /\ Newest(t, m) = t
    <3> HIDE DEF t
    <3> QED
      BY <1>1, <1>2 DEF Newest
  <2>2. Newest(<<e>> \o s, m) = <<e>> \o s
    BY <2>1
  <2>3. n <= m /\ ~ (n >= m)
    BY <1>1, <1>2
  <2>4. s \in Seq(X) /\ Len(s) = n
    OBVIOUS
  <2> HIDE DEF t, n
  <2> QED
    BY <2>1, <2>2, <2>3, <2>4, Zenon
<1>3. CASE n = m
  <2> DEFINE b == SubSeq(t, (n + 1) - m + 1, n + 1)
  <2>1. b = s
    <3> HIDE DEF t, n
    <3>1. (n + 1) - m + 1 = 2
      BY <1>1, <1>3
    <3>2. SubSeq(t, 2, n + 1) \in Seq(X) /\ Len(SubSeq(t, 2, n + 1)) = n /\ \A i \in 1..n : SubSeq(t, 2, n + 1)[i] = t[i + 1]
      BY <1>1
    <3>3. b \in Seq(X) /\ Len(b) = n /\ \A i \in 1..n : b[i] = t[i + 1]
      BY <3>1, <3>2
    <3>4. n = Len(s)
      BY DEF n
    <3> HIDE DEF b
    <3> QED
      BY <3>3, <3>4, <1>1
  <2>2. Newest(s, m) = s /\ Newest(t, m) = b
    <3> HIDE DEF t
    <3> QED
      BY <1>1, <1>3 DEF Newest
  <2> HIDE DEF b
  <2> QED
    BY <2>1, <2>2, <1>1, <1>3
<1>4. CASE n > m
  <2> DEFINE a == SubSeq(s, n - m + 1, n)
             b == SubSeq(t, (n + 1) - m + 1, n + 1)
  <2>1. a \in Seq(X) /\ Len(a) = m /\ \A i \in 1..m : a[i] = s[n - m + i]
    <3>1. n - m + 1 \in 1..n + 1 /\ n - (n - m + 1) + 1 = m
      BY <1>1, <1>4
    <3>2. a \in Seq(X) /\ Len(a) = m /\ \A i \in 1..m : a[i] = s[i + (n - m + 1) - 1]
      BY <3>1, <1>1, <1>4
    <3> HIDE DEF a
    <3> QED
      BY <3>2, <1>1
  <2>2. b \in Seq(X) /\ Len(b) = m /\ \A i \in 1..m : b[i] = t[n - m + i + 1]
    <3> HIDE DEF t, n
    <3>1. (n + 1) - m + 1 \in 1..(n + 1) + 1 /\ (n + 1) - ((n + 1) - m + 1) + 1 = m
      BY <1>1, <1>4
    <3>2. b \in Seq(X) /\ Len(b) = m /\ \A i \in 1..m : b[i] = t[i + ((n + 1) - m + 1) - 1]
      BY <3>1, <1>1, <1>4
    <3> HIDE DEF b
    <3> QED
      BY <3>2, <1>1
  <2>3. a = b
    <3> HIDE DEF a, b, t, n
    <3>1. \A i \in 1..m : a[i] = b[i]
      <4> SUFFICES ASSUME NEW i \in 1..m PROVE a[i] = b[i]
        OBVIOUS
      <4>1. n - m + i \in 1..n
        BY <1>1, <1>4
      <4> QED
        BY <4>1, <1>1, <2>1, <2>2
    <3> QED
      BY <3>1, <2>1, <2>2
  <2>4. Newest(s, m) = a /\ Newest(t, m) = b
    <3> HIDE DEF t
    <3> QED
      BY <1>1, <1>4 DEF Newest
  <2> HIDE DEF a, b
  <2> QED
    BY <2>1, <2>3, <2>4, <1>4
<1> QED
  BY <1>1, <1>2, <1>3, <1>4

-----------------------------------------------------------------------------

RowType == [label : Nat, priority : Priorities, index : Nat]
Rows(s) == [i \in DOMAIN s |-> [label |-> s[i].label, priority |-> s[i].priority, index |-> i - 1]]
Meant(s, p) == {r \in Range(Rows(s)) : p \in {Every, r.priority}}

(* The rows of the log are its entries with their positions.               *)
LEMMA RowsAre ==
    ASSUME NEW s \in Seq(Entry)
    PROVE  /\ Rows(s) \in Seq(RowType) /\ Len(Rows(s)) = Len(s)
           /\ \A i \in 1..Len(s) : Rows(s)[i] = [label |-> s[i].label, priority |-> s[i].priority, index |-> i - 1]
           /\ \A i \in 1..Len(s) : Rows(s)[i] \in Range(Rows(s))
<1>1. DOMAIN s = 1..Len(s) /\ Len(s) \in Nat /\ \A i \in 1..Len(s) : s[i] \in Entry
  OBVIOUS
<1>2. \A i \in 1..Len(s) : [label |-> s[i].label, priority |-> s[i].priority, index |-> i - 1] \in RowType
  BY <1>1 DEF Entry, RowType
<1>3. Rows(s) \in [1..Len(s) -> RowType]
  BY <1>1, <1>2 DEF Rows
<1>4. DOMAIN Rows(s) = 1..Len(s)
  BY <1>1 DEF Rows
<1>5. \A i \in 1..Len(s) : Rows(s)[i] \in Range(Rows(s))
  <2> HIDE DEF Rows
  <2> QED
    BY <1>4 DEF Range
<1>6. Rows(s) \in Seq(RowType) /\ Len(Rows(s)) = Len(s)
  <2> HIDE DEF Rows
  <2> QED
    BY <1>1, <1>3
<1> QED
  BY <1>1, <1>5, <1>6 DEF Rows

LEMMA MatchingRows ==
    ASSUME log \in Seq(Entry), NEW p, NEW i \in 1..Len(log)
    PROVE  Rows(log)[i] = Row(i) /\ (Matches(log[i], p) <=> Row(i) \in Meant(log, p))
<1>1. Rows(log)[i] = Row(i) /\ Row(i) \in Range(Rows(log))
  BY RowsAre DEF Row
<1>2. Row(i).priority = log[i].priority
  BY DEF Row
<1> QED
  BY <1>1, <1>2 DEF Meant, Matches

(* Reading from the oldest.                                                *)
LEMMA ReadsOldest ==
    ASSUME log \in Seq(Entry), NEW options \in ReadOptions, options.order = "oldest"
    PROVE  LET kept == Kept(Rows(log), Meant(log, options.priority))
           IN  ObjectLogEntries(options) = IF ReadLimit(options) = Limitless THEN kept ELSE Oldest(kept, ReadLimit(options))
<1> DEFINE S == Meant(log, options.priority)
           R == Rows(log)
           limit == ReadLimit(options)
           n == Len(log)
           Cut(s) == IF limit = Limitless THEN s ELSE Oldest(s, limit)
<1>0. options.maxEntries \in MaxRead \cup {Limitless}
  BY DEF ReadOptions
<1>1. limit = Limitless \/ limit \in Nat
  <2>1. CASE options.maxEntries = Limitless
    BY <2>1 DEF ReadLimit
  <2>2. CASE options.maxEntries \in Nat
    <3>1. options.maxEntries # Limitless
      BY <2>2, LogAssumption
    <3>2. limit \in {options.maxEntries, options.maxEntries + 1}
      BY <2>2, <3>1 DEF ReadLimit
    <3> QED
      BY <2>2, <3>2
  <2> QED
    BY <1>0, <2>1, <2>2, LogAssumption
<1>2. R \in Seq(RowType) /\ Len(R) = n /\ n \in Nat /\ \A i \in 1..n : R[i] \in RowType
  <2>1. R \in Seq(RowType) /\ Len(R) = n /\ n \in Nat
    BY RowsAre
  <2> HIDE DEF R
  <2> QED
    BY <2>1
<1>3. \A i \in 1..n : R[i] = Row(i) /\ (Matches(log[i], options.priority) <=> R[i] \in S)
  BY MatchingRows
<1>4. \A rows \in Seq(RowType), i \in 1..n :
         Visited(rows, i, options) = IF Full(rows, options) \/ R[i] \notin S THEN rows ELSE Append(rows, R[i])
  BY <1>3 DEF Visited
<1>5. Walk(options) = [i \in 1..n |-> i]
  BY DEF Walk
<1>6. Walk(options) \in Seq(1..n) /\ Len(Walk(options)) = n /\ \A i \in 1..n : Walk(options)[i] = i
  BY <1>5
<1> HIDE DEF R, S, limit, n, Cut
<1>7. \A rows \in Seq(RowType), i \in 1..n : Visited(rows, i, options) \in Seq(RowType)
  <2>1. \A rows \in Seq(RowType), i \in 1..n : Append(rows, R[i]) \in Seq(RowType)
    BY <1>2
  <2> QED
    BY <1>4, <2>1, Zenon
<1>8. <<>> \in Seq(RowType)
  OBVIOUS
<1>9. PICK L : VisitedSteps(L, Seq(RowType), <<>>, Walk(options), options)
  BY <1>6, <1>7, <1>8, VisitedFold, Zenon
<1>10. /\ L \in [0..n -> Seq(RowType)] /\ L[0] = <<>>
       /\ \A k \in 1..n : L[k] = Visited(L[k - 1], k, options)
       /\ ObjectLogEntries(options) = L[n]
  BY <1>6, <1>9 DEF VisitedSteps, ObjectLogEntries
<1> DEFINE P == {k \in Nat : k <= n => L[k] = Cut(Kept(SubSeq(R, 1, k), S))}
<1>11. 0 \in P
  <2>1. SubSeq(R, 1, 0) = <<>>
    BY <1>2
  <2>2. Kept(<<>>, S) = <<>>
    BY KeptNone
  <2>3. Cut(<<>>) = <<>>
    BY <1>1 DEF Cut, Oldest
  <2> QED
    BY <1>10, <2>1, <2>2, <2>3
<1>12. ASSUME NEW k \in Nat, k \in P PROVE k + 1 \in P
  <2>1. SUFFICES ASSUME k + 1 <= n PROVE L[k + 1] = Cut(Kept(SubSeq(R, 1, k + 1), S))
    OBVIOUS
  <2> DEFINE u == SubSeq(R, 1, k)
             K == Kept(u, S)
             e == R[k + 1]
  <2>2. L[k] = Cut(K)
    BY <1>2, <1>12, <2>1
  <2>3. u \in Seq(RowType) /\ Append(u, e) = SubSeq(R, 1, k + 1) /\ e \in RowType
    BY <1>2, <2>1, FirstOnes
  <2> HIDE DEF u
  <2>4. k + 1 \in 1..n /\ (k + 1) - 1 = k /\ k \in 0..n
    BY <1>2, <2>1
  <2> HIDE DEF e, P
  <2>5. K \in Seq(RowType) /\ Kept(Append(u, e), S) = KeepIf(K, e, S)
    BY <2>3, KeptAppend
  <2> HIDE DEF K
  <2>6. L[k + 1] = IF Full(Cut(K), options) \/ e \notin S THEN Cut(K) ELSE Append(Cut(K), e)
    <3>1. L[k + 1] = Visited(L[k], k + 1, options) /\ L[k] \in Seq(RowType)
      BY <1>10, <2>4
    <3> QED
      BY <3>1, <1>4, <2>2, <2>4 DEF e
  <2>7. Cut(KeepIf(K, e, S)) = IF Full(Cut(K), options) \/ e \notin S THEN Cut(K) ELSE Append(Cut(K), e)
    <3>1. Full(Cut(K), options) <=> limit # Limitless /\ Len(Cut(K)) >= limit
      BY DEF Full, limit
    <3>2. CASE limit = Limitless
      BY <3>1, <3>2 DEF Cut, KeepIf
    <3>3. CASE limit # Limitless /\ limit \in Nat
      <4>1. Cut(K) = Oldest(K, limit) /\ Cut(Append(K, e)) = Oldest(Append(K, e), limit)
        BY <3>3 DEF Cut
      <4>2. Oldest(Append(K, e), limit) = IF Len(Oldest(K, limit)) >= limit THEN Oldest(K, limit) ELSE Append(Oldest(K, limit), e)
        BY <3>3, <2>3, <2>5, OldestGrows
      <4> QED
        BY <3>1, <3>3, <4>1, <4>2 DEF KeepIf
    <3> QED
      BY <1>1, <3>2, <3>3
  <2> QED
    BY <2>3, <2>5, <2>6, <2>7
<1>13. Nat \subseteq P
  <2> HIDE DEF P
  <2> QED
    BY <1>11, <1>12, NatSet
<1>14. SubSeq(R, 1, n) = R
  BY <1>2
<1>15. L[n] = Cut(Kept(R, S))
  <2>1. n \in P /\ n <= n
    <3> HIDE DEF P
    <3> QED
      BY <1>2, <1>13
  <2> QED
    BY <2>1, <1>14
<1> QED
  BY <1>10, <1>15 DEF Cut, R, S, limit

(* What is kept of an element and those behind it.                         *)
LEMMA KeptBefore ==
    ASSUME NEW X, NEW S, NEW u \in Seq(X), NEW e \in X
    PROVE  Kept(<<e>> \o u, S) = IF e \in S THEN <<e>> \o Kept(u, S) ELSE Kept(u, S)
<1>1. <<e>> \in Seq(X) /\ Kept(u, S) \in Seq(X)
  BY KeptIn
<1>2. Kept(<<e>> \o u, S) = Kept(<<e>>, S) \o Kept(u, S)
  BY <1>1, KeptConcat, Zenon
<1>3. Kept(<<e>>, S) = IF e \in S THEN <<e>> ELSE <<>>
  BY KeptOne, Zenon
<1>4. <<>> \o Kept(u, S) = Kept(u, S)
  BY <1>1
<1> QED
  BY <1>2, <1>3, <1>4, Zenon

(* The last elements and the one before.                                   *)
LEMMA LastOnes ==
    ASSUME NEW X, NEW s \in Seq(X), NEW k \in Nat, k + 1 <= Len(s)
    PROVE  /\ SubSeq(s, Len(s) - k + 1, Len(s)) \in Seq(X)
           /\ s[Len(s) - k] \in X
           /\ <<s[Len(s) - k]>> \o SubSeq(s, Len(s) - k + 1, Len(s)) = SubSeq(s, Len(s) - (k + 1) + 1, Len(s))
<1> DEFINE n == Len(s)
           u == SubSeq(s, n - k + 1, n)
           v == SubSeq(s, n - (k + 1) + 1, n)
           e == s[n - k]
           w == <<e>> \o u
<1>1. n \in Nat /\ n - k \in 1..n /\ e \in X /\ \A i \in 1..n : s[i] \in X
  OBVIOUS
<1>2. u \in Seq(X) /\ Len(u) = k /\ \A i \in 1..k : u[i] = s[n - k + i]
  <2>1. n - k + 1 \in 1..n + 1 /\ n - (n - k + 1) + 1 = k
    OBVIOUS
  <2>2. u \in Seq(X) /\ Len(u) = k /\ \A i \in 1..k : u[i] = s[i + (n - k + 1) - 1]
    BY <2>1
  <2> HIDE DEF u
  <2> QED
    BY <2>2, <1>1
<1>3. v \in Seq(X) /\ Len(v) = k + 1 /\ \A i \in 1..k + 1 : v[i] = s[n - k - 1 + i]
  <2>1. n - (k + 1) + 1 \in 1..n + 1 /\ n - (n - (k + 1) + 1) + 1 = k + 1
    OBVIOUS
  <2>2. v \in Seq(X) /\ Len(v) = k + 1 /\ \A i \in 1..k + 1 : v[i] = s[i + (n - (k + 1) + 1) - 1]
    BY <2>1
  <2> HIDE DEF v
  <2> QED
    BY <2>2, <1>1
<1> HIDE DEF e, u, v
<1>4. w \in Seq(X) /\ Len(w) = k + 1 /\ w[1] = e /\ \A i \in 1..k : w[i + 1] = u[i]
  BY <1>1, <1>2
<1> HIDE DEF w, n
<1>5. ASSUME NEW i \in 1..k + 1 PROVE w[i] = v[i]
  <2>1. CASE i = 1
    <3>1. v[1] = s[n - k - 1 + 1] /\ n - k - 1 + 1 = n - k
      BY <1>1, <1>3
    <3> QED
      BY <2>1, <3>1, <1>4 DEF e
  <2>2. CASE i # 1
    <3>1. i - 1 \in 1..k /\ (i - 1) + 1 = i /\ n - k + (i - 1) = n - k - 1 + i
      BY <2>2, <1>1
    <3>2. w[i] = u[i - 1] /\ u[i - 1] = s[n - k + (i - 1)]
      BY <3>1, <1>2, <1>4
    <3> QED
      BY <3>1, <3>2, <1>3
  <2> QED
    BY <2>1, <2>2
<1>6. w = v
  <2>1. w \in Seq(X) /\ v \in Seq(X) /\ Len(w) = Len(v) /\ \A i \in 1..Len(w) : w[i] = v[i]
    BY <1>3, <1>4, <1>5
  <2> QED
    BY <2>1
<1> QED
  BY <1>1, <1>2, <1>6 DEF n, e, u, v, w

(* Reading from the newest.                                                *)
LEMMA ReadsNewest ==
    ASSUME log \in Seq(Entry), NEW options \in ReadOptions, options.order = "newest"
    PROVE  LET kept == Kept(Rows(log), Meant(log, options.priority))
           IN  ObjectLogEntries(options) = IF ReadLimit(options) = Limitless THEN kept ELSE Newest(kept, ReadLimit(options))
<1> DEFINE S == Meant(log, options.priority)
           R == Rows(log)
           limit == ReadLimit(options)
           n == Len(log)
           Cut(s) == IF limit = Limitless THEN s ELSE Newest(s, limit)
<1>0. options.maxEntries \in MaxRead \cup {Limitless}
  BY DEF ReadOptions
<1>1. limit = Limitless \/ limit \in Nat
  <2>1. CASE options.maxEntries = Limitless
    BY <2>1 DEF ReadLimit
  <2>2. CASE options.maxEntries \in Nat
    <3>1. options.maxEntries # Limitless
      BY <2>2, LogAssumption
    <3>2. limit \in {options.maxEntries, options.maxEntries + 1, options.maxEntries + 0}
      BY <2>2, <3>1 DEF ReadLimit
    <3> QED
      BY <2>2, <3>2
  <2> QED
    BY <1>0, <2>1, <2>2, LogAssumption
<1>2. R \in Seq(RowType) /\ Len(R) = n /\ n \in Nat /\ \A i \in 1..n : R[i] \in RowType
  <2>1. R \in Seq(RowType) /\ Len(R) = n /\ n \in Nat
    BY RowsAre
  <2> HIDE DEF R
  <2> QED
    BY <2>1
<1>3. \A i \in 1..n : R[i] = Row(i) /\ (Matches(log[i], options.priority) <=> R[i] \in S)
  BY MatchingRows
<1>4. \A rows \in Seq(RowType), i \in 1..n :
         Visited(rows, i, options) = IF Full(rows, options) \/ R[i] \notin S THEN rows ELSE <<R[i]>> \o rows
  <2> HIDE DEF S, R
  <2> QED
    BY <1>3, Zenon DEF Visited
<1>5. Walk(options) = [i \in 1..n |-> n + 1 - i]
  BY DEF Walk
<1>6. Walk(options) \in Seq(1..n) /\ Len(Walk(options)) = n /\ \A i \in 1..n : Walk(options)[i] = n + 1 - i
  <2> HIDE DEF n
  <2>1. \A i \in 1..n : n + 1 - i \in 1..n
    BY <1>2
  <2>2. Walk(options) \in [1..n -> 1..n] /\ \A i \in 1..n : Walk(options)[i] = n + 1 - i
    BY <1>5, <2>1
  <2> QED
    BY <1>2, <2>2
<1> HIDE DEF R, S, limit, n, Cut
<1>7. \A rows \in Seq(RowType), i \in 1..n : Visited(rows, i, options) \in Seq(RowType)
  <2>1. \A rows \in Seq(RowType), i \in 1..n : <<R[i]>> \o rows \in Seq(RowType)
    BY <1>2
  <2> QED
    BY <1>4, <2>1, Zenon
<1>8. <<>> \in Seq(RowType)
  OBVIOUS
<1>9. PICK L : VisitedSteps(L, Seq(RowType), <<>>, Walk(options), options)
  BY <1>6, <1>7, <1>8, VisitedFold, Zenon
<1>10. /\ L \in [0..n -> Seq(RowType)] /\ L[0] = <<>>
       /\ \A k \in 1..n : L[k] = Visited(L[k - 1], n + 1 - k, options)
       /\ ObjectLogEntries(options) = L[n]
  BY <1>6, <1>9 DEF VisitedSteps, ObjectLogEntries
<1> DEFINE P == {k \in Nat : k <= n => L[k] = Cut(Kept(SubSeq(R, n - k + 1, n), S))}
<1>11. 0 \in P
  <2>1. SubSeq(R, n - 0 + 1, n) = <<>>
    <3>1. n - 0 + 1 = n + 1
      BY <1>2
    <3>2. SubSeq(R, n + 1, n) = <<>>
      BY <1>2
    <3> QED
      BY <3>1, <3>2
  <2>2. Kept(<<>>, S) = <<>>
    BY KeptNone
  <2>3. Cut(<<>>) = <<>>
    BY <1>1 DEF Cut, Newest
  <2> QED
    BY <1>10, <2>1, <2>2, <2>3
<1>12. ASSUME NEW k \in Nat, k \in P PROVE k + 1 \in P
  <2>1. SUFFICES ASSUME k + 1 <= n PROVE L[k + 1] = Cut(Kept(SubSeq(R, n - (k + 1) + 1, n), S))
    OBVIOUS
  <2> DEFINE u == SubSeq(R, n - k + 1, n)
             K == Kept(u, S)
             e == R[n - k]
  <2>2. L[k] = Cut(K)
    BY <1>2, <1>12, <2>1
  <2>3. u \in Seq(RowType) /\ <<e>> \o u = SubSeq(R, n - (k + 1) + 1, n) /\ e \in RowType
    BY <1>2, <2>1, LastOnes
  <2> HIDE DEF u
  <2>4. k + 1 \in 1..n /\ (k + 1) - 1 = k /\ k \in 0..n /\ n + 1 - (k + 1) = n - k /\ n - k \in 1..n
    BY <1>2, <2>1
  <2> HIDE DEF e, P
  <2>5. K \in Seq(RowType) /\ Kept(<<e>> \o u, S) = IF e \in S THEN <<e>> \o K ELSE K
    <3>1. K \in Seq(RowType)
      BY <2>3, KeptIn
    <3> QED
      BY <3>1, <2>3, KeptBefore
  <2> HIDE DEF K
  <2>6. L[k + 1] = IF Full(Cut(K), options) \/ e \notin S THEN Cut(K) ELSE <<e>> \o Cut(K)
    <3>1. L[k + 1] = Visited(L[k], n - k, options) /\ L[k] \in Seq(RowType)
      BY <1>10, <2>4
    <3> QED
      BY <3>1, <1>4, <2>2, <2>4, Zenon DEF e
  <2>7. Cut(IF e \in S THEN <<e>> \o K ELSE K) = IF Full(Cut(K), options) \/ e \notin S THEN Cut(K) ELSE <<e>> \o Cut(K)
    <3>1. Full(Cut(K), options) <=> limit # Limitless /\ Len(Cut(K)) >= limit
      BY DEF Full, limit
    <3>2. CASE limit = Limitless
      BY <3>1, <3>2, Zenon DEF Cut
    <3>3. CASE limit # Limitless /\ limit \in Nat
      <4>1. Cut(K) = Newest(K, limit) /\ Cut(<<e>> \o K) = Newest(<<e>> \o K, limit)
        BY <3>3, Zenon DEF Cut
      <4>2. Newest(<<e>> \o K, limit) = IF Len(Newest(K, limit)) >= limit THEN Newest(K, limit) ELSE <<e>> \o Newest(K, limit)
        BY <3>3, <2>3, <2>5, NewestGrows
      <4> QED
        BY <3>1, <3>3, <4>1, <4>2, Zenon
    <3> QED
      BY <1>1, <3>2, <3>3
  <2> QED
    BY <2>3, <2>5, <2>6, <2>7, Zenon
<1>13. Nat \subseteq P
  <2> HIDE DEF P
  <2> QED
    BY <1>11, <1>12, NatSet
<1>14. SubSeq(R, n - n + 1, n) = R
  <2>1. n - n + 1 = 1
    BY <1>2
  <2>2. SubSeq(R, 1, n) = R
    BY <1>2
  <2> QED
    BY <2>1, <2>2
<1>15. L[n] = Cut(Kept(R, S))
  <2>1. n \in P /\ n <= n
    <3> HIDE DEF P
    <3> QED
      BY <1>2, <1>13
  <2> QED
    BY <2>1, <1>14
<1> QED
  BY <1>10, <1>15 DEF Cut, R, S, limit

(* What a read answers, of a log and what was asked of it.                 *)
Answer(s, options) ==
  LET all  == [i \in DOMAIN s |-> [label |-> s[i].label, priority |-> s[i].priority, index |-> i - 1]]
      rows == Kept(all, {r \in Range(all) : options.priority \in {Every, r.priority}})
      max  == IF options.maxEntries = Limitless THEN Len(rows) ELSE options.maxEntries
  IN  IF Len(rows) <= max THEN rows
      ELSE IF options.order = "oldest" THEN TooMany
      ELSE SubSeq(rows, Len(rows) - max + 1, Len(rows))

(* The script answers what was asked for, or that it is too much.          *)
LEMMA EntriesAnswer ==
    ASSUME log \in Seq(Entry), NEW options \in ReadOptions
    PROVE  Entries(options) = Answer(log, options)
<1> DEFINE K == Kept(Rows(log), Meant(log, options.priority))
           m == options.maxEntries
<1>1. K \in Seq(RowType) /\ Len(K) \in Nat
  <2>1. Rows(log) \in Seq(RowType)
    BY RowsAre
  <2>2. K \in Seq(RowType)
    BY <2>1, KeptIn
  <2> QED
    BY <2>2
<1>2. Answer(log, options) = LET max == IF m = Limitless THEN Len(K) ELSE m
                             IN  IF Len(K) <= max THEN K
                                 ELSE IF options.order = "oldest" THEN TooMany
                                 ELSE SubSeq(K, Len(K) - max + 1, Len(K))
  BY Zenon DEF Answer, Rows, Meant
<1>3. options.order \in {"oldest", "newest"} /\ m \in MaxRead \cup {Limitless}
  BY DEF ReadOptions
<1>4. Limitless \notin Nat /\ (m # Limitless => m \in Nat)
  BY <1>3, LogAssumption
<1>5. options.order = "oldest" => ObjectLogEntries(options) = IF ReadLimit(options) = Limitless THEN K ELSE Oldest(K, ReadLimit(options))
  BY ReadsOldest, Zenon
<1>6. options.order = "newest" => ObjectLogEntries(options) = IF ReadLimit(options) = Limitless THEN K ELSE Newest(K, ReadLimit(options))
  BY ReadsNewest, Zenon
<1>7. ReadLimit(options) = IF m = Limitless THEN Limitless ELSE m + (IF options.order = "oldest" THEN 1 ELSE 0)
  BY DEF ReadLimit
<1> HIDE DEF K, m
<1>8. CASE m = Limitless
  <2>1. ObjectLogEntries(options) = K
    BY <1>3, <1>5, <1>6, <1>7, <1>8
  <2>2. Entries(options) = K
    BY <2>1, <1>8, Zenon DEF Entries, m
  <2>3. Len(K) <= Len(K)
    BY <1>1
  <2> QED
    BY <2>2, <2>3, <1>2, <1>8, Zenon
<1>9. CASE m # Limitless /\ options.order = "oldest"
  <2>1. ReadLimit(options) = m + 1 /\ m + 1 # Limitless /\ m \in Nat
    BY <1>4, <1>7, <1>9
  <2>2. ObjectLogEntries(options) = Oldest(K, m + 1)
    BY <1>5, <1>9, <2>1
  <2>3. Len(Oldest(K, m + 1)) > m <=> Len(K) > m
    BY <1>1, <2>1 DEF Oldest
  <2>4. Len(K) <= m => Oldest(K, m + 1) = K
    BY <1>1, <2>1 DEF Oldest
  <2>5. Len(K) <= m <=> ~ (Len(K) > m)
    BY <1>1, <2>1
  <2>6. Entries(options) = IF Len(Oldest(K, m + 1)) > m THEN TooMany ELSE Oldest(K, m + 1)
    BY <1>9, <2>2, Zenon DEF Entries, m
  <2> QED
    BY <1>2, <1>9, <2>3, <2>4, <2>5, <2>6, Zenon
<1>10. CASE m # Limitless /\ options.order = "newest"
  <2>1. ReadLimit(options) = m /\ m \in Nat
    BY <1>4, <1>7, <1>10
  <2>2. ObjectLogEntries(options) = Newest(K, m)
    BY <1>6, <1>10, <2>1
  <2>3. ~ (Len(Newest(K, m)) > m)
    <3>1. CASE Len(K) <= m
      BY <1>1, <2>1, <3>1 DEF Newest
    <3>2. CASE ~ (Len(K) <= m)
      <4> DEFINE a == Len(K)
      <4>1. a \in Nat /\ a - m + 1 \in 1..a + 1 /\ a - (a - m + 1) + 1 = m
        <5>1. a \in Nat /\ ~ (a <= m)
          BY <1>1, <3>2
        <5> HIDE DEF a
        <5> QED
          BY <2>1, <5>1
      <4>2. Len(SubSeq(K, a - m + 1, a)) = m
        BY <4>1, <1>1
      <4> QED
        BY <4>2, <3>2, <2>1 DEF Newest
    <3> QED
      BY <3>1, <3>2
  <2>4. Entries(options) = Newest(K, m)
    BY <1>10, <2>2, <2>3, Zenon DEF Entries, m
  <2>5. options.order # "oldest"
    BY <1>10
  <2> QED
    BY <1>2, <1>10, <2>4, <2>5, Zenon DEF Newest
<1> QED
  BY <1>3, <1>8, <1>9, <1>10

Descends(s, I) == s \in Orderings(I) /\ \A j, k \in DOMAIN s : j < k => s[j] > s[k]

(* A set of positions can be put in descending order ...                   *)
LEMMA DescendingExists ==
    ASSUME NEW n \in Nat, NEW I \in SUBSET (1..n)
    PROVE  IsFiniteSet(I) /\ Cardinality(I) \in Nat /\ \E s : Descends(s, I)
<1> DEFINE Q(m) == \A J \in SUBSET (1..m) : IsFiniteSet(J) /\ Cardinality(J) \in Nat /\ \E s : Descends(s, J)
           P == {m \in Nat : Q(m)}
<1>1. 0 \in P
  <2> SUFFICES ASSUME NEW J \in SUBSET (1..0) PROVE IsFiniteSet(J) /\ Cardinality(J) \in Nat /\ \E s : Descends(s, J)
    OBVIOUS
  <2>1. J = {}
    OBVIOUS
  <2>2. IsFiniteSet({}) /\ Cardinality({}) = 0
    BY FS_EmptySet
  <2>3. Descends([k \in 1..0 |-> 0], {})
    BY <2>2 DEF Descends, Orderings
  <2> QED
    BY <2>1, <2>2, <2>3
<1>2. ASSUME NEW m \in Nat, m \in P PROVE m + 1 \in P
  <2> SUFFICES ASSUME NEW J \in SUBSET (1..m + 1) PROVE IsFiniteSet(J) /\ Cardinality(J) \in Nat /\ \E s : Descends(s, J)
    OBVIOUS
  <2> DEFINE H == J \ {m + 1}
  <2>1. H \in SUBSET (1..m)
    OBVIOUS
  <2>2. IsFiniteSet(H) /\ Cardinality(H) \in Nat /\ \E s : Descends(s, H)
    BY <1>2, <2>1
  <2>3. CASE m + 1 \notin J
    <3>1. H = J
      BY <2>3
    <3> QED
      BY <2>2, <3>1
  <2>4. CASE m + 1 \in J
    <3>1. J = H \cup {m + 1} /\ m + 1 \notin H
      BY <2>4
    <3>2. \A h \in H : h < m + 1
      BY <2>1
    <3>3. PICK s : Descends(s, H)
      BY <2>2
    <3> HIDE DEF H, P
    <3> DEFINE c == Cardinality(H)
               t == [k \in 1..c + 1 |-> IF k = 1 THEN m + 1 ELSE s[k - 1]]
    <3>4. IsFiniteSet(J) /\ Cardinality(J) = c + 1
      BY <2>2, <3>1, FS_AddElement
    <3>5. s \in [1..c -> H] /\ \A j, k \in 1..c : j < k => s[j] > s[k]
      BY <3>3 DEF Descends, Orderings
    <3> HIDE DEF c
    <3>6. c \in Nat
      BY <2>2 DEF c
    <3>7. \A k \in 1..c + 1 : t[k] \in J /\ (k = 1 => t[k] = m + 1) /\ (k # 1 => k - 1 \in 1..c /\ t[k] = s[k - 1])
      BY <3>1, <3>5, <3>6
    <3>8. t \in [1..c + 1 -> J]
      BY <3>7
    <3>9. ASSUME NEW j \in 1..c + 1, NEW k \in 1..c + 1, j < k PROVE t[j] > t[k]
      <4>1. k # 1 /\ k - 1 \in 1..c /\ t[k] = s[k - 1] /\ s[k - 1] \in H
        BY <3>5, <3>6, <3>7, <3>9
      <4>2. CASE j = 1
        <5>1. t[j] = m + 1 /\ s[k - 1] < m + 1
          BY <3>2, <3>7, <4>1, <4>2
        <5> HIDE DEF t
        <5>2. s[k - 1] \in Nat
          <6>1. s[k - 1] \in 1..m
            BY <2>1, <4>1
          <6> QED
            BY <6>1
        <5> QED
          BY <4>1, <5>1, <5>2
      <4>3. CASE j # 1
        <5>1. j - 1 \in 1..c /\ t[j] = s[j - 1] /\ j - 1 < k - 1
          BY <3>6, <3>7, <3>9, <4>3
        <5> HIDE DEF t
        <5> QED
          BY <3>5, <4>1, <5>1
      <4> QED
        BY <4>2, <4>3
    <3>10. Descends(t, J)
      <4> HIDE DEF t
      <4>1. DOMAIN t = 1..c + 1
        BY <3>8
      <4> QED
        BY <3>4, <3>8, <3>9, <4>1 DEF Descends, Orderings
    <3>11. c + 1 \in Nat
      BY <3>6
    <3> QED
      BY <3>4, <3>10, <3>11
  <2> QED
    BY <2>3, <2>4
<1>3. Nat \subseteq P
  <2> HIDE DEF P
  <2> QED
    BY <1>1, <1>2, NatSet
<1>4. Q(n)
  BY <1>3
<1> QED
  BY <1>4

(* ... in which each of them occurs.                                       *)
ListsAll(s, I) == s \in Seq(I) /\ \A i \in I : \E k \in 1..Len(s) : s[k] = i

LEMMA DescendingIsAll ==
    ASSUME NEW n \in Nat, NEW I \in SUBSET (1..n), NEW s, Descends(s, I)
    PROVE  ListsAll(s, I)
<1> DEFINE c == Cardinality(I)
<1>1. IsFiniteSet(I) /\ c \in Nat
  BY DescendingExists
<1>2. s \in [1..c -> I] /\ \A j, k \in 1..c : j < k => s[j] > s[k]
  BY DEF Descends, Orderings
<1> HIDE DEF c
<1>3. \A j, k \in 1..c : s[j] = s[k] => j = k
  <2> SUFFICES ASSUME NEW j \in 1..c, NEW k \in 1..c, s[j] = s[k], j # k PROVE FALSE
    OBVIOUS
  <2>1. s[j] \in Nat /\ s[k] \in Nat
    <3>1. s[j] \in 1..n /\ s[k] \in 1..n
      BY <1>2
    <3> QED
      BY <3>1
  <2>2. j < k \/ k < j
    BY <1>1
  <2>3. s[j] > s[k] \/ s[k] > s[j]
    BY <1>2, <2>2
  <2> QED
    BY <2>1, <2>3
<1>4. IsFiniteSet(1..c) /\ Cardinality(1..c) = c
  <2>1. IsFiniteSet(1..c) /\ Cardinality(1..c) = IF 1 > c THEN 0 ELSE c - 1 + 1
    BY <1>1, FS_Interval
  <2> QED
    BY <1>1, <2>1
<1>5. s \in Injection(1..c, I)
  BY <1>2, <1>3 DEF Injection, IsInjective
<1>6. s \in Surjection(1..c, I)
  BY <1>1, <1>4, <1>5, FS_Injection DEF c
<1>7. s \in Seq(I) /\ Len(s) = c
  <2>1. s \in [1..c -> I] /\ c \in Nat
    BY <1>1, <1>2
  <2> QED
    BY <2>1
<1> QED
  BY <1>6, <1>7 DEF Surjection, ListsAll

-----------------------------------------------------------------------------

(* What is kept of what is kept.                                           *)
LEMMA KeptKept ==
    ASSUME NEW X, NEW S, NEW T, NEW s \in Seq(X)
    PROVE  Kept(Kept(s, S), T) = Kept(s, S \cap T)
<1> DEFINE Good == {u \in Seq(X) : Kept(Kept(u, S), T) = Kept(u, S \cap T)}
<1>1. <<>> \in Good
  BY KeptNone
<1>2. ASSUME NEW k \in 0..Len(s) - 1, SubSeq(s, 1, k) \in Good PROVE Append(SubSeq(s, 1, k), s[k + 1]) \in Good
  <2> DEFINE u == SubSeq(s, 1, k)
             e == s[k + 1]
  <2>1. u \in Seq(X) /\ e \in X /\ Kept(Kept(u, S), T) = Kept(u, S \cap T)
    BY <1>2
  <2> HIDE DEF u, e
  <2>2. Kept(u, S) \in Seq(X) /\ Append(u, e) \in Seq(X)
    BY <2>1, KeptIn
  <2>3. Kept(Append(u, e), S) = KeepIf(Kept(u, S), e, S) /\ Kept(Append(u, e), S \cap T) = KeepIf(Kept(u, S \cap T), e, S \cap T)
    BY <2>1, KeptAppend
  <2>4. Kept(Append(Kept(u, S), e), T) = KeepIf(Kept(Kept(u, S), T), e, T)
    BY <2>1, <2>2, KeptAppend
  <2>5. Kept(Kept(Append(u, e), S), T) = Kept(Append(u, e), S \cap T)
    <3>1. CASE e \in S
      <4>1. Kept(Append(u, e), S) = Append(Kept(u, S), e)
        BY <2>3, <3>1, Zenon DEF KeepIf
      <4>2. e \in T <=> e \in S \cap T
        BY <3>1
      <4> QED
        BY <2>1, <2>3, <2>4, <4>1, <4>2, Zenon DEF KeepIf
    <3>2. CASE e \notin S
      <4>1. Kept(Append(u, e), S) = Kept(u, S)
        BY <2>3, <3>2, Zenon DEF KeepIf
      <4>2. e \notin S \cap T
        BY <3>2
      <4> QED
        BY <2>1, <2>3, <4>1, <4>2, Zenon DEF KeepIf
    <3> QED
      BY <3>1, <3>2
  <2>6. Append(u, e) \in Good
    BY <2>2, <2>5
  <2> QED
    BY <2>6 DEF u, e
<1>3. s \in Good
  <2> HIDE DEF Good
  <2> QED
    BY <1>1, <1>2, SeqInduction
<1> QED
  BY <1>3

(* removeIndex: leaves out one position.                                   *)
LEMMA RowRemoved ==
    ASSUME NEW X, NEW s \in Seq(X), NEW i \in 1..Len(s)
    PROVE  /\ RemoveAt(s, i) \in Seq(X) /\ Len(RemoveAt(s, i)) = Len(s) - 1
           /\ \A j \in 1..Len(s) - 1 : RemoveAt(s, i)[j] = IF j < i THEN s[j] ELSE s[j + 1]
<1> DEFINE n == Len(s)
           a == SubSeq(s, 1, i - 1)
           b == SubSeq(s, i + 1, n)
<1>1. a \in Seq(X) /\ Len(a) = i - 1 /\ \A j \in 1..i - 1 : a[j] = s[j]
  OBVIOUS
<1>2. b \in Seq(X) /\ Len(b) = n - i /\ \A j \in 1..n - i : b[j] = s[i + j]
  <2>1. i + 1 \in 1..n + 1 /\ n - (i + 1) + 1 = n - i /\ n \in Nat
    OBVIOUS
  <2>2. b \in Seq(X) /\ Len(b) = n - i /\ \A j \in 1..n - i : b[j] = s[j + (i + 1) - 1]
    BY <2>1
  <2> HIDE DEF b, n
  <2> QED
    BY <2>1, <2>2
<1> HIDE DEF a, b
<1>3. RemoveAt(s, i) = a \o b
  BY Zenon DEF RemoveAt, a, b, n
<1>4. n \in Nat /\ i \in 1..n
  OBVIOUS
<1> HIDE DEF n
<1>5. a \o b \in Seq(X) /\ Len(a \o b) = n - 1
  <2>1. a \o b \in Seq(X) /\ Len(a \o b) = Len(a) + Len(b)
    BY <1>1, <1>2, ConcatIs
  <2>2. (i - 1) + (n - i) = n - 1
    BY <1>4
  <2> QED
    BY <1>1, <1>2, <2>1, <2>2
<1>6. ASSUME NEW j \in 1..n - 1 PROVE (a \o b)[j] = IF j < i THEN s[j] ELSE s[j + 1]
  <2>1. CASE j < i
    BY <1>1, <1>2, <1>4, <2>1
  <2>2. CASE ~ (j < i)
    <3>1. j - (i - 1) \in 1..n - i /\ i + (j - (i - 1)) = j + 1
      BY <1>4, <2>2
    <3>2. (a \o b)[j] = b[j - (i - 1)]
      BY <1>1, <1>2, <1>4, <2>2
    <3> QED
      BY <1>2, <2>2, <3>1, <3>2
  <2> QED
    BY <2>1, <2>2
<1> QED
  BY <1>3, <1>5, <1>6 DEF n

(* To remove a position is to keep all the others.                         *)
LEMMA RemoveAtKeeps ==
    ASSUME NEW X, NEW s \in Seq(X), NEW i \in 1..Len(s), NEW S,
           s[i] \notin S, \A j \in 1..Len(s) : j # i => s[j] \in S
    PROVE  RemoveAt(s, i) = Kept(s, S)
<1> DEFINE n == Len(s)
           a == SubSeq(s, 1, i - 1)
           b == SubSeq(s, i + 1, n)
           e == s[i]
<1>1. a \in Seq(X) /\ Len(a) = i - 1 /\ \A j \in 1..i - 1 : a[j] = s[j]
  OBVIOUS
<1>2. b \in Seq(X) /\ Len(b) = n - i /\ \A j \in 1..n - i : b[j] = s[i + j]
  <2>1. i + 1 \in 1..n + 1 /\ n - (i + 1) + 1 = n - i /\ n \in Nat
    OBVIOUS
  <2>2. b \in Seq(X) /\ Len(b) = n - i /\ \A j \in 1..n - i : b[j] = s[j + (i + 1) - 1]
    BY <2>1
  <2> HIDE DEF b, n
  <2> QED
    BY <2>1, <2>2
<1>3. n \in Nat /\ i \in 1..n /\ e \in X /\ e \notin S
  OBVIOUS
<1>4. \A j \in 1..i - 1 : a[j] \in S
  <2> HIDE DEF a
  <2> QED
    BY <1>1
<1>5. \A j \in 1..n - i : b[j] \in S
  <2> HIDE DEF b
  <2>1. \A j \in 1..n - i : i + j \in 1..n /\ i + j # i
    OBVIOUS
  <2> QED
    BY <1>2, <2>1
<1> HIDE DEF a, b, e
<1>6. Kept(a, S) = a /\ Kept(b, S) = b
  BY <1>1, <1>2, <1>4, <1>5, KeptAll
<1>7. RemoveAt(s, i) = a \o b
  BY Zenon DEF RemoveAt, a, b, n
<1>8. s = a \o (<<e>> \o b)
  <2> DEFINE c == <<e>> \o b
             t == a \o c
  <2> HIDE DEF n
  <2>1. c \in Seq(X) /\ Len(c) = n - i + 1 /\ c[1] = e /\ \A j \in 1..n - i : c[j + 1] = b[j]
    BY <1>2, <1>3
  <2> HIDE DEF c
  <2>2. t \in Seq(X) /\ Len(t) = n
    <3>1. t \in Seq(X) /\ Len(t) = Len(a) + Len(c)
      BY <1>1, <2>1, ConcatIs
    <3>2. (i - 1) + (n - i + 1) = n
      BY <1>3
    <3> HIDE DEF t
    <3> QED
      BY <1>1, <2>1, <3>1, <3>2
  <2>3. ASSUME NEW j \in 1..n PROVE t[j] = s[j]
    <3>1. CASE j < i
      BY <1>1, <1>3, <2>1, <3>1
    <3>2. CASE j = i
      <4>0. i \in Nat /\ i <= n /\ Len(a) = i - 1 /\ Len(c) = n - i + 1
        BY <1>1, <1>3, <2>1
      <4>1. t[j] = c[j - (i - 1)] /\ j - (i - 1) = 1
        BY <1>1, <1>3, <2>1, <3>2, <4>0
      <4> QED
        BY <2>1, <3>2, <4>1 DEF e
    <3>3. CASE j > i
      <4>1. t[j] = c[j - (i - 1)] /\ j - (i - 1) = (j - i) + 1 /\ j - i \in 1..n - i /\ i + (j - i) = j
        BY <1>1, <1>3, <2>1, <3>3
      <4> HIDE DEF t
      <4> QED
        BY <1>2, <2>1, <4>1
    <3>4. j < i \/ j = i \/ j > i
      OBVIOUS
    <3> HIDE DEF t
    <3> QED
      BY <3>1, <3>2, <3>3, <3>4
  <2> HIDE DEF t
  <2>4. Len(s) = n
    BY DEF n
  <2>5. t = s
    BY <2>2, <2>3, <2>4
  <2> QED
    BY <2>5 DEF t, c
<1>9. <<e>> \o b \in Seq(X)
  BY <1>2, <1>3
<1>10. Kept(a \o (<<e>> \o b), S) = Kept(a, S) \o Kept(<<e>> \o b, S)
  BY <1>1, <1>9, KeptConcat, Zenon
<1>11. Kept(<<e>> \o b, S) = Kept(b, S)
  BY <1>2, <1>3, KeptBefore
<1>12. Kept(s, S) = a \o b
  BY <1>6, <1>8, <1>10, <1>11, Zenon
<1> QED
  BY <1>7, <1>12

LEMMA RemoveIndexIs ==
    ASSUME NEW X, NEW s \in Seq(X), NEW i \in Nat \ {0}
    PROVE  RemoveIndex(s, i) \in Seq(X)
<1>1. CASE i <= Len(s)
  <2>1. i \in 1..Len(s)
    BY <1>1
  <2>2. RemoveAt(s, i) \in Seq(X)
    BY <2>1, RowRemoved
  <2> QED
    BY <1>1, <2>2 DEF RemoveIndex
<1>2. CASE ~ (i <= Len(s))
  BY <1>2 DEF RemoveIndex
<1> QED
  BY <1>1, <1>2

LEMMA GoodRemoved ==
    ASSUME NEW n \in Nat, NEW s, GoodLog(s, n), NEW i \in Nat \ {0}
    PROVE  GoodLog(RemoveIndex(s, i), n)
<1>0. s \in Seq(Entry) /\ OwnLabels(s) /\ \A j \in 1..Len(s) : s[j].label < n
  BY DEF GoodLog
<1>1. CASE i <= Len(s)
  <2> DEFINE t == RemoveAt(s, i)
             m == Len(s)
             From(j) == IF j < i THEN j ELSE j + 1
  <2>1. i \in 1..m /\ m \in Nat
    BY <1>0, <1>1
  <2>2. t \in Seq(Entry) /\ Len(t) = m - 1 /\ \A j \in 1..m - 1 : t[j] = IF j < i THEN s[j] ELSE s[j + 1]
    BY <1>0, <2>1, RowRemoved
  <2> HIDE DEF t, m
  <2>3. \A j \in 1..m - 1 : From(j) \in 1..m /\ t[j] = s[From(j)]
    BY <2>1, <2>2
  <2>4. \A j, k \in 1..m - 1 : From(j) = From(k) => j = k
    BY <2>1
  <2> HIDE DEF From
  <2>5. OwnLabels(t) /\ \A j \in 1..Len(t) : t[j].label < n
    BY <1>0, <2>2, <2>3, <2>4 DEF OwnLabels, m
  <2> QED
    BY <1>1, <2>2, <2>5 DEF RemoveIndex, GoodLog, t
<1>2. CASE ~ (i <= Len(s))
  BY <1>2 DEF RemoveIndex
<1> QED
  BY <1>1, <1>2

(* The entries that are left when some positions are removed.              *)
Left(s, P) == {e \in Range(s) : \A i \in P : e.label # s[i].label}

(* From the last position to the first, each of them is still where it     *)
(* was.                                                                    *)
LEMMA RemovalKeeps ==
    ASSUME NEW n \in Nat, NEW s, GoodLog(s, n), NEW I \in SUBSET (1..Len(s)), NEW D, Descends(D, I), NEW L,
           RemovedSteps(L, Seq(Entry), s, D)
    PROVE  L[Len(D)] = Kept(s, Left(s, I))
<1> DEFINE m == Len(D)
           Before(k) == {D[j] : j \in 1..k}
           Q(k) == /\ L[k] = Kept(s, Left(s, Before(k)))
                   /\ \A j \in 1..Len(s) : (\A h \in 1..k : j < D[h]) => j <= Len(L[k]) /\ L[k][j] = s[j]
           P == {k \in Nat : k <= m => Q(k)}
<1>1. s \in Seq(Entry) /\ OwnLabels(s) /\ Len(s) \in Nat
  BY DEF GoodLog
<1>2. D \in Seq(I) /\ m \in Nat /\ \A i \in I : \E k \in 1..m : D[k] = i
  <2>1. D \in Seq(I) /\ \A i \in I : \E k \in 1..m : D[k] = i
    <3> HIDE DEF m
    <3>1. ListsAll(D, I)
      BY <1>1, DescendingIsAll, Zenon
    <3> QED
      BY <3>1 DEF ListsAll, m
  <2> QED
    BY <2>1
<1>3. /\ DOMAIN D = 1..m
      /\ \A k \in 1..m : D[k] \in 1..Len(s)
      /\ \A j, k \in 1..m : j < k => D[j] > D[k]
  <2>1. DOMAIN D = 1..m /\ \A k \in 1..m : D[k] \in I
    BY <1>2
  <2>2. \A j, k \in DOMAIN D : j < k => D[j] > D[k]
    BY DEF Descends
  <2> QED
    BY <2>1, <2>2
<1>4. /\ L \in [0..m -> Seq(Entry)] /\ L[0] = s
      /\ \A k \in 1..m : L[k] = RemoveIndex(L[k - 1], D[k])
  BY Zenon DEF RemovedSteps
<1>5. s \in Seq(Range(s)) /\ \A j \in 1..Len(s) : s[j] \in Range(s) /\ s[j] \in Entry
  <2>1. DOMAIN s = 1..Len(s) /\ \A j \in 1..Len(s) : s[j] \in Entry
    BY <1>1
  <2>2. \A j \in 1..Len(s) : s[j] \in Range(s)
    BY <2>1 DEF Range
  <2>3. s \in [1..Len(s) -> Range(s)]
    BY <1>1, <2>1, <2>2
  <2> QED
    BY <1>1, <2>1, <2>2, <2>3
<1> HIDE DEF m
<1>6. 0 \in P
  <2>1. Before(0) = {}
    OBVIOUS
  <2>2. Left(s, {}) = Range(s)
    BY DEF Left
  <2>3. Kept(s, Range(s)) = s
    BY <1>1, <1>5, KeptAll
  <2>4. Q(0)
    <3>1. L[0] = Kept(s, Left(s, Before(0)))
      <4> HIDE DEF Before
      <4> QED
        BY <1>4, <2>1, <2>2, <2>3
    <3>2. \A j \in 1..Len(s) : j <= Len(L[0]) /\ L[0][j] = s[j]
      BY <1>1, <1>4
    <3> HIDE DEF Before
    <3> QED
      BY <3>1, <3>2
  <2> QED
    BY <2>4
<1>7. ASSUME NEW k \in Nat, k \in P PROVE k + 1 \in P
  <2>1. SUFFICES ASSUME k + 1 <= m PROVE Q(k + 1)
    OBVIOUS
  <2> DEFINE K == L[k]
             d == D[k + 1]
             T == {e \in Range(s) : e.label # s[d].label}
  <2>2. Q(k) /\ k + 1 \in 1..m /\ k \in 0..m /\ (k + 1) - 1 = k
    BY <1>2, <1>7, <2>1
  <2>3. d \in 1..Len(s) /\ \A h \in 1..k : d < D[h]
    <3>1. d \in 1..Len(s)
      BY <1>3, <2>2
    <3>2. ASSUME NEW h \in 1..k PROVE d < D[h]
      <4>1. h \in 1..m /\ h < k + 1
        BY <1>2, <2>1
      <4>2. D[h] > D[k + 1] /\ D[h] \in 1..Len(s)
        BY <1>3, <2>2, <4>1
      <4> QED
        BY <3>1, <4>2
    <3> QED
      BY <3>1, <3>2
  <2>4. K = Kept(s, Left(s, Before(k))) /\ K \in Seq(Entry)
    BY <1>4, <2>2
  <2>5. d <= Len(K) /\ K[d] = s[d]
    BY <2>2, <2>3
  <2>6. L[k + 1] = RemoveAt(K, d)
    <3>1. L[k + 1] = RemoveIndex(K, d)
      BY <1>4, <2>2
    <3> QED
      BY <2>5, <3>1 DEF RemoveIndex
  <2> HIDE DEF P, Q, Before, d
  <2>7. K \in Seq(Range(s)) /\ OwnLabels(K)
    <3>1. K \in Seq(Range(s))
      BY <1>5, <2>4, KeptIn
    <3>2. GoodLog(K, n)
      BY <2>4, KeptGood
    <3> QED
      BY <3>1, <3>2 DEF GoodLog
  <2> HIDE DEF K
  <2>8. Len(K) \in Nat /\ d \in 1..Len(K) /\ \A j \in 1..Len(K) : K[j] \in Range(s)
    BY <2>3, <2>5, <2>7
  <2>9. K[d] \notin T
    BY <2>5
  <2>10. \A j \in 1..Len(K) : j # d => K[j] \in T
    BY <2>5, <2>7, <2>8 DEF OwnLabels
  <2> HIDE DEF T
  <2>11. RemoveAt(K, d) = Kept(K, T)
    BY <2>4, <2>8, <2>9, <2>10, RemoveAtKeeps
  <2>12. Kept(K, T) = Kept(s, Left(s, Before(k)) \cap T)
    BY <1>1, <2>4, KeptKept
  <2>13. Left(s, Before(k)) \cap T = Left(s, Before(k + 1))
    <3>1. Before(k + 1) = Before(k) \cup {d}
      BY DEF Before, d
    <3> QED
      BY <3>1 DEF Left, T
  <2>14. ASSUME NEW j \in 1..Len(s), \A h \in 1..k + 1 : j < D[h]
         PROVE  j <= Len(L[k + 1]) /\ L[k + 1][j] = s[j]
    <3>1. j < d
      <4>1. k + 1 \in 1..k + 1
        OBVIOUS
      <4> QED
        BY <2>14, <4>1 DEF d
    <3>2. j <= Len(K) /\ K[j] = s[j]
      <4>1. \A h \in 1..k : j < D[h]
        BY <2>14
      <4> QED
        BY <2>2, <4>1 DEF Q, K
    <3>3. Len(RemoveAt(K, d)) = Len(K) - 1 /\ \A i \in 1..Len(K) - 1 : RemoveAt(K, d)[i] = IF i < d THEN K[i] ELSE K[i + 1]
      BY <2>4, <2>8, RowRemoved
    <3>4. j \in 1..Len(K) - 1 /\ j <= Len(K) - 1
      BY <2>8, <3>1
    <3> QED
      BY <2>6, <3>1, <3>2, <3>3, <3>4
  <2> QED
    BY <2>6, <2>11, <2>12, <2>13, <2>14 DEF Q
<1>8. m \in P
  <2>1. Nat \subseteq P
    <3> HIDE DEF P
    <3> QED
      BY <1>6, <1>7, NatSet
  <2> QED
    BY <1>2, <2>1
<1>9. L[m] = Kept(s, Left(s, Before(m)))
  <2>1. m <= m
    BY <1>2
  <2> QED
    BY <1>8, <2>1
<1>10. Before(m) = I
  <2>1. \A k \in 1..m : D[k] \in I
    BY <1>2 DEF m
  <2> QED
    BY <1>2, <2>1
<1> QED
  BY <1>9, <1>10 DEF m

-----------------------------------------------------------------------------

(* The labels in the log are its own and grow, now and when it was read,   *)
(* and what was read is what was asked for of the log as it was then.      *)
LogInv ==
  /\ added \in Nat
  /\ GoodLog(log, added) /\ GoodLog(asRead, added)
  /\ asked \in ReadOptions
  /\ read = Answer(asRead, asked)

(* The invariant of the log holds at the beginning.                        *)
LEMMA LogStarts == LogInit => LogInv
<1> SUFFICES ASSUME LogInit PROVE LogInv
  OBVIOUS
<1> DEFINE options == [order |-> "oldest", priority |-> Every, maxEntries |-> Limitless]
<1>1. log = <<>> /\ added = 0 /\ read = <<>> /\ asked = options /\ asRead = <<>>
  BY DEF LogInit
<1>2. GoodLog(<<>>, 0)
  BY DEF GoodLog, OwnLabels
<1>3. options \in ReadOptions
  BY DEF ReadOptions
<1>4. Answer(<<>>, options) = <<>>
  <2> DEFINE all == [i \in DOMAIN <<>> |-> [label |-> <<>>[i].label, priority |-> <<>>[i].priority, index |-> i - 1]]
             rows == Kept(all, {r \in Range(all) : options.priority \in {Every, r.priority}})
  <2>1. all = <<>>
    OBVIOUS
  <2>2. rows = <<>>
    <3> HIDE DEF all
    <3> QED
      BY <2>1, KeptNone
  <2> HIDE DEF rows, all
  <2>3. Len(rows) = 0 /\ 0 <= 0
    BY <2>2
  <2>4. options.maxEntries = Limitless
    OBVIOUS
  <2> HIDE DEF options
  <2> QED
    BY <2>2, <2>3, <2>4, Zenon DEF Answer, all, rows
<1> HIDE DEF options
<1> QED
  BY <1>1, <1>2, <1>3, <1>4 DEF LogInv

(* What a read answered is made of rows of the log as it was then.         *)
LEMMA AnswerAmong ==
    ASSUME NEW s \in Seq(Entry), NEW options \in ReadOptions, Answer(s, options) # TooMany
    PROVE  \A r \in Range(Answer(s, options)) : \E i \in 1..Len(s) : r.index + 1 = i /\ r.label = s[i].label
<1> DEFINE all == Rows(s)
           rows == Kept(all, Meant(s, options.priority))
           m == IF options.maxEntries = Limitless THEN Len(rows) ELSE options.maxEntries
           last == SubSeq(rows, Len(rows) - m + 1, Len(rows))
<1>1. Answer(s, options) \in {rows, last}
  BY Zenon DEF Answer, Rows, Meant
<1>2. rows \in Seq(Range(all))
  <2>1. all \in Seq(RowType) /\ \A i \in 1..Len(all) : all[i] \in Range(all)
    BY RowsAre
  <2>2. all \in Seq(Range(all))
    <3> HIDE DEF all
    <3> QED
      BY <2>1
  <2> QED
    BY <2>2, KeptIn
<1>3. options.maxEntries \in Nat \cup {Limitless}
  BY LogAssumption DEF ReadOptions
<1>4. ~ (Len(rows) <= m) => Len(rows) \in Nat /\ m \in Nat /\ m < Len(rows)
  <2> HIDE DEF rows
  <2> QED
    BY <1>2, <1>3
<1>5. Answer(s, options) = rows \/ (m \in Nat /\ m < Len(rows) /\ Answer(s, options) = last)
  BY <1>4, Zenon DEF Answer, Rows, Meant
<1>6. m \in Nat /\ m < Len(rows) => last \in Seq(Range(all))
  <2> HIDE DEF rows, m
  <2> SUFFICES ASSUME m \in Nat, m < Len(rows) PROVE SubSeq(rows, Len(rows) - m + 1, Len(rows)) \in Seq(Range(all))
    OBVIOUS
  <2>1. Len(rows) - m + 1 \in 1..Len(rows) + 1 /\ Len(rows) \in Nat
    BY <1>2
  <2> HIDE DEF all
  <2> QED
    BY <2>1, <1>2
<1>7. Answer(s, options) \in Seq(Range(all))
  <2> HIDE DEF rows, all, last, m
  <2> QED
    BY <1>2, <1>5, <1>6
<1>8. \A r \in Range(Answer(s, options)) : r \in Range(all)
  <2> DEFINE a == Answer(s, options)
  <2> HIDE DEF a, all
  <2>1. a \in Seq(Range(all))
    BY <1>7 DEF a
  <2>2. \A x \in DOMAIN a : a[x] \in Range(all)
    BY <2>1
  <2>3. \A r \in Range(a) : r \in Range(all)
    BY <2>2 DEF Range
  <2> QED
    BY <2>3 DEF a
<1>9. \A r \in Range(all) : \E i \in 1..Len(s) : r = [label |-> s[i].label, priority |-> s[i].priority, index |-> i - 1]
  <2>1. DOMAIN s = 1..Len(s)
    OBVIOUS
  <2> QED
    BY <2>1 DEF Range, Rows
<1>10. ASSUME NEW r \in Range(Answer(s, options)) PROVE \E i \in 1..Len(s) : r.index + 1 = i /\ r.label = s[i].label
  <2>1. PICK i \in 1..Len(s) : r = [label |-> s[i].label, priority |-> s[i].priority, index |-> i - 1]
    BY <1>8, <1>9
  <2>2. r.index = i - 1 /\ r.label = s[i].label /\ (i - 1) + 1 = i
    BY <2>1
  <2> QED
    BY <2>2
<1> QED
  BY <1>10

(* What is removed by rows that were read: positions of that log.          *)
RowPositions(rows) == {r.index + 1 : r \in rows}

LEMMA RowsArePositions ==
    ASSUME LogInv, read # TooMany, NEW rows \in SUBSET Range(read)
    PROVE  /\ RowPositions(rows) \in SUBSET (1..Len(asRead))
           /\ {r.label : r \in rows} = {asRead[i].label : i \in RowPositions(rows)}
<1>1. asRead \in Seq(Entry) /\ asked \in ReadOptions /\ read = Answer(asRead, asked)
  BY DEF LogInv, GoodLog
<1>2. \A r \in rows : \E i \in 1..Len(asRead) : r.index + 1 = i /\ r.label = asRead[i].label
  BY <1>1, AnswerAmong
<1> QED
  BY <1>2 DEF RowPositions

LEMMA RemovalSteps ==
    ASSUME LogInv, read # TooMany, NEW rows \in SUBSET Range(read)
    PROVE  /\ Descends(EntryIndexes(rows), RowPositions(rows))
           /\ EntryIndexes(rows) \in Seq(Nat \ {0})
<1>1. Len(asRead) \in Nat /\ RowPositions(rows) \in SUBSET (1..Len(asRead))
  BY RowsArePositions DEF LogInv, GoodLog
<1>2. \E s : Descends(s, RowPositions(rows))
  BY <1>1, DescendingExists
<1>3. EntryIndexes(rows) = CHOOSE s \in Orderings(RowPositions(rows)) : \A j, k \in DOMAIN s : j < k => s[j] > s[k]
  BY Zenon DEF EntryIndexes, RowPositions
<1>4. Descends(EntryIndexes(rows), RowPositions(rows))
  BY <1>2, <1>3, Zenon DEF Descends
<1>5. EntryIndexes(rows) \in Seq(RowPositions(rows))
  BY <1>1, <1>4, DescendingIsAll, Zenon DEF ListsAll
<1>6. RowPositions(rows) \subseteq Nat \ {0}
  BY <1>1
<1> HIDE DEF RowPositions
<1> QED
  BY <1>4, <1>5, <1>6

LEMMA RemovalOf ==
    ASSUME LogInv, read # TooMany, NEW rows \in SUBSET Range(read)
    PROVE  /\ GoodLog(AfterRemoval(rows), added)
           /\ log = asRead => AfterRemoval(rows) = Kept(log, {e \in Range(log) : e.label \notin {r.label : r \in rows}})
<1> DEFINE D == EntryIndexes(rows)
           X == {s \in Seq(Entry) : GoodLog(s, added)}
<1>1. D \in Seq(Nat \ {0}) /\ Descends(D, RowPositions(rows))
  BY RemovalSteps
<1>2. added \in Nat /\ GoodLog(log, added) /\ log \in Seq(Entry)
  BY DEF LogInv, GoodLog
<1> HIDE DEF D
<1>3. GoodLog(AfterRemoval(rows), added)
  <2>1. \A s \in X, i \in Nat \ {0} : RemoveIndex(s, i) \in X
    BY <1>2, RemoveIndexIs, GoodRemoved
  <2>2. log \in X
    BY <1>2
  <2>3. \A s \in X : GoodLog(s, added)
    OBVIOUS
  <2> HIDE DEF X
  <2>4. PICK L : RemovedSteps(L, X, log, D)
    BY <1>1, <2>1, <2>2, RemovedFold, Zenon
  <2>5. L \in [0..Len(D) -> X] /\ AfterRemoval(rows) = L[Len(D)] /\ Len(D) \in Nat
    BY <1>1, <2>4 DEF RemovedSteps, AfterRemoval, D
  <2>6. AfterRemoval(rows) \in X
    BY <2>5
  <2> QED
    BY <2>3, <2>6
<1>4. ASSUME log = asRead PROVE AfterRemoval(rows) = Kept(log, {e \in Range(log) : e.label \notin {r.label : r \in rows}})
  <2>1. \A s \in Seq(Entry), i \in Nat \ {0} : RemoveIndex(s, i) \in Seq(Entry)
    BY RemoveIndexIs
  <2>2. PICK L : RemovedSteps(L, Seq(Entry), log, D)
    BY <1>1, <1>2, <2>1, RemovedFold, Zenon
  <2>3. AfterRemoval(rows) = L[Len(D)]
    BY <2>2, Zenon DEF RemovedSteps, AfterRemoval, D
  <2>4. RowPositions(rows) \in SUBSET (1..Len(log)) /\ {r.label : r \in rows} = {log[i].label : i \in RowPositions(rows)}
    BY <1>4, RowsArePositions
  <2>5. L[Len(D)] = Kept(log, Left(log, RowPositions(rows)))
    BY <1>1, <1>2, <2>2, <2>4, RemovalKeeps, Zenon
  <2>6. Left(log, RowPositions(rows)) = {e \in Range(log) : e.label \notin {r.label : r \in rows}}
    BY <2>4 DEF Left
  <2> QED
    BY <2>3, <2>5, <2>6
<1> QED
  BY <1>3, <1>4

(* An entry more, with a label of its own.                                 *)
LEMMA GoodAppended ==
    ASSUME NEW n \in Nat, NEW s, GoodLog(s, n), NEW p \in Priorities
    PROVE  GoodLog(Append(s, [label |-> n, priority |-> p]), n + 1) /\ GoodLog(s, n + 1)
<1> DEFINE e == [label |-> n, priority |-> p]
           t == Append(s, e)
<1>1. e \in Entry /\ e.label = n
  BY DEF Entry
<1>2. s \in Seq(Entry) /\ OwnLabels(s) /\ \A i \in 1..Len(s) : s[i].label < n
  BY DEF GoodLog
<1> HIDE DEF e
<1>3. t \in Seq(Entry) /\ Len(t) = Len(s) + 1 /\ t[Len(s) + 1] = e /\ Len(s) \in Nat /\ \A i \in 1..Len(s) : t[i] = s[i]
  BY <1>1, <1>2
<1> HIDE DEF t
<1>4. \A i \in 1..Len(s) : s[i].label \in Nat
  <2>1. \A i \in 1..Len(s) : s[i] \in Entry
    BY <1>2
  <2> QED
    BY <2>1 DEF Entry
<1>5. \A i \in 1..Len(t) : t[i].label < n + 1
  BY <1>1, <1>2, <1>3, <1>4
<1>6. OwnLabels(t)
  <2> SUFFICES ASSUME NEW i \in 1..Len(t), NEW j \in 1..Len(t), t[i].label = t[j].label PROVE i = j
    BY DEF OwnLabels
  <2>1. CASE i <= Len(s) /\ j <= Len(s)
    BY <2>1, <1>2, <1>3 DEF OwnLabels
  <2>2. CASE i <= Len(s) /\ j = Len(s) + 1
    BY <2>2, <1>1, <1>2, <1>3, <1>4
  <2>3. CASE i = Len(s) + 1 /\ j <= Len(s)
    BY <2>3, <1>1, <1>2, <1>3, <1>4
  <2> QED
    BY <2>1, <2>2, <2>3, <1>3
<1>7. \A i \in 1..Len(s) : s[i].label < n + 1
  BY <1>2, <1>4
<1> QED
  BY <1>2, <1>3, <1>5, <1>6, <1>7 DEF GoodLog, t, e

LEMMA LogKeeps == LogInv /\ [LogNext]_logVars => LogInv'
<1> SUFFICES ASSUME LogInv, [LogNext]_logVars PROVE LogInv'
  OBVIOUS
<1>0. added \in Nat /\ GoodLog(log, added) /\ GoodLog(asRead, added) /\ asked \in ReadOptions /\ read = Answer(asRead, asked)
  BY DEF LogInv
<1>1. CASE ReadEntries
  <2>1. PICK options \in ReadOptions : read' = Entries(options) /\ asked' = options /\ asRead' = log /\ UNCHANGED <<log, added>>
    BY <1>1 DEF ReadEntries
  <2>2. Entries(options) = Answer(log, options)
    BY <1>0, EntriesAnswer DEF GoodLog
  <2>3. read' = Answer(log, options) /\ log' = log /\ added' = added
    BY <2>1, <2>2
  <2>4. read' = Answer(asRead', asked')
    BY <2>1, <2>3, Zenon DEF Answer
  <2> QED
    BY <1>0, <2>1, <2>3, <2>4 DEF LogInv
<1>2. CASE AddEntry
  <2>1. PICK p \in Priorities : log' = Append(log, [label |-> added, priority |-> p])
    BY <1>2 DEF AddEntry
  <2>2. added' = added + 1 /\ read' = read /\ asked' = asked /\ asRead' = asRead
    BY <1>2 DEF AddEntry
  <2>3. GoodLog(log', added') /\ GoodLog(asRead, added + 1)
    BY <1>0, <2>1, <2>2, GoodAppended
  <2>4. added' \in Nat
    BY <1>0, <2>2
  <2>5. read' = Answer(asRead', asked')
    BY <1>0, <2>2, Zenon DEF Answer
  <2> QED
    BY <1>0, <2>2, <2>3, <2>4, <2>5 DEF LogInv
<1>3. CASE RemoveEntries
  <2>1. PICK rows \in SUBSET Range(read) : RemoveRows(rows)
    BY <1>3 DEF RemoveEntries
  <2>2. GoodLog(AfterRemoval(rows), added)
    BY <1>3, RemovalOf DEF RemoveEntries
  <2>3. log' = AfterRemoval(rows) /\ UNCHANGED <<added, read, asked, asRead>>
    BY <2>1, Zenon DEF RemoveRows
  <2> QED
    BY <1>0, <2>2, <2>3 DEF LogInv, Answer
<1>4. CASE ClearLog
  <2>1. PICK p \in Priorities \cup {Every} : log' = Kept(log, {e \in Range(log) : ~Matches(e, p)})
    BY <1>4, Zenon DEF ClearLog
  <2>2. UNCHANGED <<added, read, asked, asRead>>
    BY <1>4 DEF ClearLog
  <2>3. GoodLog(log', added)
    BY <1>0, <2>1, KeptGood
  <2> QED
    BY <1>0, <2>2, <2>3 DEF LogInv, Answer
<1>5. CASE UNCHANGED logVars
  BY <1>0, <1>5 DEF logVars, LogInv, Answer
<1> QED
  BY <1>1, <1>2, <1>3, <1>4, <1>5 DEF LogNext

(* A removal takes the entries that were read away and no others.          *)
LEMMA LogRemoves ==
    ASSUME LogInv, [LogNext]_logVars
    PROVE  [\A rows \in SUBSET (IF read = TooMany THEN {} ELSE Range(read)) :
              log = asRead /\ rows # {} /\ RemoveRows(rows) =>
                log' = Kept(log, {e \in Range(log) : e.label \notin {r.label : r \in rows}})]_logVars
<1> SUFFICES ASSUME NEW rows \in SUBSET (IF read = TooMany THEN {} ELSE Range(read)), log = asRead, rows # {}, RemoveRows(rows)
             PROVE  log' = Kept(log, {e \in Range(log) : e.label \notin {r.label : r \in rows}})
  OBVIOUS
<1>1. read # TooMany /\ rows \in SUBSET Range(read)
  OBVIOUS
<1>2. AfterRemoval(rows) = Kept(log, {e \in Range(log) : e.label \notin {r.label : r \in rows}})
  BY <1>1, RemovalOf
<1>3. log' = AfterRemoval(rows)
  BY Zenon DEF RemoveRows
<1> QED
  BY <1>2, <1>3

LEMMA LogHolds == LogSpec => []LogInv
<1> QED
  BY LogStarts, LogKeeps, PTL DEF LogSpec

(* ObjectLog.entries answers the entries of the level, all of them or the  *)
(* newest, each with its position, and refuses from the oldest exactly     *)
(* when there are more than maxEntries: for any log, levels and limits.    *)
THEOREM LogIsRead == LogSpec => []ReadsWhatWasAsked
<1>1. LogInv => ReadsWhatWasAsked
  BY Zenon DEF LogInv, ReadsWhatWasAsked, Answer
<1> QED
  BY <1>1, LogHolds, PTL

(* ObjectLog.removeAll removes exactly the entries that were read as long  *)
(* as nobody changed the log since: positions do not shift under it.       *)
THEOREM LogIsRemoved == LogSpec => RemovesWhatWasRead
<1> QED
  BY LogHolds, LogRemoves, PTL DEF LogSpec, RemovesWhatWasRead

-----------------------------------------------------------------------------
(* Values                                                                  *)

(* What is left of a division.                                             *)
LEMMA RestOf ==
    ASSUME NEW M \in Nat, M > 0, NEW x \in Int
    PROVE  /\ x % M \in 0..M - 1
           /\ \E q \in Int : x % M = x - M * q
           /\ x \in 0..M - 1 => x % M = x
           /\ x \in -M..-1 => x % M = x + M
<1>1. x % M \in 0..M - 1
  OBVIOUS
<1>2. x % M = x - M * (x \div M) /\ x \div M \in Int
  BY SMTT(30)
<1>3. x \in 0..M - 1 => x % M = x
  OBVIOUS
<1>4. x \in -M..-1 => x % M = x + M
  OBVIOUS
<1> QED
  BY <1>1, <1>2, <1>3, <1>4

Sixteenth == Oops \div 16

(* The sizes: a sixteenth of the OOPs is enough for the special objects.   *)
LEMMA SizesAre ==
    /\ Sixteenth \in Nat /\ Sixteenth >= 32
    /\ Oops = 16 * Sixteenth /\ Oops \div 2 = 8 * Sixteenth /\ Oops \div 8 = 2 * Sixteenth
<1>1. Oops \in Nat /\ Oops > 0 /\ Oops % 512 = 0
  BY ValuesAssumption
<1> QED
  BY <1>1 DEF Sixteenth

(* A SmallInteger is one of the OOPs, and has the tag.                     *)
LEMMA SmallintIs ==
    ASSUME NEW n \in Int
    PROVE  SmallintToOop(n) \in 0..Oops - 1 /\ IsSmallint(SmallintToOop(n))
<1> DEFINE o == SmallintToOop(n)
           x == n * 8 + 2
<1>1. Sixteenth \in Nat /\ Oops = 16 * Sixteenth /\ Oops \in Nat /\ Oops > 0 /\ x \in Int
  BY SizesAre, ValuesAssumption
<1>2. o \in 0..Oops - 1 /\ \E q \in Int : o = x - Oops * q
  <2> HIDE DEF x
  <2> QED
    BY <1>1, RestOf DEF SmallintToOop, x
<1>3. PICK q \in Int : o = x - Oops * q
  BY <1>2
<1> DEFINE z == Sixteenth * q
<1>4. z \in Int /\ Oops * q = 16 * z
  BY <1>1
<1> HIDE DEF z, o
<1>5. o = 8 * (n - 2 * z) + 2
  BY <1>3, <1>4
<1>6. n - 2 * z \in Int
  BY <1>4
<1>7. o % 8 = 2
  BY <1>5, <1>6
<1> QED
  BY <1>2, <1>7 DEF IsSmallint, o

(* It keeps the numbers it has room for, and only those.                   *)
LEMMA SmallintKeeps ==
    ASSUME NEW n \in Int
    PROVE  /\ OopToSmallint(SmallintToOop(n)) \in SmallIntegers
           /\ n \in SmallIntegers => OopToSmallint(SmallintToOop(n)) = n
<1> DEFINE o == SmallintToOop(n)
           x == n * 8 + 2
           N == Sixteenth
<1>1. N \in Nat /\ N >= 32 /\ Oops = 16 * N /\ Oops \div 2 = 8 * N /\ Oops \in Nat /\ Oops > 0 /\ x \in Int
  BY SizesAre, ValuesAssumption
<1>2. SmallIntegers = -N..N - 1
  BY DEF SmallIntegers, Sixteenth
<1>3. o \in 0..Oops - 1
  BY SmallintIs
<1>4. (x \in 0..Oops - 1 => o = x) /\ (x \in -Oops..-1 => o = x + Oops)
  <2> HIDE DEF x
  <2> QED
    BY <1>1, RestOf DEF SmallintToOop, x
<1>5. OopToSmallint(o) = (IF o >= 8 * N THEN o - 16 * N ELSE o) \div 8
  BY <1>1, Zenon DEF OopToSmallint
<1> HIDE DEF o, N
<1>6. OopToSmallint(o) \in -N..N - 1
  <2>1. CASE o >= 8 * N
    <3>1. o - 16 * N \in -(8 * N)..-1
      BY <1>1, <1>3, <2>1
    <3>2. (o - 16 * N) \div 8 \in -N..-1
      BY <1>1, <3>1
    <3> QED
      BY <1>1, <1>5, <2>1, <3>2
  <2>2. CASE ~ (o >= 8 * N)
    <3>1. o \in 0..8 * N - 1
      BY <1>1, <1>3, <2>2
    <3>2. o \div 8 \in 0..N - 1
      BY <1>1, <3>1
    <3> QED
      BY <1>1, <1>5, <2>2, <3>2
  <2> QED
    BY <2>1, <2>2
<1>7. ASSUME n \in -N..N - 1 PROVE OopToSmallint(o) = n
  <2>1. CASE n >= 0
    <3>1. x \in 0..Oops - 1 /\ x < 8 * N
      BY <1>1, <1>7, <2>1
    <3>2. o = n * 8 + 2 /\ ~ (o >= 8 * N)
      BY <1>4, <3>1, <1>1
    <3>3. (n * 8 + 2) \div 8 = n
      OBVIOUS
    <3> QED
      BY <1>5, <3>2, <3>3
  <2>2. CASE n < 0
    <3>1. x \in -Oops..-1
      BY <1>1, <1>7, <2>2
    <3>2. o = n * 8 + 2 + 16 * N
      BY <1>1, <1>4, <3>1
    <3>3. o >= 8 * N /\ o - 16 * N = n * 8 + 2
      BY <1>1, <1>7, <3>2
    <3>4. (n * 8 + 2) \div 8 = n
      OBVIOUS
    <3> QED
      BY <1>5, <3>3, <3>4
  <2> QED
    BY <2>1, <2>2
<1> QED
  BY <1>2, <1>6, <1>7 DEF o

(* As long as the Stone holds no more than MaxObjects objects, it has an   *)
(* OOP for another.                                                        *)
LEMMA OopIsFree ==
    ASSUME DOMAIN objects \subseteq ObjectOops, IsFiniteSet(DOMAIN objects), Cardinality(DOMAIN objects) <= MaxObjects
    PROVE  FreeOop \in ObjectOops /\ FreeOop \notin DOMAIN objects
<1>1. SUFFICES ASSUME ObjectOops \subseteq DOMAIN objects PROVE FALSE
  BY DEF FreeOop
<1> DEFINE m == 2 * Sixteenth - 1
           f == [k \in 1..m |-> 8 * k + 1]
<1>2. m \in Nat /\ Oops = 8 * m + 8
  BY SizesAre
<1>3. MaxObjects \in Nat /\ MaxObjects < m
  BY SizesAre, ValuesAssumption
<1> HIDE DEF m
<1>4. \A k \in 1..m : f[k] \in ObjectOops
  BY <1>2 DEF ObjectOops
<1>5. f \in Injection(1..m, ObjectOops)
  BY <1>4 DEF Injection, IsInjective
<1>6. IsFiniteSet(1..m) /\ Cardinality(1..m) = m
  <2>1. IsFiniteSet(1..m) /\ Cardinality(1..m) = IF 1 > m THEN 0 ELSE m - 1 + 1
    BY <1>2, FS_Interval
  <2> QED
    BY <1>2, <2>1
<1>7. IsFiniteSet(ObjectOops) /\ Cardinality(ObjectOops) <= Cardinality(DOMAIN objects)
  BY <1>1, FS_Subset
<1> HIDE DEF f
<1>8. m <= Cardinality(ObjectOops)
  BY <1>5, <1>6, <1>7, FS_Injection
<1>9. Cardinality(ObjectOops) \in Nat /\ Cardinality(DOMAIN objects) \in Nat
  BY <1>7, FS_CardinalityType
<1> QED
  BY <1>2, <1>3, <1>7, <1>8, <1>9

-----------------------------------------------------------------------------

(* A value that was written is one of these OOPs.                          *)
WrittenAs(v, o) ==
  /\ v.type = "null" => o = OopNil
  /\ v.type = "boolean" => o = BoolToOop(v.is)
  /\ v.type = "bigint" \/ IsSafeInteger(v) => o = SmallintToOop(v.is)
  /\ v.type = "number" /\ ~IsSafeInteger(v) => o \in DOMAIN objects /\ objects[o].class = "Float" /\ objects[o].is = v.is
  /\ v.type = "string" => o \in DOMAIN objects /\ objects[o].class = "String" /\ objects[o].is = v.is
  /\ v.type = "handle" => o = v.is
  /\ v.type # "notFinite"

(* The objects of the Stone have OOPs of objects, and there is room for    *)
(* the next.                                                               *)
ObjectsInv ==
  /\ DOMAIN objects \subseteq ObjectOops /\ IsFiniteSet(DOMAIN objects)
  /\ There \subseteq DOMAIN objects /\ \A o \in There : objects[o].class = "Object"
  /\ \A o \in DOMAIN objects : objects[o].class = "Float" => objects[o].is \in Int
  /\ oop = Unset => Cardinality(DOMAIN objects) <= MaxObjects

(* What an OOP stands for, and what is read of it: its number when a call  *)
(* did not tell what it is, and nothing when the bytes did not come.       *)
Marshal(o) ==
  IF IsImmediate(o) THEN MarshalImmediate(o)
  ELSE IF objects[o].class = "Float" THEN [type |-> "number", is |-> objects[o].is]
  ELSE IF objects[o].class = "String" THEN [type |-> "string", is |-> objects[o].is]
  ELSE AsOop(o)

IsReadAs(v, o) ==
  \/ ~ Missed /\ v = Marshal(o)
  \/ Missed /\ v = AsOop(o)
  \/ ~ Missed /\ v = NotAnswered /\ "bytes" \in unanswered
       /\ o \in DOMAIN objects /\ objects[o].class = "String"

(* A value is written as an OOP of its kind, and what is read is what that *)
(* OOP stands for, as far as the calls told it.                            *)
ValuesInv ==
  /\ IsValue(value) /\ stringClass \in {"unasked", "known", "missing"}
  /\ ObjectsInv
  /\ oop \in {Unset, Refused} \/ WrittenAs(value, oop)
  /\ readBack # Unread => WrittenAs(value, oop) /\ IsReadAs(readBack, oop)

(* What is read of each of these OOPs.                                     *)
LEMMA MarshalIs ==
    ASSUME ObjectsInv, IsValue(value), WrittenAs(value, oop)
    PROVE  /\ value.type = "null" => Marshal(oop) = [type |-> "null", is |-> 0]
           /\ value.type = "boolean" => Marshal(oop) = [type |-> "boolean", is |-> value.is]
           /\ value.type = "bigint" \/ IsSafeInteger(value) =>
                Marshal(oop) = [type |-> "bigint", is |-> OopToSmallint(SmallintToOop(value.is))]
           /\ value.type = "number" /\ ~IsSafeInteger(value) => Marshal(oop) = [type |-> "number", is |-> value.is]
           /\ value.type = "string" => Marshal(oop) = [type |-> "string", is |-> value.is]
           /\ value.type = "handle" => Marshal(oop) = [type |-> "bigint", is |-> value.is]
<1>1. \A o \in ObjectOops : o # OopNil /\ o # OopTrue /\ o # OopFalse /\ ~IsSmallint(o) /\ ~IsChar(o)
  <2> SUFFICES ASSUME NEW o \in ObjectOops
               PROVE  o # OopNil /\ o # OopTrue /\ o # OopFalse /\ ~IsSmallint(o) /\ ~IsChar(o)
    OBVIOUS
  <2>1. o \in Int /\ o % 8 = 1
    BY ValuesAssumption DEF ObjectOops
  <2> QED
    BY <2>1 DEF OopNil, OopTrue, OopFalse, IsSmallint, IsChar
<1>10. \A o \in {OopNil, OopTrue, OopFalse} : ~IsSmallint(o) /\ ~IsChar(o) /\ o \notin DOMAIN objects
  <2>1. \A o \in {OopNil, OopTrue, OopFalse} : ~IsSmallint(o) /\ ~IsChar(o)
    BY DEF IsSmallint, IsChar, OopNil, OopTrue, OopFalse
  <2>2. \A o \in {OopNil, OopTrue, OopFalse} : o \notin ObjectOops
    BY <1>1
  <2> QED
    BY <2>1, <2>2 DEF ObjectsInv
<1>11. OopNil # OopTrue /\ OopNil # OopFalse /\ OopTrue # OopFalse
  BY DEF OopNil, OopTrue, OopFalse
<1>2. CASE value.type = "null"
  <2>1. oop = OopNil
    BY <1>2 DEF WrittenAs
  <2>2. Marshal(oop) = [type |-> "null", is |-> 0]
    BY <2>1, <1>10, <1>11, Zenon DEF Marshal, MarshalImmediate, IsImmediate
  <2> QED
    BY <1>2, <2>2 DEF IsSafeInteger
<1>3. CASE value.type = "boolean"
  <2>1. value.is \in BOOLEAN /\ oop = BoolToOop(value.is)
    BY <1>3 DEF WrittenAs, IsValue
  <2>2. Marshal(OopTrue) = [type |-> "boolean", is |-> TRUE] /\ Marshal(OopFalse) = [type |-> "boolean", is |-> FALSE]
    BY <1>10, <1>11, Zenon DEF Marshal, MarshalImmediate, IsImmediate
  <2>3. Marshal(oop) = [type |-> "boolean", is |-> value.is]
    BY <2>1, <2>2, Zenon DEF BoolToOop
  <2> QED
    BY <1>3, <2>3 DEF IsSafeInteger
<1>4. CASE value.type = "bigint" \/ IsSafeInteger(value)
  <2>1. oop = SmallintToOop(value.is) /\ value.is \in Int /\ value.type \in {"bigint", "number"}
    BY <1>4 DEF WrittenAs, IsValue, IsSafeInteger
  <2>2. oop \in Int /\ oop % 8 = 2
    BY <2>1, SmallintIs DEF IsSmallint
  <2>3. oop # OopNil /\ oop # OopTrue /\ oop # OopFalse /\ IsSmallint(oop) /\ ~IsChar(oop) /\ oop \notin ObjectOops
    BY <2>2 DEF OopNil, OopTrue, OopFalse, IsSmallint, IsChar, ObjectOops
  <2>4. Marshal(oop) = [type |-> "bigint", is |-> OopToSmallint(oop)]
    BY <2>3, Zenon DEF Marshal, MarshalImmediate, IsImmediate
  <2> QED
    BY <1>4, <2>1, <2>4
<1>5. ASSUME oop \in ObjectOops
      PROVE  /\ oop \in DOMAIN objects /\ objects[oop].class = "Float" => Marshal(oop) = [type |-> "number", is |-> objects[oop].is]
             /\ oop \in DOMAIN objects /\ objects[oop].class = "String" => Marshal(oop) = [type |-> "string", is |-> objects[oop].is]
             /\ oop \in DOMAIN objects /\ objects[oop].class = "Object" => Marshal(oop) = [type |-> "bigint", is |-> oop]
  <2>1. oop # OopNil /\ oop # OopTrue /\ oop # OopFalse /\ ~IsSmallint(oop) /\ ~IsChar(oop)
    BY <1>1, <1>5
  <2>2. ~ IsImmediate(oop)
    BY <2>1, Zenon DEF IsImmediate
  <2> QED
    BY <2>2, Zenon DEF Marshal, AsOop
<1>6. CASE value.type = "number" /\ ~IsSafeInteger(value)
  <2>1. oop \in DOMAIN objects /\ objects[oop].class = "Float" /\ objects[oop].is = value.is
    BY <1>6 DEF WrittenAs
  <2>2. Marshal(oop) = [type |-> "number", is |-> value.is]
    BY <1>5, <2>1 DEF ObjectsInv
  <2> QED
    BY <1>6, <2>2
<1>7. CASE value.type = "string"
  <2>1. oop \in DOMAIN objects /\ objects[oop].class = "String" /\ objects[oop].is = value.is
    BY <1>7 DEF WrittenAs
  <2>2. Marshal(oop) = [type |-> "string", is |-> value.is]
    BY <1>5, <2>1 DEF ObjectsInv
  <2> QED
    BY <1>7, <2>2 DEF IsSafeInteger
<1>8. CASE value.type = "handle"
  <2>1. oop = value.is /\ value.is \in There
    BY <1>8 DEF WrittenAs, IsValue
  <2>2. oop \in DOMAIN objects /\ objects[oop].class = "Object"
    BY <2>1 DEF ObjectsInv
  <2>3. Marshal(oop) = [type |-> "bigint", is |-> value.is]
    BY <1>5, <2>1, <2>2 DEF ObjectsInv
  <2> QED
    BY <1>8, <2>3 DEF IsSafeInteger
<1>9. value.type \in {"null", "boolean", "number", "bigint", "string", "handle"}
  BY DEF IsValue, WrittenAs
<1> QED
  BY <1>2, <1>3, <1>4, <1>6, <1>7, <1>8, <1>9 DEF IsSafeInteger

(* Whether a number is the OOP of an object.                               *)
LEMMA ImmediateIs ==
    ASSUME ObjectsInv, NEW o, IsImmediate(o)
    PROVE  o \notin DOMAIN objects
<1> SUFFICES ASSUME o \in ObjectOops PROVE FALSE
  BY DEF ObjectsInv
<1>1. o \in Int /\ o % 8 = 1
  BY ValuesAssumption DEF ObjectOops
<1> QED
  BY <1>1 DEF IsImmediate, OopNil, OopTrue, OopFalse, IsSmallint, IsChar

LEMMA ObjectIs ==
    ASSUME ObjectsInv, IsValue(value), WrittenAs(value, oop), ~ IsImmediate(oop)
    PROVE  oop \in DOMAIN objects
<1>1. value.type \in {"null", "boolean", "number", "bigint", "string", "handle"}
  BY DEF IsValue, WrittenAs
<1>2. value.type # "null" /\ value.type # "boolean"
  BY DEF WrittenAs, BoolToOop, IsImmediate
<1>3. value.type # "bigint" /\ ~ IsSafeInteger(value)
  BY SmallintIs DEF WrittenAs, IsValue, IsSafeInteger, IsImmediate
<1> QED
  BY <1>1, <1>2, <1>3 DEF WrittenAs, IsValue, ObjectsInv

(* What a value was written as, of which a call did not tell what it is.   *)
LEMMA MissedIs ==
    ASSUME ObjectsInv, IsValue(value), WrittenAs(value, oop), Missed
    PROVE  oop \in ObjectOops /\ value.type # "handle"
<1>1. oop \in DOMAIN objects /\ objects[oop].class # "Object"
  BY DEF Missed
<1>2. value.type # "handle"
  BY <1>1 DEF WrittenAs, IsValue, ObjectsInv
<1> QED
  BY <1>1, <1>2 DEF ObjectsInv

LEMMA NotAnsweredIs ==
    ASSUME ObjectsInv, IsValue(value), WrittenAs(value, oop), oop \in DOMAIN objects, objects[oop].class = "String"
    PROVE  value.type = "string"
<1>1. oop \in ObjectOops
  BY DEF ObjectsInv
<1>2. oop % 8 = 1
  BY <1>1 DEF ObjectOops
<1>3. value.type \in {"null", "boolean", "number", "bigint", "string", "handle"}
  BY DEF IsValue, WrittenAs
<1>4. value.type # "null" /\ value.type # "boolean"
  BY <1>2 DEF WrittenAs, BoolToOop, OopNil, OopTrue, OopFalse
<1>5. value.type # "bigint" /\ ~ IsSafeInteger(value)
  <2> SUFFICES ASSUME value.type = "bigint" \/ IsSafeInteger(value) PROVE FALSE
    OBVIOUS
  <2>1. oop = SmallintToOop(value.is) /\ value.is \in Int
    BY DEF WrittenAs, IsValue, IsSafeInteger
  <2>2. oop % 8 = 2
    BY <2>1, SmallintIs DEF IsSmallint
  <2> QED
    BY <1>2, <2>2
<1>6. value.type # "number"
  BY <1>5 DEF WrittenAs
<1>7. value.type # "handle"
  BY DEF WrittenAs, IsValue, ObjectsInv
<1> QED
  BY <1>3, <1>4, <1>5, <1>6, <1>7

(* What the runs ask of it follows.                                        *)
LEMMA InvSurvives == ValuesInv => SurvivesTheStone
<1> SUFFICES ASSUME ValuesInv, readBack # Unread PROVE SurvivesTheStone
  BY DEF SurvivesTheStone
<1> DEFINE kept == IF IsSafeInteger(value) THEN "bigint" ELSE value.type
           same == readBack.type = kept /\ readBack.is = value.is
<1>1. IsValue(value) /\ ObjectsInv /\ WrittenAs(value, oop) /\ IsReadAs(readBack, oop)
  BY DEF ValuesInv
<1>2. value.type \in {"null", "boolean", "number", "bigint", "string", "handle"}
  BY <1>1 DEF IsValue, WrittenAs
<1>3. IsSafeInteger(value) => value.type = "number" /\ value.is \in Int /\ value.is \in SmallIntegers
  <2> SUFFICES ASSUME IsSafeInteger(value) PROVE value.type = "number" /\ value.is \in Int /\ value.is \in SmallIntegers
    OBVIOUS
  <2>1. Sixteenth \in Nat /\ SafeInteger \in Nat /\ SafeInteger < Sixteenth /\ SmallIntegers = -Sixteenth..Sixteenth - 1
    BY SizesAre, ValuesAssumption DEF SmallIntegers, Sixteenth
  <2>2. value.type = "number" /\ value.is \in -SafeInteger..SafeInteger
    BY DEF IsSafeInteger
  <2> QED
    BY <2>1, <2>2
<1>4. ASSUME Missed PROVE readBack = AsOop(oop) /\ value.type # "handle"
  BY <1>1, <1>4, MissedIs DEF IsReadAs
<1>5. ASSUME readBack = NotAnswered PROVE value.type = "string" /\ "bytes" \in unanswered
  <2>1. ~ Missed
    BY <1>4, <1>5 DEF AsOop, NotAnswered
  <2>2. readBack # Marshal(oop)
    BY <1>1, <1>2, <1>5, MarshalIs DEF NotAnswered
  <2> QED
    BY <1>1, <2>1, <2>2, NotAnsweredIs DEF IsReadAs
<1>6. ASSUME ~ Missed, readBack # NotAnswered PROVE readBack = Marshal(oop)
  BY <1>1, <1>6 DEF IsReadAs
<1>7. CASE value.type = "handle"
  <2>1. readBack = AsOop(value.is)
    BY <1>1, <1>7, <1>4, <1>5, <1>6, MarshalIs DEF AsOop
  <2> QED
    BY <1>7, <1>4, <1>5, <2>1 DEF SurvivesTheStone
<1>8. CASE Missed \/ readBack = NotAnswered
  BY <1>4, <1>5, <1>8 DEF SurvivesTheStone
<1>9. CASE value.type = "bigint" /\ ~ Missed /\ readBack # NotAnswered
  <2>1. value.is \in Int /\ readBack = [type |-> "bigint", is |-> OopToSmallint(SmallintToOop(value.is))]
    BY <1>1, <1>6, <1>9, MarshalIs DEF IsValue
  <2>2. kept = "bigint"
    BY <1>9 DEF IsSafeInteger
  <2>3. same <=> value.is \in SmallIntegers
    BY <2>1, <2>2, SmallintKeeps
  <2> QED
    BY <1>9, <2>3 DEF SurvivesTheStone
<1>10. CASE value.type \in {"null", "boolean", "number", "string"} /\ ~ Missed /\ readBack # NotAnswered
  <2>1. same
    <3>1. CASE IsSafeInteger(value)
      <4>1. readBack = [type |-> "bigint", is |-> OopToSmallint(SmallintToOop(value.is))] /\ kept = "bigint"
        BY <1>1, <1>6, <1>10, <3>1, MarshalIs
      <4> QED
        BY <1>3, <3>1, <4>1, SmallintKeeps
    <3>2. CASE ~IsSafeInteger(value)
      <4>1. kept = value.type
        BY <3>2
      <4>2. value.type = "null" => value.is = 0
        BY <1>1 DEF IsValue
      <4>3. readBack = [type |-> value.type, is |-> value.is]
        BY <1>1, <1>6, <1>10, <3>2, <4>2, MarshalIs
      <4> QED
        BY <4>1, <4>3
    <3> QED
      BY <3>1, <3>2
  <2> QED
    BY <1>10, <2>1 DEF SurvivesTheStone
<1> QED
  BY <1>2, <1>7, <1>8, <1>9, <1>10

(* Nothing is written at the beginning.                                    *)
LEMMA ValuesStart == ValuesInit => ValuesInv
<1> SUFFICES ASSUME ValuesInit PROVE ValuesInv
  OBVIOUS
<1>1. value \in Written /\ oop = Unset /\ readBack = Unread /\ stringClass = "unasked" /\ objects = [o \in There |-> [class |-> "Object", is |-> "there"]]
  BY DEF ValuesInit
<1>2. IsValue(value)
  BY <1>1, ValuesAssumption
<1>3. DOMAIN objects = There /\ \A o \in There : objects[o].class = "Object"
  BY <1>1
<1>4. There \subseteq ObjectOops /\ IsFiniteSet(There) /\ Cardinality(There) <= MaxObjects
  BY ValuesAssumption
<1>5. ObjectsInv
  BY <1>3, <1>4 DEF ObjectsInv
<1> QED
  BY <1>1, <1>2, <1>5 DEF ValuesInv

LEMMA WritingKeeps == ValuesInv /\ Write => ValuesInv'
<1> SUFFICES ASSUME ValuesInv, Write PROVE ValuesInv'
  OBVIOUS
<1>0. IsValue(value) /\ ObjectsInv /\ oop = Unset /\ value' = value /\ readBack' = readBack
      /\ stringClass' = stringClass /\ stringClass \in {"unasked", "known", "missing"}
  BY DEF ValuesInv, Write
<1>1. readBack = Unread
  <2> SUFFICES ASSUME readBack # Unread PROVE FALSE
    OBVIOUS
  <2>1. WrittenAs(value, Unset)
    BY <1>0 DEF ValuesInv
  <2>2. \A o \in ObjectOops : o # Unset
    BY ValuesAssumption DEF ObjectOops, Unset
  <2>3. OopNil # Unset /\ OopTrue # Unset /\ OopFalse # Unset
    BY DEF OopNil, OopTrue, OopFalse, Unset
  <2>4. \A n \in Int : SmallintToOop(n) # Unset
    <3> SUFFICES ASSUME NEW n \in Int PROVE SmallintToOop(n) # Unset
      OBVIOUS
    <3>1. SmallintToOop(n) \in 0..Oops - 1 /\ Oops \in Nat
      BY SmallintIs, ValuesAssumption
    <3> QED
      BY <3>1 DEF Unset
  <2>5. value.type \in {"null", "boolean", "number", "bigint", "string", "handle"}
    BY <1>0, <2>1 DEF IsValue, WrittenAs
  <2>6. value.type = "null" => FALSE
    BY <2>1, <2>3 DEF WrittenAs
  <2>7. value.type = "boolean" => FALSE
    BY <2>1, <2>3 DEF WrittenAs, BoolToOop
  <2>8. value.type = "bigint" \/ IsSafeInteger(value) => FALSE
    BY <1>0, <2>1, <2>4 DEF WrittenAs, IsValue, IsSafeInteger
  <2>9. value.type = "number" /\ ~IsSafeInteger(value) => FALSE
    BY <1>0, <2>1, <2>2 DEF WrittenAs, ObjectsInv
  <2>10. value.type = "string" => FALSE
    BY <1>0, <2>1, <2>2 DEF WrittenAs, ObjectsInv
  <2>11. value.type = "handle" => FALSE
    BY <1>0, <2>1, <2>2 DEF WrittenAs, ObjectsInv, IsValue
  <2> QED
    BY <2>5, <2>6, <2>7, <2>8, <2>9, <2>10, <2>11
<1>2. ASSUME UNCHANGED objects, oop' # Unset PROVE ObjectsInv'
  BY <1>0, <1>2 DEF ObjectsInv
<1>3. ASSUME NEW sort \in {"Float", "String"}, NEW is, sort = "Float" => is \in Int, Allocated(sort, is)
      PROVE  ObjectsInv' /\ oop' \in DOMAIN objects' /\ objects'[oop'].class = sort /\ objects'[oop'].is = is
  <2> DEFINE O == DOMAIN objects
             new == FreeOop
             r == [class |-> sort, is |-> is]
  <2>1. O \subseteq ObjectOops /\ IsFiniteSet(O) /\ There \subseteq O
    BY <1>0 DEF ObjectsInv
  <2>2. new \in ObjectOops /\ new \notin O
    BY <1>0, OopIsFree DEF ObjectsInv
  <2>3. oop' = new /\ objects' = [o \in O \cup {new} |-> IF o = new THEN r ELSE objects[o]]
    BY <1>3, Zenon DEF Allocated
  <2> HIDE DEF O, new
  <2>4. DOMAIN objects' = O \cup {new} /\ objects'[new] = r /\ \A o \in O : objects'[o] = objects[o]
    BY <2>2, <2>3
  <2>5. r.class = sort /\ r.is = is
    OBVIOUS
  <2> HIDE DEF r
  <2>6. IsFiniteSet(O \cup {new})
    BY <2>1, FS_AddElement
  <2>7. new # Unset
    BY <2>2, ValuesAssumption DEF ObjectOops, Unset
  <2>8. \A o \in There : objects'[o].class = "Object"
    BY <1>0, <2>1, <2>4 DEF ObjectsInv
  <2>9. \A o \in O : objects[o].class = "Float" => objects[o].is \in Int
    BY <1>0 DEF ObjectsInv, O
  <2>10. \A o \in DOMAIN objects' : objects'[o].class = "Float" => objects'[o].is \in Int
    BY <1>3, <2>4, <2>5, <2>9
  <2>11. ObjectsInv'
    BY <2>1, <2>2, <2>3, <2>4, <2>6, <2>7, <2>8, <2>10 DEF ObjectsInv
  <2> QED
    BY <2>3, <2>4, <2>5, <2>11
<1>4. ASSUME oop' = Refused, UNCHANGED objects PROVE ValuesInv'
  <2>1. oop' # Unset
    BY <1>4 DEF Refused, Unset
  <2>2. ObjectsInv'
    BY <1>2, <1>4, <2>1
  <2>3. readBack' = Unread /\ IsValue(value')
    BY <1>0, <1>1
  <2>4. IsValue(value)' /\ (readBack # Unread => WrittenAs(value, oop) /\ IsReadAs(readBack, oop))'
    BY <1>0, <2>3 DEF IsValue
  <2> QED
    BY <1>0, <1>4, <2>2, <2>4 DEF ValuesInv
<1>5. ASSUME ObjectsInv', WrittenAs(value, oop)' PROVE ValuesInv'
  BY <1>0, <1>1, <1>5 DEF ValuesInv, IsValue
<1>6. value.type \in {"null", "notFinite", "boolean", "number", "bigint", "string", "handle"}
  BY <1>0 DEF IsValue
<1>7. ASSUME Immediate(IF value.type = "null" THEN OopNil ELSE IF value.type = "boolean" THEN BoolToOop(value.is)
                       ELSE IF value.type = "handle" THEN value.is ELSE SmallintToOop(value.is)),
             value.type \in {"null", "boolean", "bigint", "handle"} \/ IsSafeInteger(value)
      PROVE  ObjectsInv' /\ WrittenAs(value, oop)'
  <2>1. UNCHANGED objects /\ oop' = IF value.type = "null" THEN OopNil ELSE IF value.type = "boolean" THEN BoolToOop(value.is)
                       ELSE IF value.type = "handle" THEN value.is ELSE SmallintToOop(value.is)
    BY <1>7, Zenon DEF Immediate
  <2>2. WrittenAs(value, oop)'
    BY <1>0, <1>7, <2>1 DEF WrittenAs, IsSafeInteger
  <2>3. oop' # Unset
    <3>1. value.type \in {"bigint", "number"} => SmallintToOop(value.is) \in 0..Oops - 1
      BY <1>0, SmallintIs DEF IsValue
    <3>2. value.type = "handle" => value.is \in ObjectOops
      BY <1>0, ValuesAssumption DEF IsValue
    <3>3. BoolToOop(value.is) # Unset /\ OopNil # Unset
      BY DEF BoolToOop, OopNil, OopTrue, OopFalse, Unset
    <3>4. Unset \notin 0..Oops - 1 /\ Unset \notin ObjectOops
      BY ValuesAssumption DEF Unset, ObjectOops
    <3> QED
      BY <1>7, <2>1, <3>1, <3>2, <3>3, <3>4 DEF IsSafeInteger
  <2> QED
    BY <1>2, <2>1, <2>2, <2>3
<1>8. CASE value.type = "null"
  <2>1. Immediate(OopNil)
    BY <1>8, Zenon DEF Write, IsSafeInteger
  <2> QED
    BY <1>5, <1>7, <1>8, <2>1
<1>9. CASE value.type = "boolean"
  <2>1. Immediate(BoolToOop(value.is))
    BY <1>9, Zenon DEF Write, IsSafeInteger
  <2> QED
    BY <1>5, <1>7, <1>9, <2>1
<1>10. CASE value.type = "bigint"
  <2>1. Immediate(SmallintToOop(value.is))
    BY <1>10, Zenon DEF Write, IsSafeInteger
  <2> QED
    BY <1>5, <1>7, <1>10, <2>1
<1>11. CASE value.type = "handle"
  <2>1. Immediate(value.is)
    BY <1>11, Zenon DEF Write, IsSafeInteger
  <2> QED
    BY <1>5, <1>7, <1>11, <2>1
<1>12. CASE value.type = "number" /\ IsSafeInteger(value)
  <2>1. Immediate(SmallintToOop(value.is))
    BY <1>12, Zenon DEF Write
  <2> QED
    BY <1>5, <1>7, <1>12, <2>1
<1>13. CASE value.type = "number" /\ ~IsSafeInteger(value)
  <2>1. Allocated("Float", value.is)
    BY <1>13, Zenon DEF Write
  <2>2. value.is \in Int
    BY <1>0, <1>13 DEF IsValue
  <2>3. ObjectsInv' /\ oop' \in DOMAIN objects' /\ objects'[oop'].class = "Float" /\ objects'[oop'].is = value.is
    BY <1>3, <2>1, <2>2
  <2>4. WrittenAs(value, oop)'
    BY <1>0, <1>13, <2>3 DEF WrittenAs, IsSafeInteger
  <2> QED
    BY <1>5, <2>3, <2>4
<1>14. CASE value.type = "string"
  <2>1. Allocated("String", value.is)
    BY <1>14, Zenon DEF Write, IsSafeInteger
  <2>3. ObjectsInv' /\ oop' \in DOMAIN objects' /\ objects'[oop'].class = "String" /\ objects'[oop'].is = value.is
    BY <1>3, <2>1
  <2>4. WrittenAs(value, oop)'
    BY <1>0, <1>14, <2>3 DEF WrittenAs, IsSafeInteger
  <2> QED
    BY <1>5, <2>3, <2>4
<1>15. CASE value.type = "notFinite"
  <2>1. oop' = Refused /\ UNCHANGED objects
    BY <1>15, Zenon DEF Write, IsSafeInteger
  <2> QED
    BY <1>4, <2>1
<1> QED
  BY <1>6, <1>8, <1>9, <1>10, <1>11, <1>12, <1>13, <1>14, <1>15

(* What is read of an object is what it stands for, unless a call failed.  *)
LEMMA ObjectIsRead ==
    ASSUME NEW fails \in SUBSET ValueFaults, ReadObject(fails), ~ IsImmediate(oop), oop \in DOMAIN objects,
           oop' = oop, objects' = objects, stringClass \in {"unasked", "known", "missing"}
    PROVE  IsReadAs(readBack, oop)' /\ stringClass' \in {"unasked", "known", "missing"}
<1> DEFINE object == objects[oop]
           isFloat == object.class = "Float" /\ "float" \notin fails
           hasClass == ~isFloat /\ "class" \notin fails
           keys == IF hasClass THEN StringClass(fails) ELSE stringClass
           isString == hasClass /\ object.class = "String" /\ keys = "known"
<1>1. /\ readBack' = IF isFloat THEN [type |-> "number", is |-> object.is]
                     ELSE IF ~isString THEN AsOop(oop)
                     ELSE IF "bytes" \in fails THEN NotAnswered
                     ELSE [type |-> "string", is |-> object.is]
      /\ stringClass' = keys /\ unanswered' = fails
  BY Zenon DEF ReadObject
<1>2. Marshal(oop)' = Marshal(oop) /\ AsOop(oop)' = AsOop(oop) /\ NotAnswered' = NotAnswered
  BY Zenon DEF Marshal, AsOop, NotAnswered, MarshalImmediate, IsImmediate
<1>3. Missed' <=> \/ object.class = "Float" /\ "float" \in fails
                  \/ object.class = "String" /\ ("class" \in fails \/ keys = "missing")
  BY <1>1 DEF Missed
<1>4. Marshal(oop) = IF object.class = "Float" THEN [type |-> "number", is |-> object.is]
                     ELSE IF object.class = "String" THEN [type |-> "string", is |-> object.is]
                     ELSE AsOop(oop)
  BY Zenon DEF Marshal
<1>5. stringClass' \in {"unasked", "known", "missing"}
  BY <1>1 DEF StringClass
<1>6. hasClass => keys \in {"known", "missing"}
  BY DEF StringClass
<1> HIDE DEF keys
<1>7. IsReadAs(readBack, oop)'
  BY <1>1, <1>2, <1>3, <1>4, <1>6 DEF IsReadAs
<1> QED
  BY <1>5, <1>7

LEMMA ReadKeeps == ValuesInv /\ Read => ValuesInv'
<1> SUFFICES ASSUME ValuesInv, Read PROVE ValuesInv'
  OBVIOUS
<1>1. /\ oop \notin {Unset, Refused}
      /\ IF IsImmediate(oop) THEN readBack' = MarshalImmediate(oop) /\ unanswered' = {} /\ UNCHANGED stringClass
         ELSE \E fails \in SUBSET ValueFaults : ReadObject(fails)
      /\ value' = value /\ oop' = oop /\ objects' = objects
  BY DEF Read
<1>2. IsValue(value) /\ ObjectsInv /\ WrittenAs(value, oop) /\ stringClass \in {"unasked", "known", "missing"}
  BY <1>1 DEF ValuesInv
<1>3. IsValue(value)' /\ ObjectsInv' /\ WrittenAs(value, oop)'
  BY <1>1, <1>2 DEF IsValue, ObjectsInv, WrittenAs, IsSafeInteger
<1>4. CASE IsImmediate(oop)
  <2>1. oop \notin DOMAIN objects
    BY <1>2, <1>4, ImmediateIs
  <2>2. ~ Missed'
    BY <1>1, <2>1 DEF Missed
  <2>3. readBack' = Marshal(oop) /\ Marshal(oop)' = Marshal(oop)
    BY <1>1, <1>4, Zenon DEF Marshal, AsOop, MarshalImmediate, IsImmediate
  <2> QED
    BY <1>1, <1>2, <1>3, <1>4, <2>2, <2>3 DEF ValuesInv, IsReadAs
<1>5. CASE ~ IsImmediate(oop)
  <2>1. oop \in DOMAIN objects
    BY <1>2, <1>5, ObjectIs
  <2> QED
    BY <1>1, <1>2, <1>3, <1>5, <2>1, ObjectIsRead DEF ValuesInv
<1> QED
  BY <1>4, <1>5

LEMMA WriteAgainKeeps == ValuesInv /\ WriteAgain => ValuesInv'
<1> SUFFICES ASSUME ValuesInv, WriteAgain PROVE ValuesInv'
  OBVIOUS
<1>1. /\ readBack \notin {Unread, NotAnswered} /\ Cardinality(DOMAIN objects) <= MaxObjects
      /\ value' = readBack /\ oop' = Unset /\ readBack' = Unread /\ objects' = objects /\ stringClass' = stringClass
  BY DEF WriteAgain
<1>2. /\ IsValue(value) /\ ObjectsInv /\ WrittenAs(value, oop) /\ stringClass \in {"unasked", "known", "missing"}
      /\ readBack = Marshal(oop) \/ (Missed /\ readBack = AsOop(oop))
  <2>1. /\ IsValue(value) /\ ObjectsInv /\ stringClass \in {"unasked", "known", "missing"}
        /\ WrittenAs(value, oop) /\ IsReadAs(readBack, oop)
    BY <1>1, Zenon DEF ValuesInv
  <2> QED
    BY <1>1, <2>1, Zenon DEF IsReadAs
<1>3. value.type \in {"null", "boolean", "number", "bigint", "string", "handle"}
  BY <1>2 DEF IsValue, WrittenAs
<1>4. value.type \in {"bigint", "number"} => value.is \in Int /\ OopToSmallint(SmallintToOop(value.is)) \in Int
  <2> SUFFICES ASSUME value.type \in {"bigint", "number"} PROVE value.is \in Int /\ OopToSmallint(SmallintToOop(value.is)) \in Int
    OBVIOUS
  <2>1. value.is \in Int
    BY <1>2 DEF IsValue
  <2>2. OopToSmallint(SmallintToOop(value.is)) \in SmallIntegers
    BY <2>1, SmallintKeeps
  <2>3. SmallIntegers \subseteq Int
    BY SizesAre DEF SmallIntegers, Sixteenth
  <2> QED
    BY <2>1, <2>2, <2>3
<1>5. value.type = "handle" => value.is \in Int
  <2>1. value.type = "handle" => value.is \in ObjectOops
    BY <1>2, ValuesAssumption DEF IsValue
  <2>2. ObjectOops \subseteq Int
    BY DEF ObjectOops
  <2> QED
    BY <2>1, <2>2
<1>6. ASSUME Missed, readBack = AsOop(oop) PROVE IsValue(readBack)
  <2>1. oop \in ObjectOops
    BY <1>2, <1>6, MissedIs
  <2>2. oop \in Int
    BY <2>1 DEF ObjectOops
  <2> QED
    BY <1>6, <2>2 DEF AsOop, IsValue
<1>7. ASSUME readBack = Marshal(oop) PROVE IsValue(readBack)
  <2>1. CASE value.type = "bigint" \/ IsSafeInteger(value)
    <3>1. readBack = [type |-> "bigint", is |-> OopToSmallint(SmallintToOop(value.is))]
      BY <1>2, <1>7, <2>1, MarshalIs
    <3> QED
      BY <1>4, <2>1, <3>1 DEF IsValue, IsSafeInteger
  <2>2. CASE value.type = "number" /\ ~IsSafeInteger(value)
    <3>1. readBack = [type |-> "number", is |-> value.is]
      BY <1>2, <1>7, <2>2, MarshalIs
    <3> QED
      BY <1>4, <2>2, <3>1 DEF IsValue
  <2>3. CASE value.type = "null"
    <3>1. readBack = [type |-> "null", is |-> 0]
      BY <1>2, <1>7, <2>3, MarshalIs
    <3> QED
      BY <3>1 DEF IsValue
  <2>4. CASE value.type = "boolean"
    <3>1. readBack = [type |-> "boolean", is |-> value.is] /\ value.is \in BOOLEAN
      BY <1>2, <1>7, <2>4, MarshalIs DEF IsValue
    <3> QED
      BY <3>1 DEF IsValue
  <2>5. CASE value.type = "string"
    <3>1. readBack = [type |-> "string", is |-> value.is]
      BY <1>2, <1>7, <2>5, MarshalIs
    <3> QED
      BY <3>1 DEF IsValue
  <2>6. CASE value.type = "handle"
    <3>1. readBack = [type |-> "bigint", is |-> value.is]
      BY <1>2, <1>7, <2>6, MarshalIs
    <3> QED
      BY <1>5, <2>6, <3>1 DEF IsValue
  <2> QED
    BY <1>3, <2>1, <2>2, <2>3, <2>4, <2>5, <2>6
<1>8. IsValue(value)'
  BY <1>1, <1>2, <1>6, <1>7 DEF IsValue
<1>9. ObjectsInv'
  BY <1>1, <1>2 DEF ObjectsInv
<1>10. (oop \in {Unset, Refused} \/ WrittenAs(value, oop))' /\ ~ (readBack # Unread)'
  BY <1>1
<1> QED
  BY <1>1, <1>2, <1>8, <1>9, <1>10 DEF ValuesInv

LEMMA ValuesHold == ValuesSpec => []ValuesInv
<1>1. ValuesInv /\ UNCHANGED valueVars => ValuesInv'
  <2> SUFFICES ASSUME ValuesInv, UNCHANGED valueVars PROVE ValuesInv'
    OBVIOUS
  <2>1. value' = value /\ oop' = oop /\ objects' = objects /\ readBack' = readBack
        /\ stringClass' = stringClass /\ unanswered' = unanswered
    BY DEF valueVars
  <2>2. (WrittenAs(value, oop))' = WrittenAs(value, oop) /\ (IsReadAs(readBack, oop))' = IsReadAs(readBack, oop)
    BY <2>1, Zenon DEF WrittenAs, IsSafeInteger, IsReadAs, Missed, Marshal, AsOop, MarshalImmediate, IsImmediate
  <2> QED
    BY <2>1, <2>2 DEF ValuesInv, ObjectsInv, IsValue
<1>2. ValuesInv /\ [ValuesNext]_valueVars => ValuesInv'
  BY <1>1, WritingKeeps, ReadKeeps, WriteAgainKeeps DEF ValuesNext
<1> QED
  BY <1>2, ValuesStart, PTL DEF ValuesSpec

(* What Session.marshalOop reads is what argumentToOop wrote, as a bigint  *)
(* if it was an integer, exactly for the values the encoding has room for; *)
(* a handle comes back as its OOP, and so does what the Stone did not tell *)
(* the nature of, because a call failed.                                   *)
THEOREM ValuesSurvive == ValuesSpec => []SurvivesTheStone
<1> QED
  BY ValuesHold, InvSurvives, PTL

-----------------------------------------------------------------------------
(* Nested arrays                                                           *)

(* The values of the arrays whose arrays have the values g.                *)
LevelAbove(g) == [a \in Arrays |-> [i \in DOMAIN heap[a] |-> IF IsArray(heap[a][i]) THEN g[heap[a][i]] ELSE heap[a][i]]]

Levels(f, m) == f = [depth \in 0..m |->
  [a \in Arrays |->
     IF depth = 0 THEN <<>>
     ELSE [i \in DOMAIN heap[a] |-> IF IsArray(heap[a][i]) THEN f[depth - 1][heap[a][i]] ELSE heap[a][i]]]]

(* The values of arrays nested up to a depth exist.                        *)
LEMMA LevelsExist ==
    ASSUME NEW n \in Nat
    PROVE  \E f : Levels(f, n)
<1> DEFINE ground == [a \in Arrays |-> <<>>]
           Good(f, m) == f[0] = ground /\ \A k \in 1..m : f[k] = LevelAbove(f[k - 1])
           P == {m \in Nat : \E f : Good(f, m)}
<1> HIDE DEF ground
<1>1. 0 \in P
  <2>1. Good([k \in {0} |-> ground], 0)
    OBVIOUS
  <2> QED
    BY <2>1
<1>2. ASSUME NEW m \in Nat, m \in P PROVE m + 1 \in P
  <2>1. PICK f : Good(f, m)
    BY <1>2
  <2> DEFINE h == [k \in 0..m + 1 |-> IF k = m + 1 THEN LevelAbove(f[m]) ELSE f[k]]
  <2>2. \A k \in 0..m : h[k] = f[k]
    BY <1>2
  <2>3. h[m + 1] = LevelAbove(f[m])
    BY <1>2
  <2> HIDE DEF h
  <2>4. h[0] = ground
    BY <1>2, <2>1, <2>2
  <2>5. ASSUME NEW k \in 1..m + 1 PROVE h[k] = LevelAbove(h[k - 1])
    <3>1. CASE k = m + 1
      <4>1. k - 1 = m /\ h[m] = f[m]
        BY <1>2, <2>2, <3>1
      <4> QED
        BY <2>3, <3>1, <4>1
    <3>2. CASE k # m + 1
      <4>1. k \in 1..m /\ k \in 0..m /\ k - 1 \in 0..m
        BY <1>2, <3>2
      <4>2. f[k] = LevelAbove(f[k - 1])
        BY <2>1, <4>1
      <4> QED
        BY <2>2, <4>1, <4>2
    <3> QED
      BY <3>1, <3>2
  <2>6. Good(h, m + 1)
    BY <2>4, <2>5
  <2> QED
    BY <2>6
<1>3. n \in P
  <2> HIDE DEF P
  <2> QED
    BY <1>1, <1>2, NatSet
<1>4. PICK f : Good(f, n)
  BY <1>3
<1> DEFINE h == [k \in 0..n |-> f[k]]
<1>5. h[0] = ground /\ \A k \in 1..n : h[k] = LevelAbove(h[k - 1])
  <2>1. \A k \in 0..n : h[k] = f[k]
    OBVIOUS
  <2> HIDE DEF h
  <2>2. \A k \in 1..n : k \in 0..n /\ k - 1 \in 0..n
    OBVIOUS
  <2> QED
    BY <1>4, <2>1, <2>2
<1>6. h = [k \in 0..n |-> h[k]]
  OBVIOUS
<1> HIDE DEF h
<1>7. Levels(h, n)
  <2>1. ASSUME NEW k \in 0..n
        PROVE  h[k] = [a \in Arrays |-> IF k = 0 THEN <<>>
                         ELSE [i \in DOMAIN heap[a] |-> IF IsArray(heap[a][i]) THEN h[k - 1][heap[a][i]] ELSE heap[a][i]]]
    <3>1. CASE k = 0
      <4>1. ground = [a \in Arrays |-> <<>>]
        BY DEF ground
      <4> QED
        BY <1>5, <3>1, <4>1
    <3>2. CASE k # 0
      <4>1. h[k] = LevelAbove(h[k - 1])
        BY <1>5, <3>2
      <4> QED
        BY <3>2, <4>1 DEF LevelAbove
    <3> QED
      BY <3>1, <3>2
  <2> QED
    BY <1>6, <2>1 DEF Levels
<1> QED
  BY <1>7

(* What the values of an array are made of.                                *)
NestedIn(h, n) ==
  CHOOSE f : f = [depth \in 0..n |->
    [a \in Arrays |->
       IF depth = 0 THEN <<>>
       ELSE [i \in DOMAIN h[a] |-> IF IsArray(h[a][i]) THEN f[depth - 1][h[a][i]] ELSE h[a][i]]]]

LEMMA NestedIsIn == NestedValues = NestedIn(heap, bounds.maxDepth)
BY Zenon DEF NestedValues, NestedIn

LEMMA NestedStays ==
    ASSUME heap' = heap, bounds' = bounds
    PROVE  NestedValues' = NestedValues
<1>1. NestedValues' = NestedIn(heap', bounds'.maxDepth)
  BY Zenon DEF NestedValues, NestedIn
<1> QED
  BY <1>1, NestedIsIn

LEMMA NestedAre ==
    ASSUME bounds.maxDepth \in Nat, NEW depth \in 1..bounds.maxDepth, NEW a \in Arrays
    PROVE  NestedValues[depth][a] =
             [i \in DOMAIN heap[a] |-> IF IsArray(heap[a][i]) THEN NestedValues[depth - 1][heap[a][i]] ELSE heap[a][i]]
<1> DEFINE n == bounds.maxDepth
<1>1. NestedValues = CHOOSE f : Levels(f, n)
  BY Zenon DEF NestedValues, Levels
<1>2. \E f : Levels(f, n)
  BY LevelsExist
<1>3. Levels(NestedValues, n)
  BY <1>1, <1>2, Zenon
<1>4. depth \in 0..n /\ depth # 0
  OBVIOUS
<1> DEFINE F == NestedValues
           level(d) == [b \in Arrays |->
                IF d = 0 THEN <<>>
                ELSE [i \in DOMAIN heap[b] |-> IF IsArray(heap[b][i]) THEN F[d - 1][heap[b][i]] ELSE heap[b][i]]]
<1> HIDE DEF F, n
<1>5. F = [d \in 0..n |-> level(d)]
  BY <1>3, Zenon DEF Levels, F
<1>6. F[depth] = level(depth)
  <2> HIDE DEF level
  <2> QED
    BY <1>4, <1>5
<1>7. level(depth)[a] = [i \in DOMAIN heap[a] |-> IF IsArray(heap[a][i]) THEN F[depth - 1][heap[a][i]] ELSE heap[a][i]]
  BY <1>4
<1> QED
  BY <1>6, <1>7 DEF F

-----------------------------------------------------------------------------

HeapOk == heap \in [Arrays -> Seq(Arrays \cup Scalars)]

(* There are finitely many items, ways through the arrays, and places.     *)
LEMMA CellsAre ==
    ASSUME HeapOk
    PROVE  /\ \A at \in Cells : at.array \in Arrays /\ at.index \in 1..Len(heap[at.array])
           /\ \A a \in Arrays : Len(heap[a]) \in Nat /\ \A i \in 1..Len(heap[a]) : [array |-> a, index |-> i] \in Cells
           /\ \A a \in Arrays : \A i \in 1..Len(heap[a]) : heap[a][i] \in Arrays \cup Scalars
<1>1. \A a \in Arrays : heap[a] \in Seq(Arrays \cup Scalars)
  BY DEF HeapOk
<1>2. \A a \in Arrays : DOMAIN heap[a] = 1..Len(heap[a]) /\ Len(heap[a]) \in Nat /\ \A i \in 1..Len(heap[a]) : heap[a][i] \in Arrays \cup Scalars
  BY <1>1
<1> QED
  BY <1>2 DEF Cells

LEMMA CellsFinite ==
    ASSUME HeapOk
    PROVE  IsFiniteSet(Cells)
<1> DEFINE Of(a) == {[array |-> a, index |-> i] : i \in DOMAIN heap[a]}
           Parts == {Of(a) : a \in Arrays}
<1>1. IsFiniteSet(Arrays)
  BY ReadAssumption
<1>2. \A a \in Arrays : IsFiniteSet(Of(a))
  <2> SUFFICES ASSUME NEW a \in Arrays PROVE IsFiniteSet(Of(a))
    OBVIOUS
  <2> DEFINE n == Len(heap[a])
             f == [i \in 1..n |-> [array |-> a, index |-> i]]
  <2>1. heap[a] \in Seq(Arrays \cup Scalars)
    BY DEF HeapOk
  <2>2. DOMAIN heap[a] = 1..n /\ n \in Nat
    BY <2>1
  <2> HIDE DEF n
  <2>3. f \in Surjection(1..n, Of(a))
    BY <2>2 DEF Surjection
  <2>4. IsFiniteSet(1..n)
    <3>1. 1 \in Int /\ n \in Int
      BY <2>2
    <3> QED
      BY <3>1, FS_Interval
  <2> HIDE DEF f, Of
  <2> QED
    BY <2>3, <2>4, FS_Surjection
<1>3. IsFiniteSet(Parts)
  <2> DEFINE f == [a \in Arrays |-> Of(a)]
  <2>1. f \in Surjection(Arrays, Parts)
    <3> HIDE DEF Of
    <3> QED
      BY DEF Surjection
  <2> HIDE DEF f, Parts
  <2> QED
    BY <1>1, <2>1, FS_Surjection
<1>4. \A S \in Parts : IsFiniteSet(S)
  <2> HIDE DEF Of
  <2> QED
    BY <1>2
<1>5. Cells = UNION Parts
  BY DEF Cells
<1> HIDE DEF Parts
<1> QED
  BY <1>3, <1>4, <1>5, FS_UNION

LEMMA WaysFinite ==
    ASSUME NEW S, IsFiniteSet(S), NEW n \in Nat
    PROVE  IsFiniteSet([1..n -> S])
<1> DEFINE P == {m \in Nat : IsFiniteSet([1..m -> S])}
<1>1. 0 \in P
  <2>1. \A f \in [1..0 -> S] : f = <<>>
    OBVIOUS
  <2>2. [1..0 -> S] \in SUBSET {<<>>}
    BY <2>1
  <2>3. IsFiniteSet({<<>>})
    BY FS_Singleton
  <2> QED
    BY <2>2, <2>3, FS_Subset
<1>2. ASSUME NEW m \in Nat, m \in P PROVE m + 1 \in P
  <2> DEFINE T == [1..m -> S] \X S
             longer(p) == [k \in 1..m + 1 |-> IF k = m + 1 THEN p[2] ELSE p[1][k]]
             f == [p \in T |-> longer(p)]
  <2>1. IsFiniteSet(T)
    BY <1>2, FS_Product
  <2>2. \A p \in T : f[p] \in [1..m + 1 -> S]
    OBVIOUS
  <2>3. ASSUME NEW g \in [1..m + 1 -> S] PROVE \E p \in T : f[p] = g
    <3> DEFINE q == <<[k \in 1..m |-> g[k]], g[m + 1]>>
    <3>1. q \in T
      BY <1>2
    <3>2. \A k \in 1..m + 1 : longer(q)[k] = g[k]
      BY <1>2
    <3>3. longer(q) = g
      <4>1. longer(q) = [k \in 1..m + 1 |-> longer(q)[k]] /\ g = [k \in 1..m + 1 |-> g[k]]
        OBVIOUS
      <4> HIDE DEF longer, q
      <4> QED
        BY <3>2, <4>1
    <3> HIDE DEF q
    <3> QED
      BY <3>1, <3>3
  <2>4. f \in Surjection(T, [1..m + 1 -> S])
    <3> HIDE DEF longer
    <3>1. DOMAIN f = T /\ f \in [T -> [1..m + 1 -> S]]
      BY <2>2
    <3> HIDE DEF f, T
    <3> QED
      BY <2>3, <3>1 DEF Surjection
  <2>5. IsFiniteSet([1..m + 1 -> S])
    <3> HIDE DEF f, T
    <3> QED
      BY <2>1, <2>4, FS_Surjection
  <2> QED
    BY <1>2, <2>5
<1>3. n \in P
  <2> HIDE DEF P
  <2> QED
    BY <1>1, <1>2, NatSet
<1> QED
  BY <1>3

LEMMA PlacesFinite ==
    ASSUME HeapOk, bounds.maxDepth \in Nat
    PROVE  IsFiniteSet(Places)
<1> DEFINE n == bounds.maxDepth
           Parts == {[1..k -> Cells] : k \in 1..n}
           f == [k \in 1..n |-> [1..k -> Cells]]
<1>1. IsFiniteSet(1..n)
  <2>1. 1 \in Int /\ n \in Int
    OBVIOUS
  <2> HIDE DEF n
  <2> QED
    BY <2>1, FS_Interval
<1>2. f \in Surjection(1..n, Parts)
  BY DEF Surjection
<1>3. \A k \in 1..n : IsFiniteSet([1..k -> Cells])
  <2>1. IsFiniteSet(Cells)
    BY CellsFinite
  <2>2. \A k \in 1..n : k \in Nat
    OBVIOUS
  <2> QED
    BY <2>1, <2>2, WaysFinite
<1>4. IsFiniteSet(Parts)
  <2> HIDE DEF f, Parts, n
  <2> QED
    BY <1>1, <1>2, FS_Surjection
<1>5. \A S \in Parts : IsFiniteSet(S)
  BY <1>3
<1>6. IsFiniteSet(UNION Parts)
  <2> HIDE DEF Parts
  <2> QED
    BY <1>4, <1>5, FS_UNION
<1>7. Places \in SUBSET UNION Parts
  BY DEF Places
<1> HIDE DEF Parts
<1> QED
  BY <1>6, <1>7, FS_Subset

(* A call in progress.                                                     *)
IsTuple(v) == \E X : v \in Seq(X)

IsFrame(f) ==
  /\ f = [array |-> f.array, size |-> f.size, values |-> f.values]
  /\ f.array \in Arrays /\ f.size \in Nat \cup {Unknown} /\ IsTuple(f.values)

(* No array is being read inside itself, nor deeper than the bound.        *)
IsStack(s) ==
  /\ IsTuple(s) /\ \A k \in 1..Len(s) : IsFrame(s[k])
  /\ Len(s) <= bounds.maxDepth
  /\ \A i, j \in 1..Len(s) : i # j => s[i].array # s[j].array

ArraysOf(s) == {s[k].array : k \in 1..Len(s)}

(* Every call but the last is at the item that the next one reads.         *)
ReadOf(s, k) == Len(s[k].values)
Here(s, k) == [array |-> s[k].array, index |-> ReadOf(s, k) + 1]

IsAbove(s, k) ==
  /\ s[k].size = Len(heap[s[k].array]) /\ ReadOf(s, k) < s[k].size
  /\ heap[s[k].array][ReadOf(s, k) + 1] = s[k + 1].array

IsAtTop(s, n) ==
  IF s[n].size = Unknown THEN ReadOf(s, n) = 0
  ELSE s[n].size = Len(heap[s[n].array]) /\ ReadOf(s, n) <= s[n].size

IsWay(s) ==
  /\ s[1].array = root
  /\ \A k \in 1..Len(s) - 1 : IsAbove(s, k)
  /\ IsAtTop(s, Len(s))

(* Each value that is read so far stands for its item ...                  *)
IsFit(s) ==
  \A k \in 1..Len(s) : \A i \in 1..ReadOf(s, k) : StandsFor(s[k].values[i], heap[s[k].array][i])

IsWhole(values) == Len(values) = Len(heap[root]) /\ HoldsFor(values, root)

(* ... and is what is there.                                               *)
IsReadTo(s) ==
  \A k \in 1..Len(s) : \A i \in 1..ReadOf(s, k) :
    s[k].values[i] = NestedValues[bounds.maxDepth - k + 1][s[k].array][i]

(* The places of the items that were counted, and of those that were read. *)
Follows(s, p, k) == k <= Len(p) /\ \A j \in 1..k - 1 : p[j] = Here(s, j)
IsCounted(s, p, k) == Follows(s, p, k) /\ s[k].size # Unknown /\ (Len(p) = k \/ p[k].index <= ReadOf(s, k))
IsPassed(s, p, k) == Follows(s, p, k) /\ p[k].index <= ReadOf(s, k)
Counted(s) == {p \in Places : \E k \in 1..Len(s) : IsCounted(s, p, k)}
Passed(s)  == {p \in Places : \E k \in 1..Len(s) : IsPassed(s, p, k)}

TooDeep(p) == Len(p) = bounds.maxDepth /\ IsArray(Item(Last(p)))

IsWithin(s, total) ==
  /\ total = Cardinality(Counted(s)) /\ total <= bounds.maxTotalItems
  /\ \A p \in Counted(s) : Last(p).index <= bounds.maxItems
  /\ \A p \in Passed(s) : ~ TooDeep(p)

(* The arrays that are read, and the bounds.                               *)
Ok == HeapOk /\ root \in Arrays /\ bounds \in Bounds

(* The calls in progress are a way through the arrays on which no array    *)
(* occurs twice, every item on it was read and counted, and once it is     *)
(* over the answer is the whole.  When the class of an item could not be   *)
(* had they still are a way, and what was read stands for the items.       *)
ReadInv ==
  /\ Ok /\ totalItems \in Nat /\ puts \in Nat
  /\ IsStack(frames) /\ seen = ArraysOf(frames)
  /\ puts = 0 /\ Reading => IsWay(frames) /\ IsFit(frames)
  /\ puts = 0 /\ ~ Reading /\ got # Denied => IsWhole(got)
  /\ Unhindered /\ Reading => IsReadTo(frames) /\ IsWithin(frames, totalItems)
  /\ Unhindered /\ ~ Reading => got = IF TooMuch THEN Denied ELSE NestedValues[bounds.maxDepth][root]
  /\ "call" \in failedCalls => ~ Reading /\ got = Denied

-----------------------------------------------------------------------------

(* The bounds of a read.                                                   *)
LEMMA BoundsAre ==
    ASSUME Ok
    PROVE  /\ HeapOk /\ root \in Arrays
           /\ bounds.maxDepth \in Nat /\ bounds.maxDepth > 0
           /\ bounds.maxItems \in Nat /\ bounds.maxTotalItems \in Nat
<1>1. bounds \in [maxDepth : Nat \ {0}, maxItems : Nat, maxTotalItems : Nat]
  BY ReadAssumption DEF Ok
<1> QED
  BY <1>1 DEF Ok

(* A call more ...                                                         *)
LEMMA PushIs ==
    ASSUME NEW s, IsTuple(s), NEW x
    PROVE  /\ IsTuple(Append(s, x)) /\ Len(Append(s, x)) = Len(s) + 1 /\ Len(s) \in Nat
           /\ \A k \in 1..Len(s) : Append(s, x)[k] = s[k]
           /\ Append(s, x)[Len(s) + 1] = x
<1>1. PICK X : s \in Seq(X)
  BY DEF IsTuple
<1>2. s \in Seq(X \cup {x}) /\ x \in X \cup {x}
  BY <1>1
<1>3. Append(s, x) \in Seq(X \cup {x})
  BY <1>2
<1>4. IsTuple(Append(s, x))
  BY <1>3, Zenon DEF IsTuple
<1> QED
  BY <1>1, <1>4

(* ... a call changed ...                                                  *)
LEMMA ChangeIs ==
    ASSUME NEW s, IsTuple(s), NEW n \in 1..Len(s), NEW x
    PROVE  /\ IsTuple([s EXCEPT ![n] = x]) /\ Len([s EXCEPT ![n] = x]) = Len(s)
           /\ \A k \in 1..Len(s) : k # n => [s EXCEPT ![n] = x][k] = s[k]
           /\ [s EXCEPT ![n] = x][n] = x
<1>1. PICK X : s \in Seq(X)
  BY DEF IsTuple
<1>2. s \in Seq(X \cup {x}) /\ x \in X \cup {x}
  BY <1>1
<1>3. [s EXCEPT ![n] = x] \in Seq(X \cup {x})
  BY <1>2
<1>4. IsTuple([s EXCEPT ![n] = x])
  BY <1>3, Zenon DEF IsTuple
<1> QED
  BY <1>1, <1>4

(* ... a call less.                                                        *)
LEMMA PopIs ==
    ASSUME NEW s, IsTuple(s), s # <<>>
    PROVE  /\ IsTuple(Front(s)) /\ Len(Front(s)) = Len(s) - 1 /\ Len(s) \in Nat /\ Len(s) > 0
           /\ \A k \in 1..Len(s) - 1 : Front(s)[k] = s[k]
           /\ Last(s) = s[Len(s)]
<1>1. PICK X : s \in Seq(X)
  BY DEF IsTuple
<1>2. Front(s) = [k \in 1..Len(s) - 1 |-> s[k]] /\ Len(s) \in Nat /\ Len(s) > 0
  BY <1>1 DEF Front
<1>3. Front(s) \in Seq(X)
  BY <1>1, <1>2
<1>4. IsTuple(Front(s))
  BY <1>3, Zenon DEF IsTuple
<1> QED
  BY <1>1, <1>2, <1>4 DEF Last

-----------------------------------------------------------------------------

(* What a place is.                                                        *)
LEMMA PlaceIs ==
    ASSUME NEW p \in Places, bounds.maxDepth \in Nat
    PROVE  /\ Len(p) \in 1..bounds.maxDepth /\ p \in [1..Len(p) -> Cells]
           /\ p[1].array = root /\ Last(p) = p[Len(p)]
           /\ \A k \in 1..Len(p) - 1 : Item(p[k]) = p[k + 1].array
<1>1. PICK n \in 1..bounds.maxDepth : p \in [1..n -> Cells]
  BY DEF Places
<1>2. p \in Seq(Cells) /\ Len(p) = n
  BY <1>1
<1> QED
  BY <1>1, <1>2 DEF Places, Last

LEMMA IsAPlace ==
    ASSUME bounds.maxDepth \in Nat, NEW n \in 1..bounds.maxDepth, NEW p \in [1..n -> Cells],
           p[1].array = root, \A k \in 1..n - 1 : Item(p[k]) = p[k + 1].array
    PROVE  p \in Places /\ Len(p) = n /\ Last(p) = p[n]
<1>1. p \in Seq(Cells) /\ Len(p) = n
  OBVIOUS
<1> QED
  BY <1>1 DEF Places, Last

(* The stack is a way through the arrays.                                  *)
LEMMA HereIs ==
    ASSUME Ok, NEW s, IsStack(s), IsWay(s), NEW k \in 1..Len(s) - 1
    PROVE  Here(s, k) \in Cells /\ Item(Here(s, k)) = s[k + 1].array
<1>1. Len(s) \in Nat /\ k \in 1..Len(s)
  BY DEF IsStack, IsTuple
<1>2. IsFrame(s[k])
  BY <1>1 DEF IsStack
<1>3. s[k].array \in Arrays /\ ReadOf(s, k) \in Nat
  BY <1>2 DEF IsFrame, IsTuple, ReadOf
<1>4. IsAbove(s, k)
  BY DEF IsWay
<1>5. Len(heap[s[k].array]) \in Nat
  BY <1>3, CellsAre DEF Ok
<1>6. ReadOf(s, k) + 1 \in 1..Len(heap[s[k].array])
  BY <1>3, <1>4, <1>5 DEF IsAbove
<1>7. Here(s, k) \in Cells
  BY <1>3, <1>6, CellsAre DEF Ok, Here
<1> QED
  BY <1>4, <1>7 DEF IsAbove, Here, Item

LEMMA FollowsIs ==
    ASSUME Ok, NEW s, IsStack(s), IsWay(s), NEW p \in Places, NEW k \in 1..Len(s), Follows(s, p, k)
    PROVE  /\ p[k] \in Cells /\ p[k].array = s[k].array
           /\ p[k].index \in 1..Len(heap[s[k].array]) /\ Len(heap[s[k].array]) \in Nat
<1>1. bounds.maxDepth \in Nat /\ HeapOk
  BY BoundsAre
<1>2. Len(p) \in Nat /\ k \in 1..Len(p) /\ p \in [1..Len(p) -> Cells]
  BY <1>1, PlaceIs DEF Follows
<1>3. p[k].array = s[k].array
  <2>1. CASE k = 1
    BY <1>1, <2>1, PlaceIs DEF IsWay
  <2>2. CASE k # 1
    <3>1. k - 1 \in 1..Len(s) - 1 /\ k - 1 \in 1..Len(p) - 1 /\ (k - 1) + 1 = k /\ k - 1 \in 1..k - 1
      <4>1. Len(s) \in Nat
        BY DEF IsStack, IsTuple
      <4> QED
        BY <4>1, <1>2, <2>2
    <3>2. p[k - 1] = Here(s, k - 1)
      BY <3>1 DEF Follows
    <3>3. Item(p[k - 1]) = p[(k - 1) + 1].array
      BY <1>1, <3>1, PlaceIs
    <3>4. Item(Here(s, k - 1)) = s[(k - 1) + 1].array
      BY <3>1, HereIs
    <3> QED
      BY <3>1, <3>2, <3>3, <3>4
  <2> QED
    BY <2>1, <2>2
<1>4. p[k] \in Cells
  BY <1>2
<1> QED
  BY <1>1, <1>3, <1>4, CellsAre

(* The places in the array of the last call.                               *)
Within(s, i) == [j \in 1..Len(s) |-> IF j = Len(s) THEN [array |-> s[Len(s)].array, index |-> i] ELSE Here(s, j)]

LEMMA WithinIs ==
    ASSUME Ok, NEW s, IsStack(s), IsWay(s), Len(s) > 0, NEW i \in 1..Len(heap[s[Len(s)].array])
    PROVE  /\ Within(s, i) \in Places /\ Len(Within(s, i)) = Len(s)
           /\ Last(Within(s, i)) = [array |-> s[Len(s)].array, index |-> i]
           /\ Within(s, i)[Len(s)] = [array |-> s[Len(s)].array, index |-> i]
           /\ Follows(s, Within(s, i), Len(s))
<1> DEFINE n == Len(s)
           w == Within(s, i)
           c == [array |-> s[n].array, index |-> i]
<1>1. n \in Nat /\ n \in 1..bounds.maxDepth /\ bounds.maxDepth \in Nat
  BY BoundsAre DEF IsStack, IsTuple
<1>2. IsFrame(s[n])
  BY <1>1 DEF IsStack
<1>3. c \in Cells
  <2>1. s[n].array \in Arrays /\ HeapOk
    BY <1>2, BoundsAre DEF IsFrame
  <2> QED
    BY <2>1, CellsAre
<1> HIDE DEF c
<1>4. w[n] = c /\ \A j \in 1..n - 1 : w[j] = Here(s, j)
  BY <1>1 DEF Within, c
<1>5. w \in [1..n -> Cells]
  <2>1. \A j \in 1..n - 1 : Here(s, j) \in Cells
    BY HereIs
  <2>2. \A j \in 1..n : w[j] \in Cells
    <3> SUFFICES ASSUME NEW j \in 1..n PROVE w[j] \in Cells
      OBVIOUS
    <3>1. j = n \/ j \in 1..n - 1
      BY <1>1
    <3> QED
      BY <3>1, <2>1, <1>3, <1>4
  <2>3. w = [j \in 1..n |-> w[j]]
    BY DEF Within
  <2> HIDE DEF w, n
  <2> QED
    BY <2>2, <2>3
<1>6. w[1].array = root
  <2>1. CASE n = 1
    BY <2>1, <1>4 DEF c, IsWay
  <2>2. CASE n # 1
    <3> HIDE DEF n, w
    <3>1. 1 \in 1..n - 1
      BY <1>1, <2>2
    <3>2. w[1] = Here(s, 1)
      BY <3>1, <1>4
    <3>3. s[1].array = root
      BY DEF IsWay
    <3> QED
      BY <3>2, <3>3 DEF Here
  <2> QED
    BY <2>1, <2>2
<1>7. \A k \in 1..n - 1 : Item(w[k]) = w[k + 1].array
  <2> SUFFICES ASSUME NEW k \in 1..n - 1 PROVE Item(w[k]) = w[k + 1].array
    OBVIOUS
  <2>1. Item(w[k]) = s[k + 1].array
    BY <1>4, HereIs
  <2>2. k + 1 = n \/ k + 1 \in 1..n - 1
    BY <1>1
  <2>3. CASE k + 1 = n
    BY <2>1, <2>3, <1>4 DEF c
  <2>4. CASE k + 1 \in 1..n - 1
    <3>1. w[k + 1] = Here(s, k + 1)
      BY <2>4, <1>4
    <3> QED
      BY <3>1, <2>1 DEF Here
  <2> QED
    BY <2>2, <2>3, <2>4
<1>8. w \in Places /\ Len(w) = n /\ Last(w) = w[n]
  <2> HIDE DEF w, n
  <2> QED
    BY <1>1, <1>5, <1>6, <1>7, IsAPlace
<1>9. Follows(s, w, n)
  <2> HIDE DEF w
  <2> QED
    BY <1>1, <1>4, <1>8 DEF Follows
<1> QED
  BY <1>4, <1>8, <1>9 DEF c

(* Reading, when nobody put anything ...                                   *)
IsOnWay(s) == Ok /\ IsStack(s) /\ Len(s) > 0 /\ IsWay(s)

(* ... and no call failed.                                                 *)
IsReading(s, total) ==
  Ok /\ total \in Nat /\ IsStack(s) /\ Len(s) > 0 /\ IsWay(s) /\ IsReadTo(s) /\ IsWithin(s, total)

AsIn(s, t, m) == \A k \in 1..m : t[k].array = s[k].array /\ t[k].size = s[k].size /\ t[k].values = s[k].values

(* The calls that are left as they were count and read the same.           *)
LEMMA SameHere ==
    ASSUME NEW s, NEW t, NEW m \in Nat, AsIn(s, t, m)
    PROVE  /\ \A k \in 1..m : Here(t, k) = Here(s, k) /\ ReadOf(t, k) = ReadOf(s, k)
           /\ \A k \in 1..m + 1 : \A p : Follows(t, p, k) <=> Follows(s, p, k)
<1>1. \A k \in 1..m : Here(t, k) = Here(s, k) /\ ReadOf(t, k) = ReadOf(s, k)
  BY DEF AsIn, Here, ReadOf
<1>2. ASSUME NEW k \in 1..m + 1 PROVE \A p : Follows(t, p, k) <=> Follows(s, p, k)
  <2>1. \A j \in 1..k - 1 : j \in 1..m
    OBVIOUS
  <2> QED
    BY <1>1, <2>1 DEF Follows
<1> QED
  BY <1>1, <1>2

LEMMA SameWays ==
    ASSUME NEW s, NEW t, NEW m \in Nat, AsIn(s, t, m)
    PROVE  \A k \in 1..m : \A p :
             /\ IsCounted(t, p, k) <=> IsCounted(s, p, k)
             /\ IsPassed(t, p, k) <=> IsPassed(s, p, k)
<1> SUFFICES ASSUME NEW k \in 1..m, NEW p
             PROVE  /\ IsCounted(t, p, k) <=> IsCounted(s, p, k)
                    /\ IsPassed(t, p, k) <=> IsPassed(s, p, k)
  OBVIOUS
<1>1. k \in 1..m + 1
  OBVIOUS
<1>2. Follows(t, p, k) <=> Follows(s, p, k)
  BY <1>1, SameHere
<1>3. ReadOf(t, k) = ReadOf(s, k) /\ t[k].size = s[k].size
  BY SameHere DEF AsIn
<1> QED
  BY <1>2, <1>3 DEF IsCounted, IsPassed

LEMMA SameReads ==
    ASSUME NEW s, NEW t, NEW m \in Nat, AsIn(s, t, m)
    PROVE  \A k \in 1..m : \A i \in 1..ReadOf(t, k) : t[k].values[i] = s[k].values[i] /\ t[k].array = s[k].array /\ ReadOf(t, k) = ReadOf(s, k)
BY SameHere DEF AsIn

(* What is known of the call in progress.                                  *)
LEMMA OnWayIs ==
    ASSUME NEW s, IsOnWay(s)
    PROVE  /\ HeapOk /\ bounds.maxDepth \in Nat /\ bounds.maxItems \in Nat /\ bounds.maxTotalItems \in Nat
           /\ Len(s) \in Nat /\ Len(s) \in 1..Len(s) /\ Len(s) - 1 \in Nat /\ Len(s) <= bounds.maxDepth
           /\ \A k \in 1..Len(s) : /\ s[k].array \in Arrays /\ ReadOf(s, k) \in Nat /\ IsTuple(s[k].values)
                                   /\ Len(heap[s[k].array]) \in Nat
           /\ s[Len(s)].size # Unknown => s[Len(s)].size = Len(heap[s[Len(s)].array]) /\ ReadOf(s, Len(s)) <= s[Len(s)].size
           /\ IsFiniteSet(Places)
<1>1. Ok /\ IsStack(s) /\ Len(s) > 0 /\ IsWay(s)
  BY DEF IsOnWay
<1>2. /\ HeapOk /\ bounds.maxDepth \in Nat /\ bounds.maxItems \in Nat /\ bounds.maxTotalItems \in Nat
      /\ Len(s) \in Nat /\ Len(s) \in 1..Len(s) /\ Len(s) - 1 \in Nat /\ Len(s) <= bounds.maxDepth
  BY <1>1, BoundsAre DEF IsStack, IsTuple
<1>3. ASSUME NEW k \in 1..Len(s)
      PROVE  s[k].array \in Arrays /\ ReadOf(s, k) \in Nat /\ IsTuple(s[k].values) /\ Len(heap[s[k].array]) \in Nat
  <2>1. IsFrame(s[k])
    BY <1>1 DEF IsStack
  <2>2. s[k].array \in Arrays /\ ReadOf(s, k) \in Nat /\ IsTuple(s[k].values)
    BY <2>1 DEF IsFrame, IsTuple, ReadOf
  <2> QED
    BY <1>2, <2>2, CellsAre
<1>4. IsAtTop(s, Len(s))
  BY <1>1 DEF IsWay
<1>5. IsFiniteSet(Places)
  BY <1>2, PlacesFinite
<1> QED
  BY <1>2, <1>3, <1>4, <1>5 DEF IsAtTop

-----------------------------------------------------------------------------
(* The way through the arrays, also when the class of an item could not be *)
(* had: the size of an array is known ...                                  *)

LEMMA WayAsked ==
    ASSUME NEW s, IsOnWay(s), s[Len(s)].size = Unknown,
           NEW t, Len(t) = Len(s), AsIn(s, t, Len(s) - 1),
           t[Len(s)].array = s[Len(s)].array, t[Len(s)].values = s[Len(s)].values,
           t[Len(s)].size = Len(heap[s[Len(s)].array])
    PROVE  IsWay(t) /\ (IsFit(s) => IsFit(t))
<1> DEFINE n == Len(s)
           size == Len(heap[s[n].array])
<1>1. Ok /\ IsStack(s) /\ n > 0 /\ IsWay(s)
  BY DEF IsOnWay
<1>2. n \in Nat /\ n \in 1..n /\ n - 1 \in Nat /\ size \in Nat
  BY OnWayIs
<1>3. Unknown \notin Nat /\ size # Unknown
  BY <1>2 DEF Unknown
<1>4. ReadOf(s, n) = 0 /\ ReadOf(t, n) = 0
  BY <1>1 DEF IsWay, IsAtTop, ReadOf
<1>5. IsWay(t)
  <2>1. t[1].array = root
    <3>1. n = 1 \/ 1 \in 1..n - 1
      BY <1>2
    <3> QED
      BY <1>1, <3>1 DEF AsIn, IsWay
  <2>2. ASSUME NEW k \in 1..n - 1 PROVE IsAbove(t, k)
    <3>1. IsAbove(s, k)
      BY <1>1 DEF IsWay
    <3>2. k + 1 = n \/ k + 1 \in 1..n - 1
      BY <1>2
    <3>3. t[k + 1].array = s[k + 1].array
      BY <3>2 DEF AsIn
    <3> QED
      BY <3>1, <3>3 DEF IsAbove, AsIn, ReadOf
  <2>3. IsAtTop(t, n)
    BY <1>2, <1>3, <1>4 DEF IsAtTop
  <2> QED
    BY <2>1, <2>2, <2>3 DEF IsWay
<1>6. ASSUME IsFit(s), NEW k \in 1..n, NEW i \in 1..ReadOf(t, k) PROVE StandsFor(t[k].values[i], heap[t[k].array][i])
  <2>1. k \in 1..n - 1 \/ k = n
    BY <1>2
  <2>2. t[k].values = s[k].values /\ t[k].array = s[k].array /\ ReadOf(t, k) = ReadOf(s, k)
    BY <2>1 DEF AsIn, ReadOf
  <2> QED
    BY <1>6, <2>2 DEF IsFit
<1> QED
  BY <1>5, <1>6 DEF IsFit

(* ... an item is answered as itself ...                                   *)
LEMMA WayReads ==
    ASSUME NEW s, IsOnWay(s), s[Len(s)].size # Unknown, ReadOf(s, Len(s)) < s[Len(s)].size,
           NEW t, Len(t) = Len(s), AsIn(s, t, Len(s) - 1),
           t[Len(s)].array = s[Len(s)].array, t[Len(s)].size = s[Len(s)].size,
           t[Len(s)].values = Append(s[Len(s)].values, heap[s[Len(s)].array][ReadOf(s, Len(s)) + 1])
    PROVE  IsWay(t) /\ (IsFit(s) => IsFit(t))
<1> DEFINE n == Len(s)
           d == ReadOf(s, n)
           item == heap[s[n].array][d + 1]
<1>1. Ok /\ IsStack(s) /\ n > 0 /\ IsWay(s)
  BY DEF IsOnWay
<1>2. /\ n \in Nat /\ n \in 1..n /\ n - 1 \in Nat
      /\ s[n].array \in Arrays /\ d \in Nat /\ IsTuple(s[n].values)
      /\ s[n].size = Len(heap[s[n].array]) /\ Len(heap[s[n].array]) \in Nat
  BY OnWayIs
<1>3. d + 1 \in 1..Len(heap[s[n].array])
  BY <1>2
<1>4. /\ ReadOf(t, n) = d + 1 /\ t[n].values[d + 1] = item
      /\ \A i \in 1..d : t[n].values[i] = s[n].values[i]
  <2> DEFINE v == s[n].values
  <2>1. IsTuple(v) /\ d = Len(v) /\ ReadOf(t, n) = Len(t[n].values) /\ t[n].values = Append(v, item)
    BY <1>2 DEF ReadOf
  <2> HIDE DEF v, item, d
  <2>2. /\ Len(Append(v, item)) = Len(v) + 1 /\ Append(v, item)[Len(v) + 1] = item
        /\ \A i \in 1..Len(v) : Append(v, item)[i] = v[i]
    BY <2>1, PushIs
  <2>3. \A i \in 1..d : t[n].values[i] = v[i]
    BY <2>1, <2>2
  <2>4. ReadOf(t, n) = d + 1 /\ t[n].values[d + 1] = item
    BY <2>1, <2>2
  <2> QED
    BY <2>3, <2>4 DEF v
<1>5. IsWay(t)
  <2>1. t[1].array = root
    <3>1. n = 1 \/ 1 \in 1..n - 1
      BY <1>2
    <3> QED
      BY <1>1, <3>1 DEF AsIn, IsWay
  <2>2. ASSUME NEW k \in 1..n - 1 PROVE IsAbove(t, k)
    <3>1. IsAbove(s, k)
      BY <1>1 DEF IsWay
    <3>2. k + 1 = n \/ k + 1 \in 1..n - 1
      BY <1>2
    <3>3. t[k + 1].array = s[k + 1].array
      BY <3>2 DEF AsIn
    <3> QED
      BY <3>1, <3>3 DEF IsAbove, AsIn, ReadOf
  <2>3. IsAtTop(t, n)
    <3>1. d + 1 <= s[n].size
      BY <1>2, <1>3
    <3> QED
      BY <1>2, <1>4, <3>1 DEF IsAtTop
  <2> QED
    BY <2>1, <2>2, <2>3 DEF IsWay
<1>6. ASSUME IsFit(s), NEW k \in 1..n, NEW i \in 1..ReadOf(t, k) PROVE StandsFor(t[k].values[i], heap[t[k].array][i])
  <2>1. k \in 1..n - 1 \/ k = n
    BY <1>2
  <2>2. CASE k \in 1..n - 1
    <3>1. t[k].values = s[k].values /\ t[k].array = s[k].array /\ ReadOf(t, k) = ReadOf(s, k)
      BY <2>2 DEF AsIn, ReadOf
    <3> QED
      BY <1>6, <3>1 DEF IsFit
  <2>3. CASE k = n
    <3>1. i \in 1..d \/ i = d + 1
      BY <1>2, <1>4, <2>3
    <3>2. CASE i \in 1..d
      BY <1>4, <1>6, <2>3, <3>2 DEF IsFit
    <3>3. CASE i = d + 1
      <4>1. t[k].values[i] = item /\ item = heap[t[k].array][i]
        BY <1>4, <2>3, <3>3
      <4> QED
        BY <4>1, Zenon DEF StandsFor
    <3> QED
      BY <3>1, <3>2, <3>3
  <2> QED
    BY <2>1, <2>2, <2>3
<1> QED
  BY <1>5, <1>6 DEF IsFit

(* ... an array is entered ...                                             *)
LEMMA WayEnters ==
    ASSUME NEW s, IsOnWay(s), s[Len(s)].size # Unknown, ReadOf(s, Len(s)) < s[Len(s)].size,
           NEW t, Len(t) = Len(s) + 1, AsIn(s, t, Len(s)),
           t[Len(s) + 1] = Call(heap[s[Len(s)].array][ReadOf(s, Len(s)) + 1])
    PROVE  IsWay(t) /\ (IsFit(s) => IsFit(t))
<1> DEFINE n == Len(s)
           item == heap[s[n].array][ReadOf(s, n) + 1]
<1>1. Ok /\ IsStack(s) /\ n > 0 /\ IsWay(s)
  BY DEF IsOnWay
<1>2. n \in Nat /\ n \in 1..n /\ s[n].size = Len(heap[s[n].array]) /\ 1 \in 1..n
  BY OnWayIs
<1>3. t[n + 1].array = item /\ t[n + 1].size = Unknown /\ ReadOf(t, n + 1) = 0
  <2> HIDE DEF item, n
  <2> QED
    BY DEF Call, ReadOf, n, item
<1>4. IsWay(t)
  <2>1. t[1].array = root
    BY <1>1, <1>2 DEF AsIn, IsWay
  <2>2. ASSUME NEW k \in 1..n PROVE IsAbove(t, k)
    <3>1. k = n \/ k \in 1..n - 1
      BY <1>2
    <3>2. t[k].array = s[k].array /\ t[k].size = s[k].size /\ ReadOf(t, k) = ReadOf(s, k)
      BY DEF AsIn, ReadOf
    <3>3. CASE k = n
      BY <1>2, <1>3, <3>2, <3>3 DEF IsAbove
    <3>4. CASE k \in 1..n - 1
      <4>1. IsAbove(s, k)
        BY <1>1, <3>4 DEF IsWay
      <4>2. k + 1 \in 1..n
        BY <1>2, <3>4
      <4>3. t[k + 1].array = s[k + 1].array
        BY <4>2 DEF AsIn
      <4> QED
        BY <3>2, <4>1, <4>3 DEF IsAbove
    <3> QED
      BY <3>1, <3>3, <3>4
  <2>3. IsAtTop(t, n + 1)
    BY <1>3 DEF IsAtTop
  <2>4. \A k \in 1..Len(t) - 1 : k \in 1..n
    BY <1>2
  <2> QED
    BY <2>1, <2>2, <2>3, <2>4 DEF IsWay
<1>5. ASSUME IsFit(s), NEW k \in 1..n + 1, NEW i \in 1..ReadOf(t, k)
      PROVE  StandsFor(t[k].values[i], heap[t[k].array][i])
  <2>1. k \in 1..n \/ k = n + 1
    BY <1>2
  <2>2. k # n + 1
    BY <1>3
  <2>3. t[k].values = s[k].values /\ t[k].array = s[k].array /\ ReadOf(t, k) = ReadOf(s, k)
    BY <2>1, <2>2 DEF AsIn, ReadOf
  <2> QED
    BY <1>5, <2>1, <2>2, <2>3 DEF IsFit
<1> QED
  BY <1>4, <1>5 DEF IsFit

(* ... and left: the other goes on behind it ...                           *)
LEMMA WayLeaves ==
    ASSUME NEW s, IsOnWay(s), s[Len(s)].size # Unknown, ReadOf(s, Len(s)) = s[Len(s)].size, Len(s) > 1,
           NEW t, Len(t) = Len(s) - 1, AsIn(s, t, Len(s) - 2),
           t[Len(s) - 1].array = s[Len(s) - 1].array, t[Len(s) - 1].size = s[Len(s) - 1].size,
           t[Len(s) - 1].values = Append(s[Len(s) - 1].values, s[Len(s)].values)
    PROVE  IsWay(t) /\ (IsFit(s) => IsFit(t))
<1> DEFINE n == Len(s)
           m == n - 1
           d == ReadOf(s, m)
           inner == s[n].values
           a == s[m].array
<1>1. Ok /\ IsStack(s) /\ n > 0 /\ IsWay(s)
  BY DEF IsOnWay
<1>2. /\ n \in Nat /\ n \in 1..n
      /\ m \in Nat /\ m \in 1..n /\ m \in 1..m /\ m - 1 \in Nat /\ m \in 1..n - 1 /\ m + 1 = n
      /\ a \in Arrays /\ d \in Nat /\ IsTuple(s[m].values) /\ Len(heap[a]) \in Nat
      /\ ReadOf(s, n) = Len(heap[s[n].array]) /\ s[n].array \in Arrays
  <2>1. n \in Nat
    BY OnWayIs
  <2>2. m \in 1..n
    BY <2>1
  <2>3. a \in Arrays /\ d \in Nat /\ IsTuple(s[m].values) /\ Len(heap[a]) \in Nat
    <3> HIDE DEF m
    <3> QED
      BY <2>2, OnWayIs
  <2>4. n \in 1..n /\ ReadOf(s, n) = Len(heap[s[n].array]) /\ s[n].array \in Arrays
    BY OnWayIs
  <2> HIDE DEF a, d
  <2> QED
    BY <2>1, <2>2, <2>3, <2>4
<1>3. AsIn(s, t, m - 1) /\ Len(t) = m
  BY <1>2
<1>4. /\ t[m].array = a /\ t[m].size = s[m].size /\ t[m].values = Append(s[m].values, inner)
  OBVIOUS
<1> HIDE DEF m
<1>5. /\ ReadOf(t, m) = d + 1 /\ t[m].values[d + 1] = inner
      /\ \A i \in 1..d : t[m].values[i] = s[m].values[i]
  <2> DEFINE v == s[m].values
  <2>1. IsTuple(v) /\ d = Len(v) /\ ReadOf(t, m) = Len(t[m].values) /\ t[m].values = Append(v, inner)
    BY <1>2, <1>4 DEF ReadOf
  <2> HIDE DEF v, inner, d
  <2>2. /\ Len(Append(v, inner)) = Len(v) + 1 /\ Append(v, inner)[Len(v) + 1] = inner
        /\ \A i \in 1..Len(v) : Append(v, inner)[i] = v[i]
    BY <2>1, PushIs
  <2>3. \A i \in 1..d : t[m].values[i] = v[i]
    BY <2>1, <2>2
  <2>4. ReadOf(t, m) = d + 1 /\ t[m].values[d + 1] = inner
    BY <2>1, <2>2
  <2> QED
    BY <2>3, <2>4 DEF v
<1>6. s[m].size = Len(heap[a]) /\ d < s[m].size /\ heap[a][d + 1] = s[n].array
  <2>1. IsAbove(s, m)
    BY <1>1, <1>2 DEF IsWay
  <2> QED
    BY <1>2, <2>1 DEF IsAbove
<1>7. IsWay(t)
  <2>1. t[1].array = root
    <3>1. m = 1 \/ 1 \in 1..m - 1
      BY <1>2
    <3> QED
      BY <1>1, <1>3, <1>4, <3>1 DEF AsIn, IsWay
  <2>2. ASSUME NEW k \in 1..m - 1 PROVE IsAbove(t, k)
    <3>1. IsAbove(s, k)
      <4>1. k \in 1..n - 1
        BY <1>2
      <4> QED
        BY <1>1, <4>1 DEF IsWay
    <3>2. k + 1 = m \/ k + 1 \in 1..m - 1
      BY <1>2
    <3>3. t[k + 1].array = s[k + 1].array
      BY <1>3, <1>4, <3>2 DEF AsIn
    <3> QED
      BY <1>3, <3>1, <3>3 DEF IsAbove, AsIn, ReadOf
  <2>3. IsAtTop(t, m)
    <3>1. d + 1 <= s[m].size
      <4> HIDE DEF d, a
      <4> QED
        BY <1>2, <1>6
    <3> HIDE DEF a
    <3> QED
      BY <1>4, <1>5, <1>6, <3>1, <1>2 DEF IsAtTop, Unknown
  <2> QED
    BY <1>3, <2>1, <2>2, <2>3 DEF IsWay
<1>8. ASSUME IsFit(s), NEW k \in 1..m, NEW i \in 1..ReadOf(t, k) PROVE StandsFor(t[k].values[i], heap[t[k].array][i])
  <2>1. k \in 1..m - 1 \/ k = m
    BY <1>2
  <2>2. CASE k \in 1..m - 1
    <3>1. t[k].values = s[k].values /\ t[k].array = s[k].array /\ ReadOf(t, k) = ReadOf(s, k)
      BY <1>3, <2>2 DEF AsIn, ReadOf
    <3>2. k \in 1..n
      BY <1>2, <2>2
    <3> QED
      BY <1>8, <3>1, <3>2 DEF IsFit
  <2>3. CASE k = m
    <3>1. i \in 1..d \/ i = d + 1
      <4> HIDE DEF d
      <4> QED
        BY <1>2, <1>5, <2>3
    <3>2. CASE i \in 1..d
      BY <1>2, <1>4, <1>5, <1>8, <2>3, <3>2 DEF IsFit
    <3>3. CASE i = d + 1
      <4>1. t[k].values[i] = inner /\ heap[t[k].array][i] = s[n].array
        BY <1>4, <1>5, <1>6, <2>3, <3>3
      <4>2. Len(inner) = Len(heap[s[n].array])
        BY <1>2 DEF ReadOf
      <4> HIDE DEF inner, n
      <4> QED
        BY <1>2, <4>1, <4>2 DEF StandsFor, IsArray
    <3> QED
      BY <3>1, <3>2, <3>3
  <2> QED
    BY <2>1, <2>2, <2>3
<1> QED
  BY <1>3, <1>7, <1>8 DEF IsFit

(* ... until the outermost array is read.                                  *)
LEMMA WayFits ==
    ASSUME NEW s, IsOnWay(s), IsFit(s)
    PROVE  /\ \A k \in 1..Len(s) : HoldsFor(s[k].values, s[k].array)
           /\ Len(s) = 1 /\ s[1].size # Unknown /\ ReadOf(s, 1) = s[1].size => IsWhole(s[1].values)
<1> DEFINE n == Len(s)
<1>1. IsWay(s) /\ n > 0
  BY DEF IsOnWay
<1>2. /\ n \in Nat /\ \A k \in 1..n : ReadOf(s, k) \in Nat /\ IsTuple(s[k].values) /\ Len(heap[s[k].array]) \in Nat
      /\ s[n].size # Unknown => s[n].size = Len(heap[s[n].array]) /\ ReadOf(s, n) <= s[n].size
  BY OnWayIs
<1>3. ASSUME NEW k \in 1..n PROVE HoldsFor(s[k].values, s[k].array)
  <2>1. ReadOf(s, k) <= Len(heap[s[k].array])
    <3>1. k \in 1..n - 1 \/ k = n
      BY <1>2
    <3>2. CASE k \in 1..n - 1
      <4>1. IsAbove(s, k)
        BY <1>1, <3>2 DEF IsWay
      <4> QED
        BY <1>2, <4>1 DEF IsAbove
    <3>3. CASE k = n
      <4>1. IsAtTop(s, n)
        BY <1>1 DEF IsWay
      <4> QED
        BY <1>2, <3>3, <4>1 DEF IsAtTop
    <3> QED
      BY <3>1, <3>2, <3>3
  <2>2. DOMAIN s[k].values = 1..ReadOf(s, k)
    BY <1>2 DEF IsTuple, ReadOf
  <2> QED
    BY <2>1, <2>2 DEF HoldsFor, IsFit, ReadOf
<1>4. ASSUME n = 1, s[1].size # Unknown, ReadOf(s, 1) = s[1].size PROVE IsWhole(s[1].values)
  <2>1. s[1].array = root /\ s[1].size = Len(heap[s[1].array])
    BY <1>1, <1>2, <1>4 DEF IsWay
  <2> QED
    BY <1>3, <1>4, <2>1 DEF IsWhole, ReadOf
<1> QED
  BY <1>3, <1>4

-----------------------------------------------------------------------------

(* The size of the array is known: its items are counted ...               *)
LEMMA AskedIsThere ==
    ASSUME NEW s, NEW total, IsReading(s, total), s[Len(s)].size = Unknown,
           NEW t, Len(t) = Len(s), AsIn(s, t, Len(s) - 1),
           t[Len(s)].array = s[Len(s)].array, t[Len(s)].values = s[Len(s)].values,
           t[Len(s)].size = Len(heap[s[Len(s)].array])
    PROVE  /\ IsWay(t) /\ IsReadTo(t)
           /\ IF t[Len(s)].size > bounds.maxItems \/ total + t[Len(s)].size > bounds.maxTotalItems THEN TooMuch
              ELSE IsWithin(t, total + t[Len(s)].size)
<1> DEFINE n == Len(s)
           size == Len(heap[s[n].array])
           New == {Within(s, i) : i \in 1..size}
<1>1. Ok /\ total \in Nat /\ IsStack(s) /\ n > 0 /\ IsWay(s) /\ IsReadTo(s) /\ IsWithin(s, total)
  BY DEF IsReading
<1>2. /\ HeapOk /\ bounds.maxDepth \in Nat /\ bounds.maxItems \in Nat /\ bounds.maxTotalItems \in Nat
      /\ n \in Nat /\ n \in 1..n /\ n - 1 \in Nat /\ n <= bounds.maxDepth
  BY <1>1, BoundsAre DEF IsStack, IsTuple
<1>3. size \in Nat
  <2>1. IsFrame(s[n])
    BY <1>1, <1>2 DEF IsStack
  <2>2. s[n].array \in Arrays
    BY <2>1 DEF IsFrame
  <2> QED
    BY <1>2, <2>2, CellsAre
<1>4. Unknown \notin Nat /\ size # Unknown
  BY <1>3 DEF Unknown
<1>5. ReadOf(s, n) = 0 /\ ReadOf(t, n) = 0
  BY <1>1 DEF IsWay, IsAtTop, ReadOf
<1>6. IsWay(t)
  BY <1>1, WayAsked DEF IsOnWay
<1>7. IsReadTo(t)
  <2> SUFFICES ASSUME NEW k \in 1..n, NEW i \in 1..ReadOf(t, k)
               PROVE  t[k].values[i] = NestedValues[bounds.maxDepth - k + 1][t[k].array][i]
    BY DEF IsReadTo
  <2>1. k \in 1..n - 1 \/ k = n
    BY <1>2
  <2>2. CASE k = n
    BY <2>2, <1>5
  <2>3. CASE k \in 1..n - 1
    <3>1. t[k].values = s[k].values /\ t[k].array = s[k].array /\ ReadOf(t, k) = ReadOf(s, k)
      BY <2>3 DEF AsIn, ReadOf
    <3> QED
      BY <1>1, <3>1 DEF IsReadTo
  <2> QED
    BY <2>1, <2>2, <2>3
<1>8. New \subseteq Places
  <2>1. \A i \in 1..size : Within(s, i) \in Places
    BY <1>1, WithinIs
  <2> QED
    BY <2>1
<1>9. \A i \in 1..size : Within(s, i)[n].index = i /\ Last(Within(s, i)).index = i
  <2> SUFFICES ASSUME NEW i \in 1..size PROVE Within(s, i)[n].index = i /\ Last(Within(s, i)).index = i
    OBVIOUS
  <2> DEFINE c == [array |-> s[n].array, index |-> i]
  <2>1. Within(s, i)[n] = c /\ Last(Within(s, i)) = c
    BY <1>1, WithinIs
  <2>2. c.index = i
    OBVIOUS
  <2> HIDE DEF c
  <2> QED
    BY <2>1, <2>2, Zenon
<1>10. IsFiniteSet(New) /\ Cardinality(New) = size
  <2> DEFINE f == [i \in 1..size |-> Within(s, i)]
  <2> HIDE DEF size
  <2>1. \A i, j \in 1..size : f[i] = f[j] => i = j
    <3> SUFFICES ASSUME NEW i \in 1..size, NEW j \in 1..size, f[i] = f[j] PROVE i = j
      OBVIOUS
    <3>1. Within(s, i) = Within(s, j)
      OBVIOUS
    <3>2. Within(s, i)[n].index = i /\ Within(s, j)[n].index = j
      BY <1>9, Zenon
    <3> QED
      BY <3>1, <3>2
  <2>2. f \in [1..size -> New] /\ \A y \in New : \E i \in 1..size : f[i] = y
    OBVIOUS
  <2>3. f \in Bijection(1..size, New)
    <3> HIDE DEF f, New
    <3>1. f \in Injection(1..size, New)
      BY <2>1, <2>2, Zenon DEF Injection, IsInjective
    <3>2. f \in Surjection(1..size, New)
      BY <2>2 DEF Surjection
    <3> QED
      BY <3>1, <3>2 DEF Bijection
  <2>4. ExistsBijection(1..size, New)
    BY <2>3 DEF ExistsBijection
  <2>5. IsFiniteSet(1..size) /\ Cardinality(1..size) = size
    <3>1. 1 \in Int /\ size \in Int
      BY <1>3
    <3>2. IsFiniteSet(1..size) /\ Cardinality(1..size) = IF 1 > size THEN 0 ELSE size - 1 + 1
      BY <3>1, FS_Interval
    <3> QED
      BY <1>3, <3>2
  <2> HIDE DEF New
  <2> QED
    BY <2>4, <2>5, FS_Bijection
<1>11. IsFiniteSet(Places)
  BY <1>2, PlacesFinite
<1>12. IsFiniteSet(Counted(s)) /\ Cardinality(Counted(s)) = total
  <2>1. Counted(s) \in SUBSET Places
    BY DEF Counted
  <2> QED
    BY <1>1, <1>11, <2>1, FS_Subset DEF IsWithin
<1>13. New \cap Counted(s) = {}
  <2> SUFFICES ASSUME NEW i \in 1..size, Within(s, i) \in Counted(s) PROVE FALSE
    OBVIOUS
  <2> DEFINE w == Within(s, i)
  <2>1. PICK k \in 1..n : IsCounted(s, w, k)
    BY DEF Counted
  <2>2. Follows(s, w, n) /\ Len(w) = n
    BY <1>1, WithinIs
  <2>3. k # n
    BY <2>1 DEF IsCounted
  <2>4. k \in 1..n - 1
    BY <1>2, <2>3
  <2>5. w[k] = Here(s, k)
    BY <2>2, <2>4 DEF Follows
  <2>6. w[k].index <= ReadOf(s, k)
    BY <2>1, <2>2, <2>3 DEF IsCounted
  <2>7. ReadOf(s, k) \in Nat
    <3>1. k \in 1..Len(s)
      OBVIOUS
    <3>2. IsFrame(s[k])
      BY <1>1, <3>1 DEF IsStack
    <3> QED
      BY <3>2 DEF IsFrame, IsTuple, ReadOf
  <2> HIDE DEF w
  <2> QED
    BY <2>5, <2>6, <2>7 DEF Here
<1>14. IsFiniteSet(Counted(s) \cup New) /\ Cardinality(Counted(s) \cup New) = total + size
  <2>1. Cardinality(Counted(s) \cap New) = 0
    <3>1. Counted(s) \cap New = {}
      BY <1>13
    <3> QED
      BY <3>1, FS_EmptySet
  <2>2. /\ IsFiniteSet(Counted(s) \cup New)
        /\ Cardinality(Counted(s) \cup New) = Cardinality(Counted(s)) + Cardinality(New) - Cardinality(Counted(s) \cap New)
    <3> HIDE DEF New
    <3> QED
      BY <1>10, <1>12, FS_Union
  <2> HIDE DEF New, size
  <2> QED
    BY <1>1, <1>3, <1>10, <1>12, <2>1, <2>2
<1>15. Counted(s) \cup New \in SUBSET Places
  BY <1>8 DEF Counted
<1>16. total + size <= Cardinality(Places) /\ Cardinality(Places) \in Nat
  <2> HIDE DEF New
  <2> QED
    BY <1>11, <1>14, <1>15, FS_Subset, FS_CardinalityType
<1>17. ASSUME size > bounds.maxItems PROVE TooMuch
  <2> HIDE DEF size
  <2>1. size \in 1..size
    BY <1>2, <1>3, <1>17
  <2>2. Last(Within(s, size)).index = size /\ Within(s, size) \in Places
    <3>1. Last(Within(s, size)).index = size
      BY <1>9, <2>1, Zenon
    <3>2. Within(s, size) \in New
      BY <2>1
    <3> QED
      BY <1>8, <3>1, <3>2, Zenon
  <2>3. \E p \in Places : Last(p).index > bounds.maxItems
    BY <2>2, <1>17
  <2> QED
    BY <2>3 DEF TooMuch
<1>18. ASSUME total + size > bounds.maxTotalItems PROVE TooMuch
  <2> HIDE DEF size
  <2>1. Cardinality(Places) > bounds.maxTotalItems
    BY <1>1, <1>2, <1>3, <1>16, <1>18
  <2> QED
    BY <2>1 DEF TooMuch
<1>19. \A k \in 1..n - 1 : \A p : /\ IsCounted(t, p, k) <=> IsCounted(s, p, k)
                                  /\ IsPassed(t, p, k) <=> IsPassed(s, p, k)
  BY <1>2, SameWays
<1>20. \A p : Follows(t, p, n) <=> Follows(s, p, n)
  <2>1. n \in 1..(n - 1) + 1
    BY <1>2
  <2> QED
    BY <1>2, <2>1, SameHere
<1>21. \A p \in Places : Follows(s, p, n) => p[n].index \in 1..size /\ p[n].array = s[n].array /\ p[n] \in Cells
  BY <1>1, <1>2, FollowsIs
<1>22. ASSUME NEW p \in Places, Follows(s, p, n), Len(p) = n PROVE p \in New
  <2>1. p[n].index \in 1..size /\ p[n].array = s[n].array /\ p[n] \in Cells
    BY <1>21, <1>22
  <2> DEFINE i == p[n].index
             w == Within(s, i)
  <2>2. p[n] = [array |-> s[n].array, index |-> i]
    BY <2>1 DEF Cells
  <2>3. Follows(s, w, n) /\ Len(w) = n /\ w[n] = p[n] /\ w \in Places
    BY <1>1, <2>1, <2>2, WithinIs
  <2>4. w = [j \in 1..n |-> w[j]] /\ p = [j \in 1..n |-> p[j]]
    BY <1>2, <1>22, <2>3, PlaceIs
  <2>5. \A j \in 1..n : w[j] = p[j]
    <3> SUFFICES ASSUME NEW j \in 1..n PROVE w[j] = p[j]
      OBVIOUS
    <3>1. j = n \/ j \in 1..n - 1
      BY <1>2
    <3> HIDE DEF w
    <3> QED
      BY <2>3, <1>22, <3>1 DEF Follows
  <2>6. w = p
    <3> HIDE DEF w
    <3> QED
      BY <2>4, <2>5
  <2> QED
    BY <2>1, <2>6
<1>23. Counted(t) = Counted(s) \cup New
  <2>1. ASSUME NEW p \in Counted(t) PROVE p \in Counted(s) \cup New
    <3>1. p \in Places
      BY <2>1 DEF Counted
    <3>2. PICK k \in 1..n : IsCounted(t, p, k)
      BY <2>1 DEF Counted
    <3>3. k = n \/ k \in 1..n - 1
      BY <1>2
    <3>4. CASE k \in 1..n - 1
      <4>1. IsCounted(s, p, k) /\ k \in 1..Len(s)
        BY <1>19, <3>2, <3>4
      <4> QED
        BY <3>1, <4>1 DEF Counted
    <3>5. CASE k = n
      <4>1. Follows(s, p, n)
        BY <1>20, <3>2, <3>5 DEF IsCounted
      <4>2. p[n].index \in 1..size
        BY <1>21, <3>1, <4>1
      <4>3. Len(p) = n
        BY <1>3, <1>5, <3>2, <3>5, <4>2 DEF IsCounted
      <4> QED
        BY <1>22, <3>1, <4>1, <4>3
    <3> QED
      BY <3>3, <3>4, <3>5
  <2>2. ASSUME NEW p \in Counted(s) PROVE p \in Counted(t)
    <3>1. p \in Places
      BY <2>2 DEF Counted
    <3>2. PICK k \in 1..n : IsCounted(s, p, k)
      BY <2>2 DEF Counted
    <3>3. k # n
      BY <3>2 DEF IsCounted
    <3>4. k \in 1..n - 1 /\ k \in 1..Len(t)
      BY <1>2, <3>3
    <3>5. IsCounted(t, p, k)
      BY <1>19, <3>2, <3>4
    <3> QED
      BY <3>1, <3>4, <3>5 DEF Counted
  <2>3. ASSUME NEW i \in 1..size PROVE Within(s, i) \in Counted(t)
    <3> DEFINE w == Within(s, i)
    <3>1. w \in Places /\ Len(w) = n /\ Follows(s, w, n)
      BY <1>1, WithinIs
    <3> HIDE DEF w
    <3>2. IsCounted(t, w, n)
      BY <1>4, <1>20, <3>1 DEF IsCounted
    <3>3. w \in Counted(t)
      BY <1>2, <3>1, <3>2 DEF Counted
    <3> QED
      BY <3>3 DEF w
  <2> QED
    BY <2>1, <2>2, <2>3
<1>24. ASSUME NEW p \in Passed(t) PROVE p \in Passed(s)
  <2>1. p \in Places
    BY <1>24 DEF Passed
  <2>2. PICK k \in 1..n : IsPassed(t, p, k)
    BY <1>24 DEF Passed
  <2>3. k # n
    <3> SUFFICES ASSUME k = n PROVE FALSE
      OBVIOUS
    <3>1. Follows(s, p, n)
      BY <1>20, <2>2 DEF IsPassed
    <3>2. p[n].index \in 1..size
      BY <1>21, <2>1, <3>1
    <3> QED
      BY <1>3, <1>5, <2>2, <3>2 DEF IsPassed
  <2>4. k \in 1..n - 1
    BY <1>2, <2>3
  <2>5. IsPassed(s, p, k) /\ k \in 1..Len(s)
    BY <1>19, <2>2, <2>4
  <2> QED
    BY <2>1, <2>5 DEF Passed
<1>25. ASSUME ~ (size > bounds.maxItems), ~ (total + size > bounds.maxTotalItems) PROVE IsWithin(t, total + size)
  <2>1. total + size = Cardinality(Counted(t))
    BY <1>14, <1>23
  <2>2. total + size <= bounds.maxTotalItems
    <3> HIDE DEF size
    <3> QED
      BY <1>1, <1>2, <1>3, <1>25
  <2>3. ASSUME NEW p \in Counted(t) PROVE Last(p).index <= bounds.maxItems
    <3>1. CASE p \in Counted(s)
      BY <1>1, <3>1 DEF IsWithin
    <3>2. CASE p \in New
      <4>1. PICK i \in 1..size : p = Within(s, i)
        BY <3>2
      <4>2. Last(p).index = i
        BY <1>9, <4>1, Zenon
      <4> HIDE DEF size
      <4> QED
        BY <1>2, <1>3, <1>25, <4>2
    <3> QED
      BY <1>23, <3>1, <3>2
  <2>4. \A p \in Passed(t) : ~ TooDeep(p)
    BY <1>1, <1>24 DEF IsWithin
  <2> HIDE DEF size
  <2> QED
    BY <2>1, <2>2, <2>3, <2>4 DEF IsWithin
<1>26. t[Len(s)].size = size
  OBVIOUS
<1> HIDE DEF size
<1> QED
  BY <1>6, <1>7, <1>17, <1>18, <1>25, <1>26

LEMMA TopIs ==
    ASSUME NEW s, NEW total, IsReading(s, total)
    PROVE  /\ HeapOk /\ bounds.maxDepth \in Nat /\ bounds.maxItems \in Nat /\ bounds.maxTotalItems \in Nat
           /\ Len(s) \in Nat /\ Len(s) \in 1..Len(s) /\ Len(s) - 1 \in Nat /\ Len(s) <= bounds.maxDepth
           /\ \A k \in 1..Len(s) : /\ s[k].array \in Arrays /\ ReadOf(s, k) \in Nat /\ IsTuple(s[k].values)
                                   /\ Len(heap[s[k].array]) \in Nat
           /\ s[Len(s)].size # Unknown => s[Len(s)].size = Len(heap[s[Len(s)].array]) /\ ReadOf(s, Len(s)) <= s[Len(s)].size
           /\ IsFiniteSet(Places)
<1>1. IsOnWay(s)
  BY DEF IsReading, IsOnWay
<1> QED
  BY <1>1, OnWayIs

(* The item that the call is at.                                           *)
LEMMA ItemIs ==
    ASSUME NEW s, NEW total, IsReading(s, total), s[Len(s)].size # Unknown, ReadOf(s, Len(s)) < s[Len(s)].size
    PROVE  /\ ReadOf(s, Len(s)) + 1 \in 1..Len(heap[s[Len(s)].array])
           /\ heap[s[Len(s)].array][ReadOf(s, Len(s)) + 1] \in Arrays \cup Scalars
           /\ Within(s, ReadOf(s, Len(s)) + 1) \in Places /\ Len(Within(s, ReadOf(s, Len(s)) + 1)) = Len(s)
           /\ Item(Last(Within(s, ReadOf(s, Len(s)) + 1))) = heap[s[Len(s)].array][ReadOf(s, Len(s)) + 1]
<1> DEFINE n == Len(s)
           i == ReadOf(s, n) + 1
           size == s[n].size
<1>1. n \in 1..n /\ size = Len(heap[s[n].array]) /\ size \in Nat /\ ReadOf(s, n) \in Nat /\ HeapOk /\ s[n].array \in Arrays
  BY TopIs
<1>2. i \in 1..Len(heap[s[n].array])
  BY <1>1
<1>3. heap[s[n].array][i] \in Arrays \cup Scalars
  BY <1>1, <1>2, CellsAre
<1>4. Ok /\ IsStack(s) /\ IsWay(s) /\ Len(s) > 0
  BY DEF IsReading
<1>5. /\ Within(s, i) \in Places /\ Len(Within(s, i)) = n
      /\ Last(Within(s, i)) = [array |-> s[n].array, index |-> i]
  <2> HIDE DEF i
  <2> QED
    BY <1>2, <1>4, WithinIs
<1> QED
  BY <1>2, <1>3, <1>5 DEF Item

-----------------------------------------------------------------------------

(* ... an item that is no array is read as itself ...                      *)
LEMMA ItemIsThere ==
    ASSUME NEW s, NEW total, IsReading(s, total), s[Len(s)].size # Unknown, ReadOf(s, Len(s)) < s[Len(s)].size,
           ~ IsArray(heap[s[Len(s)].array][ReadOf(s, Len(s)) + 1]),
           NEW t, Len(t) = Len(s), AsIn(s, t, Len(s) - 1),
           t[Len(s)].array = s[Len(s)].array, t[Len(s)].size = s[Len(s)].size,
           t[Len(s)].values = Append(s[Len(s)].values, heap[s[Len(s)].array][ReadOf(s, Len(s)) + 1])
    PROVE  IsWay(t) /\ IsReadTo(t) /\ IsWithin(t, total)
<1> DEFINE n == Len(s)
           d == ReadOf(s, n)
           item == heap[s[n].array][d + 1]
<1>1. Ok /\ total \in Nat /\ IsStack(s) /\ n > 0 /\ IsWay(s) /\ IsReadTo(s) /\ IsWithin(s, total)
  BY DEF IsReading
<1>2. /\ HeapOk /\ bounds.maxDepth \in Nat /\ n \in Nat /\ n \in 1..n /\ n - 1 \in Nat /\ n <= bounds.maxDepth
      /\ s[n].array \in Arrays /\ d \in Nat /\ IsTuple(s[n].values)
      /\ s[n].size = Len(heap[s[n].array]) /\ Len(heap[s[n].array]) \in Nat
  BY TopIs
<1>3. d + 1 \in 1..Len(heap[s[n].array])
  BY <1>2
<1>4. /\ ReadOf(t, n) = d + 1 /\ t[n].values[d + 1] = item
      /\ \A i \in 1..d : t[n].values[i] = s[n].values[i]
  <2> DEFINE v == s[n].values
  <2>1. IsTuple(v) /\ d = Len(v) /\ ReadOf(t, n) = Len(t[n].values) /\ t[n].values = Append(v, item)
    BY <1>2 DEF ReadOf
  <2> HIDE DEF v, item, d
  <2>2. /\ Len(Append(v, item)) = Len(v) + 1 /\ Append(v, item)[Len(v) + 1] = item
        /\ \A i \in 1..Len(v) : Append(v, item)[i] = v[i]
    BY <2>1, PushIs
  <2>3. \A i \in 1..d : t[n].values[i] = v[i]
    BY <2>1, <2>2
  <2>4. ReadOf(t, n) = d + 1 /\ t[n].values[d + 1] = item
    BY <2>1, <2>2
  <2> QED
    BY <2>3, <2>4 DEF v
<1>5. IsWay(t)
  BY <1>1, WayReads DEF IsOnWay
<1>6. IsReadTo(t)
  <2> SUFFICES ASSUME NEW k \in 1..n, NEW i \in 1..ReadOf(t, k)
               PROVE  t[k].values[i] = NestedValues[bounds.maxDepth - k + 1][t[k].array][i]
    BY DEF IsReadTo
  <2>1. k \in 1..n - 1 \/ k = n
    BY <1>2
  <2>2. CASE k = n
    <3>1. i \in 1..d \/ i = d + 1
      BY <1>2, <1>4, <2>2
    <3>2. CASE i \in 1..d
      BY <1>1, <1>2, <1>4, <2>2, <3>2 DEF IsReadTo
    <3>3. CASE i = d + 1
      <4> DEFINE depth == bounds.maxDepth - n + 1
      <4>1. depth \in 1..bounds.maxDepth
        BY <1>2
      <4>2. i \in DOMAIN heap[s[n].array]
        BY <1>2, <1>3, <3>3 DEF HeapOk
      <4> HIDE DEF depth, d, n
      <4>3. NestedValues[depth][s[n].array] =
              [j \in DOMAIN heap[s[n].array] |->
                 IF IsArray(heap[s[n].array][j]) THEN NestedValues[depth - 1][heap[s[n].array][j]] ELSE heap[s[n].array][j]]
        BY <1>2, <4>1, NestedAre
      <4>4. NestedValues[depth][s[n].array][i] = heap[s[n].array][i]
        BY <4>2, <4>3, <3>3 DEF d, n
      <4>5. t[n].values[i] = heap[s[n].array][i]
        BY <1>4, <3>3
      <4> QED
        BY <4>4, <4>5, <2>2 DEF depth, n
    <3> QED
      BY <3>1, <3>2, <3>3
  <2>3. CASE k \in 1..n - 1
    <3>1. t[k].values = s[k].values /\ t[k].array = s[k].array /\ ReadOf(t, k) = ReadOf(s, k)
      BY <2>3 DEF AsIn, ReadOf
    <3> QED
      BY <1>1, <3>1 DEF IsReadTo
  <2> QED
    BY <2>1, <2>2, <2>3
<1>7. \A k \in 1..n - 1 : \A p : /\ IsCounted(t, p, k) <=> IsCounted(s, p, k)
                                 /\ IsPassed(t, p, k) <=> IsPassed(s, p, k)
  BY <1>2, SameWays
<1>8. \A p : Follows(t, p, n) <=> Follows(s, p, n)
  <2>1. n \in 1..(n - 1) + 1
    BY <1>2
  <2> QED
    BY <1>2, <2>1, SameHere
(* No place is below the item.                                             *)
<1>9. ASSUME NEW p \in Places, Follows(s, p, n), p[n].index <= ReadOf(t, n), ~ (p[n].index <= d)
      PROVE  Len(p) = n /\ Item(Last(p)) = item
  <2>1. p[n] \in Cells /\ p[n].array = s[n].array /\ p[n].index \in 1..Len(heap[s[n].array])
    BY <1>1, <1>2, <1>9, FollowsIs
  <2>2. p[n].index = d + 1
    <3> HIDE DEF d
    <3> QED
      BY <1>2, <1>4, <1>9, <2>1
  <2>3. Item(p[n]) = item
    BY <2>1, <2>2 DEF Item
  <2>4. Len(p) \in Nat /\ Len(p) >= n /\ p \in [1..Len(p) -> Cells] /\ Last(p) = p[Len(p)]
    BY <1>2, <1>9, PlaceIs DEF Follows
  <2>5. ASSUME Len(p) # n PROVE FALSE
    <3>1. n \in 1..Len(p) - 1 /\ n + 1 \in 1..Len(p)
      BY <1>2, <2>4, <2>5
    <3>2. item = p[n + 1].array /\ p[n + 1] \in Cells
      BY <1>2, <2>3, <2>4, <3>1, PlaceIs
    <3>3. item \in Arrays
      BY <1>2, <3>2, CellsAre
    <3> QED
      BY <3>3 DEF IsArray
  <2> QED
    BY <2>3, <2>4, <2>5
<1>10. \A p \in Places : IsCounted(t, p, n) <=> IsCounted(s, p, n)
  <2> SUFFICES ASSUME NEW p \in Places, Follows(s, p, n), ~ (Len(p) = n)
               PROVE  p[n].index <= ReadOf(t, n) <=> p[n].index <= d
    BY <1>8 DEF IsCounted
  <2>1. p[n].index \in 1..Len(heap[s[n].array])
    BY <1>1, <1>2, FollowsIs
  <2>2. p[n].index <= d => p[n].index <= ReadOf(t, n)
    <3> HIDE DEF d
    <3> QED
      BY <1>2, <1>4, <2>1
  <2> QED
    BY <1>9, <2>2
<1>11. Counted(t) = Counted(s)
  <2>1. \A k \in 1..n : k = n \/ k \in 1..n - 1
    BY <1>2
  <2>2. \A k \in 1..n : \A p \in Places : IsCounted(t, p, k) <=> IsCounted(s, p, k)
    BY <1>7, <1>10, <2>1
  <2> QED
    BY <2>2 DEF Counted
<1>12. ASSUME NEW p \in Passed(t) PROVE ~ TooDeep(p)
  <2>1. p \in Places
    BY <1>12 DEF Passed
  <2>2. PICK k \in 1..n : IsPassed(t, p, k)
    BY <1>12 DEF Passed
  <2>3. k = n \/ k \in 1..n - 1
    BY <1>2
  <2>4. CASE k \in 1..n - 1
    <3>1. IsPassed(s, p, k)
      BY <1>7, <2>2, <2>4
    <3>2. p \in Passed(s)
      BY <2>1, <3>1 DEF Passed
    <3> QED
      BY <1>1, <3>2 DEF IsWithin
  <2>5. CASE k = n
    <3>1. Follows(s, p, n) /\ p[n].index <= ReadOf(t, n)
      BY <1>8, <2>2, <2>5 DEF IsPassed
    <3>2. CASE p[n].index <= d
      <4>1. IsPassed(s, p, n) /\ n \in 1..n
        BY <1>2, <3>1, <3>2 DEF IsPassed
      <4>2. p \in Passed(s)
        BY <2>1, <4>1 DEF Passed
      <4> QED
        BY <1>1, <4>2 DEF IsWithin
    <3>3. CASE ~ (p[n].index <= d)
      <4>1. Item(Last(p)) = item
        BY <1>9, <2>1, <3>1, <3>3
      <4> QED
        BY <4>1 DEF TooDeep
    <3> QED
      BY <3>2, <3>3
  <2> QED
    BY <2>3, <2>4, <2>5
<1> QED
  BY <1>1, <1>5, <1>6, <1>11, <1>12 DEF IsWithin

-----------------------------------------------------------------------------

(* ... an array is entered ...                                             *)
LEMMA ArrayIsThere ==
    ASSUME NEW s, NEW total, IsReading(s, total), s[Len(s)].size # Unknown, ReadOf(s, Len(s)) < s[Len(s)].size,
           NEW t, Len(t) = Len(s) + 1, AsIn(s, t, Len(s)),
           t[Len(s) + 1] = Call(heap[s[Len(s)].array][ReadOf(s, Len(s)) + 1])
    PROVE  IsWay(t) /\ IsReadTo(t) /\ IsWithin(t, total)
<1> DEFINE n == Len(s)
           item == heap[s[n].array][ReadOf(s, n) + 1]
<1>1. Ok /\ total \in Nat /\ IsStack(s) /\ n > 0 /\ IsWay(s) /\ IsReadTo(s) /\ IsWithin(s, total)
  BY DEF IsReading
<1>2. n \in Nat /\ n \in 1..n /\ s[n].size = Len(heap[s[n].array]) /\ 1 \in 1..n
  BY TopIs
<1>3. t[n + 1].array = item /\ t[n + 1].size = Unknown /\ ReadOf(t, n + 1) = 0
  <2> HIDE DEF item, n
  <2> QED
    BY DEF Call, ReadOf, n, item
<1>4. IsWay(t)
  BY <1>1, WayEnters DEF IsOnWay
<1>5. \A k \in 1..Len(t) : k = n + 1 \/ k \in 1..n
  BY <1>2
<1>6. IsReadTo(t)
  <2> SUFFICES ASSUME NEW k \in 1..Len(t), NEW i \in 1..ReadOf(t, k)
               PROVE  t[k].values[i] = NestedValues[bounds.maxDepth - k + 1][t[k].array][i]
    BY DEF IsReadTo
  <2>1. CASE k = n + 1
    BY <2>1, <1>3
  <2>2. CASE k \in 1..n
    <3>1. t[k].values = s[k].values /\ t[k].array = s[k].array /\ ReadOf(t, k) = ReadOf(s, k)
      BY <2>2 DEF AsIn, ReadOf
    <3> QED
      BY <1>1, <2>2, <3>1 DEF IsReadTo
  <2> QED
    BY <1>5, <2>1, <2>2
<1>7. \A k \in 1..n : \A p : /\ IsCounted(t, p, k) <=> IsCounted(s, p, k)
                             /\ IsPassed(t, p, k) <=> IsPassed(s, p, k)
  BY <1>2, SameWays
<1>8. \A p \in Places : ~ IsCounted(t, p, n + 1)
  BY <1>3 DEF IsCounted
<1>9. \A p \in Places : ~ IsPassed(t, p, n + 1)
  <2> SUFFICES ASSUME NEW p \in Places, n + 1 <= Len(p), p[n + 1].index <= 0 PROVE FALSE
    BY <1>3 DEF IsPassed, Follows
  <2>1. bounds.maxDepth \in Nat /\ HeapOk
    BY TopIs
  <2>2. Len(p) \in Nat /\ p \in [1..Len(p) -> Cells]
    BY <2>1, PlaceIs
  <2>3. n + 1 \in 1..Len(p)
    BY <1>2, <2>2
  <2>4. p[n + 1] \in Cells
    BY <2>2, <2>3
  <2>5. p[n + 1].index \in 1..Len(heap[p[n + 1].array])
    BY <2>1, <2>4, CellsAre
  <2> QED
    BY <2>5
<1>10. \A k \in 1..n : k \in 1..Len(t)
  BY <1>2
<1>11. Counted(t) = Counted(s)
  BY <1>5, <1>7, <1>8, <1>10 DEF Counted
<1>12. Passed(t) = Passed(s)
  BY <1>5, <1>7, <1>9, <1>10 DEF Passed
<1> QED
  BY <1>1, <1>4, <1>6, <1>11, <1>12 DEF IsWithin

(* ... unless it is too deep ...                                           *)
LEMMA TooDeepIsTooMuch ==
    ASSUME NEW s, NEW total, IsReading(s, total), s[Len(s)].size # Unknown, ReadOf(s, Len(s)) < s[Len(s)].size,
           IsArray(heap[s[Len(s)].array][ReadOf(s, Len(s)) + 1]),
           Len(s) + 1 > bounds.maxDepth
    PROVE  TooMuch
<1> DEFINE w == Within(s, ReadOf(s, Len(s)) + 1)
<1>1. w \in Places /\ Len(w) = Len(s) /\ IsArray(Item(Last(w)))
  BY ItemIs
<1>2. Len(s) = bounds.maxDepth
  BY TopIs
<1> QED
  BY <1>1, <1>2 DEF TooMuch

(* Arrays that each hold one of them go on forever.                        *)
LEMMA Endless ==
    ASSUME Ok, NEW S \in SUBSET Arrays, root \in S,
           \A a \in S : \E i \in 1..Len(heap[a]) : heap[a][i] \in S
    PROVE  TooMuch
<1> DEFINE last == bounds.maxDepth
           P == {m \in Nat : m + 1 > last \/ \E p \in Places : Len(p) = m + 1 /\ Item(Last(p)) \in S}
<1>1. HeapOk /\ last \in Nat /\ last > 0
  BY BoundsAre
<1>2. ASSUME NEW a \in S
      PROVE  \E c \in Cells : c.array = a /\ Item(c) \in S
  <2>1. PICK i \in 1..Len(heap[a]) : heap[a][i] \in S
    OBVIOUS
  <2> DEFINE c == [array |-> a, index |-> i]
  <2>2. c \in Cells
    BY <1>1, CellsAre
  <2>3. c.array = a /\ c.index = i
    OBVIOUS
  <2>4. Item(c) \in S
    BY <2>1, <2>3 DEF Item
  <2> HIDE DEF c
  <2> QED
    BY <2>2, <2>3, <2>4
<1> HIDE DEF last
<1>3. 0 \in P
  <2>1. PICK c \in Cells : c.array = root /\ Item(c) \in S
    BY <1>2
  <2> DEFINE p == [k \in 1..1 |-> c]
  <2>2. p \in [1..1 -> Cells] /\ p[1] = c
    OBVIOUS
  <2>3. 1 \in 1..last
    BY <1>1
  <2> HIDE DEF p
  <2>4. \A k \in 1..1 - 1 : Item(p[k]) = p[k + 1].array
    OBVIOUS
  <2>5. p \in Places /\ Len(p) = 1 /\ Last(p) = p[1]
    BY <1>1, <2>1, <2>2, <2>3, <2>4, IsAPlace DEF last
  <2>6. \E q \in Places : Len(q) = 0 + 1 /\ Item(Last(q)) \in S
    BY <2>1, <2>2, <2>5
  <2> QED
    BY <2>6
<1>4. ASSUME NEW m \in Nat, m \in P PROVE m + 1 \in P
  <2>1. SUFFICES ASSUME (m + 1) + 1 <= last
                 PROVE  \E q \in Places : Len(q) = (m + 1) + 1 /\ Item(Last(q)) \in S
    <3> DEFINE Is(k) == \E q \in Places : Len(q) = k + 1 /\ Item(Last(q)) \in S
    <3> HIDE DEF Is
    <3>1. m + 1 \in Nat /\ (~ ((m + 1) + 1 <= last) => (m + 1) + 1 > last)
      BY <1>1
    <3>2. m + 1 \in Nat /\ ((m + 1) + 1 > last \/ Is(m + 1)) => m + 1 \in P
      BY DEF Is
    <3>3. (m + 1) + 1 <= last => Is(m + 1)
      BY <2>1 DEF Is
    <3> QED
      BY <3>1, <3>2, <3>3
  <2>2. PICK p \in Places : Len(p) = m + 1 /\ Item(Last(p)) \in S
    <3>1. ~ (m + 1 > last)
      BY <1>1, <2>1
    <3> QED
      BY <1>4, <3>1
  <2>3. /\ p \in [1..m + 1 -> Cells] /\ p[1].array = root /\ Last(p) = p[m + 1]
        /\ \A k \in 1..m : Item(p[k]) = p[k + 1].array
    <3>1. (m + 1) - 1 = m
      OBVIOUS
    <3> QED
      BY <1>1, <2>2, <3>1, PlaceIs DEF last
  <2>4. PICK c \in Cells : c.array = Item(p[m + 1]) /\ Item(c) \in S
    BY <1>2, <2>2, <2>3
  <2> DEFINE n == m + 2
             q == [k \in 1..n |-> IF k = n THEN c ELSE p[k]]
  <2>5. n \in 1..last /\ (m + 1) + 1 = n /\ m + 1 \in 1..n - 1 /\ n \in Nat
    BY <1>1, <2>1
  <2>6. q[n] = c /\ \A k \in 1..m + 1 : q[k] = p[k]
    BY <2>5
  <2>7. q \in [1..n -> Cells]
    <3>1. \A k \in 1..n : k = n \/ k \in 1..m + 1
      OBVIOUS
    <3>2. \A k \in 1..n : q[k] \in Cells
      <4> HIDE DEF q, n
      <4> QED
        BY <2>3, <2>6, <3>1
    <3>3. q = [k \in 1..n |-> q[k]]
      OBVIOUS
    <3> HIDE DEF q, n
    <3> QED
      BY <3>2, <3>3
  <2>8. \A k \in 1..n - 1 : Item(q[k]) = q[k + 1].array
    <3> SUFFICES ASSUME NEW k \in 1..n - 1 PROVE Item(q[k]) = q[k + 1].array
      OBVIOUS
    <3>1. k = m + 1 \/ (k \in 1..m /\ k + 1 \in 1..m + 1)
      OBVIOUS
    <3>2. k \in 1..m + 1
      OBVIOUS
    <3>3. CASE k = m + 1
      <4> HIDE DEF q, n
      <4>1. q[k] = p[m + 1] /\ k + 1 = n
        BY <2>5, <2>6, <3>2, <3>3
      <4> QED
        BY <2>4, <2>6, <4>1
    <3>4. CASE k \in 1..m /\ k + 1 \in 1..m + 1
      <4> HIDE DEF q, n
      <4>1. q[k] = p[k] /\ q[k + 1] = p[k + 1]
        BY <2>6, <3>2, <3>4
      <4> QED
        BY <2>3, <3>4, <4>1
    <3> QED
      BY <3>1, <3>3, <3>4
  <2>9. q[1].array = root
    <3>1. 1 \in 1..m + 1
      OBVIOUS
    <3>2. q[1] = p[1]
      <4> HIDE DEF q, n
      <4> QED
        BY <2>6, <3>1
    <3> HIDE DEF q, n
    <3> QED
      BY <2>3, <3>2
  <2> HIDE DEF q, n
  <2>10. q \in Places /\ Len(q) = n /\ Last(q) = q[n]
    BY <1>1, <2>5, <2>7, <2>8, <2>9, IsAPlace DEF last
  <2> QED
    BY <2>4, <2>5, <2>6, <2>10
<1>5. last - 1 \in P
  <2> HIDE DEF P
  <2>1. last - 1 \in Nat
    BY <1>1
  <2> QED
    BY <1>3, <1>4, <2>1, NatSet
<1>6. PICK p \in Places : Len(p) = last /\ Item(Last(p)) \in S
  <2>1. ~ ((last - 1) + 1 > last) /\ (last - 1) + 1 = last
    BY <1>1
  <2> QED
    BY <1>5, <2>1
<1>7. IsArray(Item(Last(p)))
  BY <1>6 DEF IsArray
<1> QED
  BY <1>6, <1>7 DEF TooMuch, last

(* ... or being read already.                                              *)
LEMMA InsideIsTooMuch ==
    ASSUME NEW s, NEW total, IsReading(s, total), s[Len(s)].size # Unknown, ReadOf(s, Len(s)) < s[Len(s)].size,
           heap[s[Len(s)].array][ReadOf(s, Len(s)) + 1] \in ArraysOf(s)
    PROVE  TooMuch
<1> DEFINE n == Len(s)
           S == ArraysOf(s)
<1>1. Ok /\ IsStack(s) /\ IsWay(s)
  BY DEF IsReading
<1>2. /\ n \in Nat /\ n \in 1..n /\ 1 \in 1..n
      /\ \A k \in 1..n : s[k].array \in Arrays /\ ReadOf(s, k) \in Nat /\ Len(heap[s[k].array]) \in Nat
  BY TopIs
<1>3. S \in SUBSET Arrays /\ root \in S
  <2>1. s[1].array = root
    BY <1>1 DEF IsWay
  <2> QED
    BY <1>2, <2>1 DEF ArraysOf
<1>4. ASSUME NEW a \in S PROVE \E i \in 1..Len(heap[a]) : heap[a][i] \in S
  <2>1. PICK k \in 1..n : a = s[k].array
    BY DEF ArraysOf
  <2>2. k = n \/ k \in 1..n - 1
    BY <1>2
  <2>3. CASE k = n
    <3>1. ReadOf(s, n) + 1 \in 1..Len(heap[s[n].array])
      BY ItemIs
    <3> QED
      BY <2>1, <2>3, <3>1
  <2>4. CASE k \in 1..n - 1
    <3>1. IsAbove(s, k) /\ k + 1 \in 1..n
      BY <1>1, <1>2, <2>4 DEF IsWay
    <3>2. ReadOf(s, k) + 1 \in 1..Len(heap[s[k].array])
      BY <1>2, <3>1 DEF IsAbove
    <3>3. heap[s[k].array][ReadOf(s, k) + 1] = s[k + 1].array
      BY <3>1 DEF IsAbove
    <3>4. s[k + 1].array \in S
      BY <3>1 DEF ArraysOf
    <3> QED
      BY <2>1, <3>2, <3>3, <3>4
  <2> QED
    BY <2>2, <2>3, <2>4
<1> HIDE DEF S
<1> QED
  BY <1>1, <1>3, <1>4, Endless

-----------------------------------------------------------------------------

(* An array that is read is what is there.                                 *)
LEMMA WholeIs ==
    ASSUME NEW s, NEW total, IsReading(s, total), s[Len(s)].size # Unknown, ReadOf(s, Len(s)) = s[Len(s)].size
    PROVE  s[Len(s)].values = NestedValues[bounds.maxDepth - Len(s) + 1][s[Len(s)].array]
<1> DEFINE n == Len(s)
           depth == bounds.maxDepth - n + 1
           a == s[n].array
           v == s[n].values
           N == NestedValues[depth][a]
<1>1. /\ n \in Nat /\ n \in 1..n /\ a \in Arrays /\ bounds.maxDepth \in Nat /\ n <= bounds.maxDepth
      /\ Len(v) = Len(heap[a]) /\ IsTuple(v) /\ HeapOk /\ Len(heap[a]) \in Nat
  BY TopIs DEF ReadOf
<1>2. depth \in 1..bounds.maxDepth
  BY <1>1
<1>3. DOMAIN heap[a] = 1..Len(heap[a])
  BY <1>1 DEF HeapOk
<1>4. v = [i \in 1..Len(v) |-> v[i]]
  <2> HIDE DEF v
  <2> QED
    BY <1>1 DEF IsTuple
<1>5. N = [i \in DOMAIN heap[a] |-> IF IsArray(heap[a][i]) THEN NestedValues[depth - 1][heap[a][i]] ELSE heap[a][i]]
  <2> HIDE DEF depth, a, n
  <2> QED
    BY <1>1, <1>2, NestedAre
<1>6. N = [i \in 1..Len(v) |-> N[i]]
  <2> HIDE DEF depth, a, v
  <2> QED
    BY <1>1, <1>3, <1>5
<1>7. \A i \in 1..Len(v) : v[i] = N[i]
  BY <1>1 DEF IsReading, IsReadTo, ReadOf
<1> HIDE DEF N, v
<1>8. v = N
  BY <1>4, <1>6, <1>7
<1> QED
  BY <1>8 DEF N, v

(* The whole is read: all places were counted.                             *)
LEMMA LastIsThere ==
    ASSUME NEW s, NEW total, IsReading(s, total), s[Len(s)].size # Unknown, ReadOf(s, Len(s)) = s[Len(s)].size, Len(s) = 1
    PROVE  ~ TooMuch /\ s[1].values = NestedValues[bounds.maxDepth][root]
<1>1. Ok /\ IsStack(s) /\ IsWay(s) /\ IsWithin(s, total)
  BY DEF IsReading
<1>2. /\ HeapOk /\ bounds.maxDepth \in Nat /\ bounds.maxItems \in Nat /\ bounds.maxTotalItems \in Nat
      /\ ReadOf(s, 1) = Len(heap[s[1].array]) /\ s[1].array = root
  BY <1>1, TopIs DEF IsWay
<1>3. \A p \in Places : IsCounted(s, p, 1) /\ IsPassed(s, p, 1)
  <2> SUFFICES ASSUME NEW p \in Places PROVE IsCounted(s, p, 1) /\ IsPassed(s, p, 1)
    OBVIOUS
  <2>1. Follows(s, p, 1)
    BY <1>2, PlaceIs DEF Follows
  <2>2. p[1].index \in 1..Len(heap[s[1].array]) /\ Len(heap[s[1].array]) \in Nat
    <3>1. 1 \in 1..Len(s)
      OBVIOUS
    <3> QED
      BY <1>1, <2>1, <3>1, FollowsIs
  <2> QED
    BY <1>2, <2>1, <2>2 DEF IsCounted, IsPassed
<1>4. Counted(s) = Places /\ Passed(s) = Places
  <2>1. 1 \in 1..Len(s)
    OBVIOUS
  <2> QED
    BY <1>3, <2>1 DEF Counted, Passed
<1>5. \A p \in Places : Last(p).index \in Nat
  <2> SUFFICES ASSUME NEW p \in Places PROVE Last(p).index \in Nat
    OBVIOUS
  <2>1. Len(p) \in 1..Len(p) /\ p \in [1..Len(p) -> Cells] /\ Last(p) = p[Len(p)]
    BY <1>2, PlaceIs
  <2>2. Last(p) \in Cells
    BY <2>1
  <2>3. Last(p).index \in 1..Len(heap[Last(p).array])
    BY <1>2, <2>2, CellsAre
  <2> QED
    BY <2>3
<1>6. ~ (\E p \in Places : Len(p) = bounds.maxDepth /\ IsArray(Item(Last(p))))
  BY <1>1, <1>4 DEF IsWithin, TooDeep
<1>7. ~ (\E p \in Places : Last(p).index > bounds.maxItems)
  BY <1>1, <1>2, <1>4, <1>5 DEF IsWithin
<1>8. ~ (Cardinality(Places) > bounds.maxTotalItems)
  <2>1. Cardinality(Places) \in Nat
    BY <1>2, PlacesFinite, FS_CardinalityType
  <2> QED
    BY <1>1, <1>2, <1>4, <2>1 DEF IsWithin
<1>9. s[1].values = NestedValues[bounds.maxDepth - 1 + 1][s[1].array]
  BY WholeIs
<1>10. bounds.maxDepth - 1 + 1 = bounds.maxDepth
  BY <1>2
<1> QED
  BY <1>2, <1>6, <1>7, <1>8, <1>9, <1>10 DEF TooMuch

(* An array inside another is read: the other goes on behind it.           *)
LEMMA InnerIsThere ==
    ASSUME NEW s, NEW total, IsReading(s, total), s[Len(s)].size # Unknown, ReadOf(s, Len(s)) = s[Len(s)].size, Len(s) > 1,
           NEW t, Len(t) = Len(s) - 1, AsIn(s, t, Len(s) - 2),
           t[Len(s) - 1].array = s[Len(s) - 1].array, t[Len(s) - 1].size = s[Len(s) - 1].size,
           t[Len(s) - 1].values = Append(s[Len(s) - 1].values, s[Len(s)].values)
    PROVE  IsWay(t) /\ IsReadTo(t) /\ IsWithin(t, total)
<1> DEFINE n == Len(s)
           m == n - 1
           d == ReadOf(s, m)
           inner == s[n].values
           a == s[m].array
<1>1. Ok /\ total \in Nat /\ IsStack(s) /\ n > 0 /\ IsWay(s) /\ IsReadTo(s) /\ IsWithin(s, total)
  BY DEF IsReading
<1>2. /\ HeapOk /\ bounds.maxDepth \in Nat /\ n \in Nat /\ n \in 1..n /\ n <= bounds.maxDepth
      /\ m \in Nat /\ m \in 1..n /\ m \in 1..m /\ m - 1 \in Nat /\ m \in 1..n - 1 /\ m + 1 = n
      /\ a \in Arrays /\ d \in Nat /\ IsTuple(s[m].values) /\ Len(heap[a]) \in Nat
      /\ ReadOf(s, n) = Len(heap[s[n].array])
  <2>1. n \in Nat
    BY TopIs
  <2>2. m \in 1..n
    BY <2>1
  <2>3. a \in Arrays /\ d \in Nat /\ IsTuple(s[m].values) /\ Len(heap[a]) \in Nat
    <3> HIDE DEF m
    <3> QED
      BY <2>2, TopIs
  <2>4. /\ HeapOk /\ bounds.maxDepth \in Nat /\ n \in 1..n /\ n <= bounds.maxDepth
        /\ ReadOf(s, n) = Len(heap[s[n].array])
    BY TopIs
  <2> HIDE DEF a, d
  <2> QED
    BY <2>1, <2>2, <2>3, <2>4
<1>3. AsIn(s, t, m - 1) /\ Len(t) = m
  BY <1>2
<1>4. /\ t[m].array = a /\ t[m].size = s[m].size /\ t[m].values = Append(s[m].values, inner)
  OBVIOUS
<1> HIDE DEF m
<1>5. /\ ReadOf(t, m) = d + 1 /\ t[m].values[d + 1] = inner
      /\ \A i \in 1..d : t[m].values[i] = s[m].values[i]
  <2> DEFINE v == s[m].values
  <2>1. IsTuple(v) /\ d = Len(v) /\ ReadOf(t, m) = Len(t[m].values) /\ t[m].values = Append(v, inner)
    BY <1>2, <1>4 DEF ReadOf
  <2> HIDE DEF v, inner, d
  <2>2. /\ Len(Append(v, inner)) = Len(v) + 1 /\ Append(v, inner)[Len(v) + 1] = inner
        /\ \A i \in 1..Len(v) : Append(v, inner)[i] = v[i]
    BY <2>1, PushIs
  <2>3. \A i \in 1..d : t[m].values[i] = v[i]
    BY <2>1, <2>2
  <2>4. ReadOf(t, m) = d + 1 /\ t[m].values[d + 1] = inner
    BY <2>1, <2>2
  <2> QED
    BY <2>3, <2>4 DEF v
<1>6. s[m].size = Len(heap[a]) /\ d < s[m].size /\ heap[a][d + 1] = s[n].array
  <2>1. IsAbove(s, m)
    BY <1>1, <1>2 DEF IsWay
  <2> QED
    BY <1>2, <2>1 DEF IsAbove
<1>7. IsWay(t)
  BY <1>1, WayLeaves DEF IsOnWay
<1>8. IsReadTo(t)
  <2> SUFFICES ASSUME NEW k \in 1..m, NEW i \in 1..ReadOf(t, k)
               PROVE  t[k].values[i] = NestedValues[bounds.maxDepth - k + 1][t[k].array][i]
    BY <1>3 DEF IsReadTo
  <2>1. k \in 1..m - 1 \/ k = m
    BY <1>2
  <2>2. CASE k = m
    <3>1. i \in 1..d \/ i = d + 1
      <4> HIDE DEF d
      <4> QED
        BY <1>2, <1>5, <2>2
    <3>2. CASE i \in 1..d
      BY <1>1, <1>2, <1>4, <1>5, <2>2, <3>2 DEF IsReadTo
    <3>3. CASE i = d + 1
      <4> DEFINE depth == bounds.maxDepth - m + 1
      <4>1. depth \in 1..bounds.maxDepth /\ depth - 1 = bounds.maxDepth - n + 1
        <5> DEFINE b == bounds.maxDepth
        <5>1. b \in Nat /\ n \in Nat /\ n <= b /\ m \in 1..n /\ m + 1 = n
          BY <1>2
        <5> HIDE DEF n, b
        <5>2. b - m + 1 \in 1..b /\ b - m + 1 - 1 = b - n + 1
          BY <5>1
        <5>3. depth = b - m + 1 /\ bounds.maxDepth = b
          BY DEF b
        <5> HIDE DEF depth
        <5> QED
          BY <5>1, <5>2, <5>3
      <4>2. d + 1 \in DOMAIN heap[a]
        <5>1. DOMAIN heap[a] = 1..Len(heap[a])
          BY <1>2 DEF HeapOk
        <5> HIDE DEF d, a
        <5> QED
          BY <1>2, <1>6, <5>1
      <4> HIDE DEF depth, a
      <4>3. NestedValues[depth][a] =
              [j \in DOMAIN heap[a] |->
                 IF IsArray(heap[a][j]) THEN NestedValues[depth - 1][heap[a][j]] ELSE heap[a][j]]
        BY <1>2, <4>1, NestedAre
      <4>4. IsArray(heap[a][d + 1])
        BY <1>2, <1>6, TopIs DEF IsArray
      <4> HIDE DEF d, n
      <4>5. NestedValues[depth][a][d + 1] = NestedValues[depth - 1][s[n].array]
        BY <1>6, <4>2, <4>3, <4>4
      <4>6. inner = NestedValues[bounds.maxDepth - n + 1][s[n].array]
        BY WholeIs DEF n
      <4>7. t[m].values[d + 1] = NestedValues[depth][a][d + 1]
        BY <1>5, <4>1, <4>5, <4>6
      <4>8. t[k].values[i] = NestedValues[depth][t[k].array][i]
        BY <1>4, <2>2, <3>3, <4>7
      <4> QED
        BY <4>8, <2>2 DEF depth
    <3> QED
      BY <3>1, <3>2, <3>3
  <2>3. CASE k \in 1..m - 1
    <3>1. t[k].values = s[k].values /\ t[k].array = s[k].array /\ ReadOf(t, k) = ReadOf(s, k)
      BY <1>3, <2>3 DEF AsIn, ReadOf
    <3>2. k \in 1..n
      BY <1>2, <2>3
    <3> QED
      BY <1>1, <3>1, <3>2 DEF IsReadTo
  <2> QED
    BY <2>1, <2>2, <2>3
<1>9. \A k \in 1..m - 1 : \A p : /\ IsCounted(t, p, k) <=> IsCounted(s, p, k)
                                 /\ IsPassed(t, p, k) <=> IsPassed(s, p, k)
  BY <1>2, <1>3, SameWays
<1>10. \A p : Follows(t, p, m) <=> Follows(s, p, m)
  <2>1. m \in 1..(m - 1) + 1
    BY <1>2
  <2> QED
    BY <1>2, <1>3, <2>1, SameHere
<1>11. /\ s[m].size # Unknown /\ t[m].size # Unknown
  BY <1>2, <1>4, <1>6 DEF Unknown
<1>12. \A p \in Places : Follows(s, p, m) => p[m].index \in 1..Len(heap[a]) /\ p[m].array = a /\ p[m] \in Cells
  BY <1>1, <1>2, FollowsIs
<1>13. \A p \in Places : Follows(s, p, n) => p[n].index <= ReadOf(s, n)
  <2> SUFFICES ASSUME NEW p \in Places, Follows(s, p, n) PROVE p[n].index <= ReadOf(s, n)
    OBVIOUS
  <2>1. p[n].index \in 1..Len(heap[s[n].array]) /\ Len(heap[s[n].array]) \in Nat
    BY <1>1, <1>2, FollowsIs
  <2> QED
    BY <1>2, <2>1
(* What is below the array that is read.                                   *)
<1>14. \A p \in Places : Follows(s, p, n) <=> Follows(s, p, m) /\ p[m].index = d + 1 /\ Len(p) # m
  <2> SUFFICES ASSUME NEW p \in Places
               PROVE  Follows(s, p, n) <=> Follows(s, p, m) /\ p[m].index = d + 1 /\ Len(p) # m
    OBVIOUS
  <2>1. Len(p) \in Nat
    BY <1>2, PlaceIs
  <2>2. ASSUME Follows(s, p, n) PROVE Follows(s, p, m) /\ p[m].index = d + 1 /\ Len(p) # m
    <3>1. n <= Len(p) /\ \A j \in 1..n - 1 : p[j] = Here(s, j)
      BY <2>2 DEF Follows
    <3> HIDE DEF n
    <3>2. m <= Len(p) /\ Len(p) # m /\ \A j \in 1..m - 1 : j \in 1..n - 1
      BY <1>2, <2>1, <3>1
    <3>3. Follows(s, p, m)
      BY <3>1, <3>2 DEF Follows
    <3>4. p[m] = Here(s, m)
      BY <1>2, <3>1
    <3> QED
      BY <3>2, <3>3, <3>4 DEF Here
  <2>3. ASSUME Follows(s, p, m), p[m].index = d + 1, Len(p) # m PROVE Follows(s, p, n)
    <3>1. p[m].array = a /\ p[m] \in Cells
      BY <1>12, <2>3
    <3>2. p[m] = Here(s, m)
      BY <2>3, <3>1 DEF Here, Cells
    <3> HIDE DEF n
    <3>3. \A j \in 1..n - 1 : j = m \/ j \in 1..m - 1
      BY <1>2
    <3>4. n <= Len(p)
      BY <1>2, <2>1, <2>3 DEF Follows
    <3> QED
      BY <2>3, <3>2, <3>3, <3>4 DEF Follows
  <2> QED
    BY <2>2, <2>3
<1>15. \A p \in Places : Follows(s, p, m) => (p[m].index <= ReadOf(t, m) <=> p[m].index <= d \/ p[m].index = d + 1)
  <2> SUFFICES ASSUME NEW p \in Places, Follows(s, p, m)
               PROVE  p[m].index <= ReadOf(t, m) <=> p[m].index <= d \/ p[m].index = d + 1
    OBVIOUS
  <2>1. p[m].index \in 1..Len(heap[a])
    BY <1>12
  <2> HIDE DEF d, a
  <2> QED
    BY <1>2, <1>5, <2>1
<1>16. \A p \in Places : IsCounted(t, p, m) <=> IsCounted(s, p, m) \/ IsCounted(s, p, n)
  <2> SUFFICES ASSUME NEW p \in Places
               PROVE  IsCounted(t, p, m) <=> IsCounted(s, p, m) \/ IsCounted(s, p, n)
    OBVIOUS
  <2>1. IsCounted(s, p, n) <=> Follows(s, p, n)
    BY <1>13 DEF IsCounted
  <2>2. IsCounted(s, p, m) <=> Follows(s, p, m) /\ (Len(p) = m \/ p[m].index <= d)
    BY <1>11 DEF IsCounted
  <2>3. IsCounted(t, p, m) <=> Follows(s, p, m) /\ (Len(p) = m \/ p[m].index <= ReadOf(t, m))
    BY <1>10, <1>11 DEF IsCounted
  <2> HIDE DEF d
  <2> QED
    BY <1>14, <1>15, <2>1, <2>2, <2>3
<1>17. \A k : k \in 1..n <=> k = n \/ k = m \/ k \in 1..m - 1
  <2> HIDE DEF n
  <2> QED
    BY <1>2
<1>18. \A k : k \in 1..Len(t) <=> k = m \/ k \in 1..m - 1
  <2> HIDE DEF n
  <2> QED
    BY <1>2, <1>3
<1>19. Counted(t) = Counted(s)
  <2>1. ASSUME NEW p \in Places
        PROVE  (\E k \in 1..Len(t) : IsCounted(t, p, k)) <=> (\E k \in 1..Len(s) : IsCounted(s, p, k))
    BY <1>9, <1>16, <1>17, <1>18, Zenon
  <2> QED
    BY <2>1 DEF Counted
<1>20. ASSUME NEW p \in Passed(t) PROVE ~ TooDeep(p)
  <2>1. p \in Places
    BY <1>20 DEF Passed
  <2>2. PICK k \in 1..Len(t) : IsPassed(t, p, k)
    BY <1>20 DEF Passed
  <2>3. ASSUME NEW j \in 1..n, IsPassed(s, p, j) PROVE ~ TooDeep(p)
    <3>1. p \in Passed(s)
      BY <2>1, <2>3 DEF Passed
    <3> QED
      BY <1>1, <3>1 DEF IsWithin
  <2>4. CASE k \in 1..m - 1
    <3>1. IsPassed(s, p, k) /\ k \in 1..n
      BY <1>9, <1>17, <2>2, <2>4
    <3> QED
      BY <2>3, <3>1
  <2>5. CASE k = m
    <3>1. Follows(s, p, m) /\ p[m].index <= ReadOf(t, m)
      BY <1>10, <2>2, <2>5 DEF IsPassed
    <3>2. p[m].index <= d \/ p[m].index = d + 1
      BY <1>15, <2>1, <3>1
    <3>3. CASE p[m].index <= d
      <4>1. IsPassed(s, p, m)
        BY <3>1, <3>3 DEF IsPassed
      <4> QED
        BY <1>2, <2>3, <4>1
    <3>4. CASE p[m].index = d + 1 /\ Len(p) # m
      <4>1. Follows(s, p, n)
        BY <1>14, <2>1, <3>1, <3>4
      <4>2. IsPassed(s, p, n)
        BY <1>13, <2>1, <4>1 DEF IsPassed
      <4> QED
        BY <1>2, <2>3, <4>2
    <3>5. CASE Len(p) = m
      <4>1. m # bounds.maxDepth
        <5> HIDE DEF n
        <5> QED
          BY <1>2
      <4> QED
        BY <3>5, <4>1 DEF TooDeep
    <3> QED
      BY <3>2, <3>3, <3>4, <3>5
  <2> QED
    BY <1>18, <2>2, <2>4, <2>5
<1> QED
  BY <1>1, <1>7, <1>8, <1>19, <1>20 DEF IsWithin

(* A call in progress: its size, its values, a new one, none.              *)
LEMMA FrameSized ==
    ASSUME NEW f, IsFrame(f), NEW size \in Nat
    PROVE  /\ IsFrame([f EXCEPT !.size = size])
           /\ [f EXCEPT !.size = size].array = f.array /\ [f EXCEPT !.size = size].values = f.values
           /\ [f EXCEPT !.size = size].size = size
<1> DEFINE x == [f EXCEPT !.size = size]
<1>1. f = [array |-> f.array, size |-> f.size, values |-> f.values]
  BY DEF IsFrame
<1>2. x = [array |-> f.array, size |-> size, values |-> f.values]
  BY <1>1
<1> HIDE DEF x
<1>3. x.array = f.array /\ x.size = size /\ x.values = f.values
  BY <1>2
<1>4. IsFrame(x)
  BY <1>2, <1>3 DEF IsFrame
<1> QED
  BY <1>3, <1>4 DEF x

LEMMA FrameGrows ==
    ASSUME NEW f, IsFrame(f), NEW v
    PROVE  /\ IsFrame([f EXCEPT !.values = Append(@, v)])
           /\ [f EXCEPT !.values = Append(@, v)].array = f.array /\ [f EXCEPT !.values = Append(@, v)].size = f.size
           /\ [f EXCEPT !.values = Append(@, v)].values = Append(f.values, v)
<1> DEFINE more == Append(f.values, v)
           x == [f EXCEPT !.values = Append(@, v)]
<1>1. f = [array |-> f.array, size |-> f.size, values |-> f.values]
  BY DEF IsFrame
<1>2. IsTuple(more)
  BY PushIs DEF IsFrame
<1>3. x = [f EXCEPT !.values = more]
  OBVIOUS
<1> HIDE DEF x, more
<1>4. x = [array |-> f.array, size |-> f.size, values |-> more]
  BY <1>1, <1>3
<1>5. x.array = f.array /\ x.size = f.size /\ x.values = more
  BY <1>4
<1>6. IsFrame(x)
  BY <1>2, <1>4, <1>5 DEF IsFrame
<1> QED
  BY <1>5, <1>6 DEF x, more

LEMMA CallIs ==
    ASSUME NEW a \in Arrays
    PROVE  IsFrame(Call(a)) /\ Call(a).array = a /\ Call(a).size = Unknown /\ Call(a).values = <<>>
<1>1. Call(a).array = a /\ Call(a).size = Unknown /\ Call(a).values = <<>>
  BY DEF Call
<1>2. <<>> \in Seq({})
  OBVIOUS
<1>3. IsTuple(<<>>)
  BY <1>2, Zenon DEF IsTuple
<1> QED
  BY <1>1, <1>3 DEF IsFrame, Call

LEMMA EmptyIs ==
    ASSUME Ok
    PROVE  IsStack(<<>>) /\ ArraysOf(<<>>) = {}
<1>1. <<>> \in Seq({}) /\ Len(<<>>) = 0
  OBVIOUS
<1>2. IsTuple(<<>>)
  BY <1>1, Zenon DEF IsTuple
<1>3. bounds.maxDepth \in Nat
  BY BoundsAre
<1> QED
  BY <1>1, <1>2, <1>3 DEF IsStack, ArraysOf

(* What others do not touch.                                               *)
LEMMA PlacesStay ==
    ASSUME heap' = heap, root' = root, bounds' = bounds
    PROVE  Cells' = Cells /\ Places' = Places /\ (TooMuch' <=> TooMuch) /\ (Ok' <=> Ok)
<1>1. Cells' = Cells
  BY DEF Cells
<1>2. \A at : Item(at)' = Item(at)
  BY DEF Item
<1>3. Places' = Places
  BY <1>1 DEF Places, Item
<1>4. TooMuch' <=> TooMuch
  BY <1>3 DEF TooMuch, Item
<1>5. Ok' <=> Ok
  BY DEF Ok, HeapOk
<1> QED
  BY <1>1, <1>3, <1>4, <1>5

LEMMA InvStays ==
    ASSUME heap' = heap, root' = root, bounds' = bounds
    PROVE  /\ IsStack(frames)' <=> IsStack(frames')
           /\ IsWay(frames)' <=> IsWay(frames')
           /\ IsFit(frames)' <=> IsFit(frames')
           /\ IsWhole(got)' <=> IsWhole(got')
           /\ IsReadTo(frames)' <=> IsReadTo(frames')
           /\ IsWithin(frames, totalItems)' <=> IsWithin(frames', totalItems')
<1>1. IsStack(frames)' <=> IsStack(frames')
  BY DEF IsStack
<1>2. IsWay(frames)' <=> IsWay(frames')
  BY DEF IsWay, IsAbove, IsAtTop
<1>3. IsReadTo(frames)' <=> IsReadTo(frames')
  BY NestedStays DEF IsReadTo
<1>4. Counted(frames)' = Counted(frames') /\ Passed(frames)' = Passed(frames')
  BY PlacesStay DEF Counted, Passed
<1>5. IsWithin(frames, totalItems)' <=> IsWithin(frames', totalItems')
  BY <1>4 DEF IsWithin, TooDeep, Item
<1>6. IsFit(frames)' <=> IsFit(frames')
  BY DEF IsFit, StandsFor, IsArray
<1>7. IsWhole(got)' <=> IsWhole(got')
  BY DEF IsWhole, HoldsFor, StandsFor, IsArray
<1> QED
  BY <1>1, <1>2, <1>3, <1>5, <1>6, <1>7

(* What is left to show of a step.                                         *)
LEMMA InvAfter ==
    ASSUME ReadInv, heap' = heap, root' = root, bounds' = bounds, puts' = puts, totalItems' \in Nat,
           IsStack(frames'), seen' = ArraysOf(frames'),
           puts = 0 /\ frames' # <<>> => IsWay(frames') /\ IsFit(frames'),
           puts = 0 /\ frames' = <<>> /\ got' # Denied => IsWhole(got'),
           Unhindered' /\ frames' # <<>> => IsReadTo(frames') /\ IsWithin(frames', totalItems'),
           Unhindered' /\ frames' = <<>> => got' = IF TooMuch THEN Denied ELSE NestedValues[bounds.maxDepth][root],
           "call" \in failedCalls' => frames' = <<>> /\ got' = Denied
    PROVE  ReadInv'
<1>1. Ok' /\ puts' \in Nat /\ totalItems' \in Nat
  BY PlacesStay DEF ReadInv
<1>2. IsStack(frames)' /\ seen' = ArraysOf(frames)'
  BY InvStays DEF ArraysOf
<1>3. (puts = 0 /\ Reading)' => IsWay(frames)' /\ IsFit(frames)'
  BY InvStays DEF Reading
<1>4. (puts = 0 /\ ~ Reading /\ got # Denied)' => IsWhole(got)'
  BY InvStays DEF Reading
<1>5. (Unhindered /\ Reading)' => IsReadTo(frames)' /\ IsWithin(frames, totalItems)'
  BY InvStays DEF Reading
<1>6. (Unhindered /\ ~ Reading)' => got' = IF TooMuch' THEN Denied ELSE NestedValues'[bounds'.maxDepth][root']
  BY PlacesStay, NestedStays DEF Reading
<1>7. ("call" \in failedCalls => ~ Reading /\ got = Denied)'
  BY DEF Reading
<1> QED
  BY <1>1, <1>2, <1>3, <1>4, <1>5, <1>6, <1>7 DEF ReadInv

LEMMA InvReads ==
    ASSUME ReadInv, Reading
    PROVE  /\ Ok /\ IsStack(frames) /\ seen = ArraysOf(frames) /\ totalItems \in Nat /\ puts \in Nat
           /\ Len(frames) \in Nat /\ Len(frames) > 0 /\ Len(frames) \in 1..Len(frames)
           /\ Top = frames[Len(frames)] /\ IsFrame(Top)
           /\ puts = 0 => IsOnWay(frames) /\ IsFit(frames)
           /\ Unhindered => IsReading(frames, totalItems) /\ puts = 0
           /\ "call" \notin failedCalls
<1>1. Ok /\ IsStack(frames) /\ seen = ArraysOf(frames) /\ totalItems \in Nat /\ puts \in Nat
  BY DEF ReadInv
<1>2. IsTuple(frames) /\ frames # <<>>
  BY <1>1 DEF IsStack, Reading
<1>3. Len(frames) \in Nat /\ Len(frames) > 0 /\ Last(frames) = frames[Len(frames)]
  BY <1>2, PopIs
<1>4. Len(frames) \in 1..Len(frames)
  BY <1>3
<1>5. IsFrame(frames[Len(frames)])
  BY <1>1, <1>4 DEF IsStack
<1>6. puts = 0 => IsOnWay(frames) /\ IsFit(frames)
  BY <1>1, <1>3 DEF ReadInv, IsOnWay
<1>7. Unhindered => IsReading(frames, totalItems) /\ puts = 0
  BY <1>1, <1>3, <1>6 DEF ReadInv, IsReading, IsOnWay, Unhindered
<1>8. "call" \notin failedCalls
  BY DEF ReadInv
<1> QED
  BY <1>1, <1>3, <1>4, <1>5, <1>6, <1>7, <1>8 DEF Top

-----------------------------------------------------------------------------

(* A read that throws keeps the invariant when it had a reason to.         *)
LEMMA AfterThrow ==
    ASSUME ReadInv, heap' = heap, root' = root, bounds' = bounds, puts' = puts, totalItems' \in Nat,
           Throw, Unhindered' => TooMuch
    PROVE  ReadInv'
<1>1. Ok
  BY DEF ReadInv
<1>2. IsStack(frames') /\ seen' = ArraysOf(frames')
  BY <1>1, EmptyIs DEF Throw
<1>3. frames' = <<>> /\ got' = Denied
  BY DEF Throw
<1> QED
  BY <1>2, <1>3, InvAfter

(* The steps: the size is asked for, an item is read, an array is left.    *)
LEMMA AfterAskSize == ReadInv /\ AskSize => ReadInv'
<1> SUFFICES ASSUME ReadInv, AskSize PROVE ReadInv'
  OBVIOUS
<1> DEFINE n == Len(frames)
           f == frames[n]
           size == Len(heap[f.array])
           x == [f EXCEPT !.size = size]
<1>1. /\ Ok /\ IsStack(frames) /\ seen = ArraysOf(frames) /\ totalItems \in Nat
      /\ n \in Nat /\ n > 0 /\ n \in 1..n /\ Top = f /\ IsFrame(f)
      /\ puts = 0 => IsOnWay(frames) /\ IsFit(frames)
      /\ Unhindered => IsReading(frames, totalItems)
      /\ "call" \notin failedCalls
  BY InvReads DEF AskSize
<1>2. /\ heap' = heap /\ root' = root /\ bounds' = bounds /\ puts' = puts /\ (Unhindered' <=> Unhindered)
      /\ failedCalls' = failedCalls /\ f.size = Unknown /\ totalItems' = totalItems + size
      /\ IF size > bounds.maxItems \/ totalItems' > bounds.maxTotalItems THEN Throw
         ELSE frames' = [frames EXCEPT ![n].size = size] /\ UNCHANGED <<seen, got>>
  BY <1>1 DEF AskSize, Unhindered
<1>3. size \in Nat /\ bounds.maxDepth \in Nat
  BY <1>1, BoundsAre, CellsAre DEF IsFrame
<1>4. IsFrame(x) /\ x.array = f.array /\ x.values = f.values /\ x.size = size
  <2> HIDE DEF size, f
  <2> QED
    BY <1>1, <1>3, FrameSized
<1>5. totalItems' \in Nat
  <2> HIDE DEF size
  <2> QED
    BY <1>1, <1>2, <1>3
<1> DEFINE t == [frames EXCEPT ![n] = x]
<1>6. /\ IsTuple(t) /\ Len(t) = n /\ t[n] = x
      /\ \A k \in 1..n - 1 : t[k] = frames[k]
  <2>1. IsTuple(frames)
    BY <1>1 DEF IsStack
  <2> HIDE DEF x
  <2>2. /\ IsTuple(t) /\ Len(t) = n /\ t[n] = x
        /\ \A k \in 1..n : k # n => t[k] = frames[k]
    BY <1>1, <2>1, ChangeIs
  <2> HIDE DEF t
  <2>3. \A k \in 1..n - 1 : k \in 1..n /\ k # n
    <3> HIDE DEF n
    <3> QED
      BY <1>1
  <2> QED
    BY <2>2, <2>3
<1>7. frames' = t \/ Throw
  BY <1>2
<1> HIDE DEF t
<1>8. /\ AsIn(frames, t, n - 1) /\ \A k \in 1..n : t[k].array = frames[k].array /\ IsFrame(t[k])
  <2>1. \A k \in 1..n : k = n \/ k \in 1..n - 1
    <3> HIDE DEF n
    <3> QED
      BY <1>1
  <2>2. AsIn(frames, t, n - 1)
    BY <1>6 DEF AsIn
  <2>3. \A k \in 1..n : IsFrame(frames[k])
    BY <1>1 DEF IsStack
  <2> HIDE DEF x
  <2>4. \A k \in 1..n : t[k].array = frames[k].array /\ IsFrame(t[k])
    BY <1>4, <1>6, <2>1, <2>3
  <2> QED
    BY <2>2, <2>4
<1>9. IsStack(t) /\ ArraysOf(t) = ArraysOf(frames)
  BY <1>1, <1>6, <1>8 DEF IsStack, ArraysOf
<1>10. ASSUME Unhindered
       PROVE  /\ IsWay(t) /\ IsReadTo(t)
              /\ IF size > bounds.maxItems \/ totalItems' > bounds.maxTotalItems THEN TooMuch ELSE IsWithin(t, totalItems')
  <2>1. IsReading(frames, totalItems)
    BY <1>1, <1>10
  <2>2. t[n].array = f.array /\ t[n].values = f.values /\ t[n].size = size
    BY <1>4, <1>6
  <2>3. /\ IsWay(t) /\ IsReadTo(t)
        /\ IF t[n].size > bounds.maxItems \/ totalItems + t[n].size > bounds.maxTotalItems THEN TooMuch
           ELSE IsWithin(t, totalItems + t[n].size)
    BY <1>2, <1>6, <1>8, <2>1, <2>2, AskedIsThere
  <2> HIDE DEF size
  <2> QED
    BY <1>2, <2>2, <2>3
<1>11. ASSUME puts = 0 PROVE IsWay(t) /\ IsFit(t)
  <2>1. IsOnWay(frames) /\ IsFit(frames)
    BY <1>1, <1>11
  <2>2. t[n].array = f.array /\ t[n].values = f.values /\ t[n].size = size
    BY <1>4, <1>6
  <2> QED
    BY <1>2, <1>6, <1>8, <2>1, <2>2, WayAsked
<1>12. CASE size > bounds.maxItems \/ totalItems' > bounds.maxTotalItems
  <2>1. Throw /\ (Unhindered' => TooMuch)
    BY <1>2, <1>10, <1>12
  <2> QED
    BY <1>2, <1>5, <2>1, AfterThrow
<1>13. CASE ~ (size > bounds.maxItems \/ totalItems' > bounds.maxTotalItems)
  <2>1. frames' = t /\ seen' = seen
    BY <1>2, <1>13 DEF t
  <2>2. Unhindered' => IsReadTo(t) /\ IsWithin(t, totalItems')
    BY <1>2, <1>10, <1>13
  <2>3. frames' # <<>>
    BY <1>1, <1>6, <2>1
  <2> QED
    BY <1>1, <1>2, <1>5, <1>9, <1>11, <2>1, <2>2, <2>3, InvAfter
<1> QED
  BY <1>12, <1>13

LEMMA AfterReadItem == ReadInv /\ ReadItem => ReadInv'
<1> SUFFICES ASSUME ReadInv, ReadItem PROVE ReadInv'
  OBVIOUS
<1> DEFINE n == Len(frames)
           f == frames[n]
           item == heap[f.array][Len(f.values) + 1]
<1>1. /\ Ok /\ IsStack(frames) /\ seen = ArraysOf(frames) /\ totalItems \in Nat
      /\ n \in Nat /\ n > 0 /\ n \in 1..n /\ Top = f /\ IsFrame(f) /\ IsTuple(frames)
      /\ puts = 0 => IsOnWay(frames) /\ IsFit(frames)
      /\ Unhindered => IsReading(frames, totalItems)
      /\ "call" \notin failedCalls
  BY InvReads DEF ReadItem, IsStack
<1>2. PICK fails \in BOOLEAN :
      /\ heap' = heap /\ root' = root /\ bounds' = bounds /\ puts' = puts /\ totalItems' = totalItems
      /\ f.size # Unknown /\ Len(f.values) < f.size
      /\ IF IsArrayOop(item, fails) THEN Enter(item)
         ELSE /\ frames' = [frames EXCEPT ![n].values = Append(@, item)]
              /\ UNCHANGED <<seen, got>>
      /\ failedCalls' = IF fails /\ IsArray(item) THEN failedCalls \cup {"lookup"} ELSE failedCalls
  BY <1>1 DEF ReadItem
(* The class of an array could not be had, or everything went well.        *)
<1>3. (Unhindered' => Unhindered /\ (IsArrayOop(item, fails) <=> IsArray(item))) /\ "call" \notin failedCalls'
  BY <1>1, <1>2 DEF Unhindered, IsArrayOop
<1>4. ReadOf(frames, n) = Len(f.values) /\ ReadOf(frames, n) < frames[n].size /\ bounds.maxDepth \in Nat
  BY <1>1, <1>2, BoundsAre DEF ReadOf
<1>5. CASE ~ IsArrayOop(item, fails)
  <2> DEFINE x == [f EXCEPT !.values = Append(@, item)]
             t == [frames EXCEPT ![n] = x]
  <2>1. frames' = t /\ seen' = seen
    BY <1>2, <1>5
  <2>2. IsFrame(x) /\ x.array = f.array /\ x.size = f.size /\ x.values = Append(f.values, item)
    <3> HIDE DEF item, f
    <3> QED
      BY <1>1, FrameGrows
  <2> HIDE DEF x
  <2>3. /\ IsTuple(t) /\ Len(t) = n /\ t[n] = x
        /\ \A k \in 1..n : k # n => t[k] = frames[k]
    BY <1>1, ChangeIs
  <2> HIDE DEF t
  <2>4. \A k \in 1..n : k = n \/ (k \in 1..n - 1 /\ k # n)
    <3> HIDE DEF n
    <3> QED
      BY <1>1
  <2>5. \A k \in 1..n - 1 : k \in 1..n /\ k # n
    <3> HIDE DEF n
    <3> QED
      BY <1>1
  <2>6. AsIn(frames, t, n - 1)
    BY <2>3, <2>5 DEF AsIn
  <2>7. \A k \in 1..n : t[k].array = frames[k].array /\ IsFrame(t[k])
    <3>1. \A k \in 1..n : IsFrame(frames[k])
      BY <1>1 DEF IsStack
    <3> QED
      BY <2>2, <2>3, <2>4, <3>1
  <2>8. IsStack(t) /\ ArraysOf(t) = ArraysOf(frames)
    BY <1>1, <2>3, <2>7 DEF IsStack, ArraysOf
  <2>9. t[n].array = f.array /\ t[n].size = f.size /\ t[n].values = Append(f.values, item)
    BY <2>2, <2>3
  <2>10. ASSUME puts = 0 PROVE IsWay(t) /\ IsFit(t)
    <3>1. IsOnWay(frames) /\ IsFit(frames)
      BY <1>1, <2>10
    <3> QED
      BY <1>2, <1>4, <2>3, <2>6, <2>9, <3>1, WayReads
  <2>11. ASSUME Unhindered' PROVE IsReadTo(t) /\ IsWithin(t, totalItems)
    <3>1. IsReading(frames, totalItems) /\ ~ IsArray(item)
      BY <1>1, <1>5, <1>3, <2>11
    <3> QED
      BY <1>2, <1>4, <2>3, <2>6, <2>9, <3>1, ItemIsThere
  <2>12. frames' # <<>>
    BY <1>1, <2>1, <2>3
  <2> QED
    BY <1>1, <1>2, <1>3, <2>1, <2>8, <2>12, <2>10, <2>11, InvAfter
<1>6. CASE IsArrayOop(item, fails)
  <2>1. Enter(item)
    BY <1>2, <1>6
  <2>2. item \in Arrays
    BY <1>6 DEF IsArrayOop, IsArray
  <2>3. CASE n + 1 > bounds.maxDepth \/ item \in seen
    <3>1. Throw
      BY <2>1, <2>3 DEF Enter
    <3>2. ASSUME Unhindered' PROVE TooMuch
      <4>1. IsReading(frames, totalItems) /\ IsArray(item)
        BY <1>1, <1>6, <1>3, <3>2
      <4>2. CASE n + 1 > bounds.maxDepth
        BY <1>2, <1>4, <4>1, <4>2, TooDeepIsTooMuch
      <4>3. CASE item \in seen
        BY <1>1, <1>2, <1>4, <4>1, <4>3, InsideIsTooMuch
      <4> QED
        BY <2>3, <4>2, <4>3
    <3>3. totalItems' \in Nat
      BY <1>1, <1>2
    <3> QED
      BY <1>2, <3>1, <3>2, <3>3, AfterThrow
  <2>4. CASE ~ (n + 1 > bounds.maxDepth \/ item \in seen)
    <3> DEFINE t == Append(frames, Call(item))
    <3>1. frames' = t /\ seen' = seen \cup {item}
      BY <2>1, <2>4 DEF Enter
    <3>2. IsFrame(Call(item)) /\ Call(item).array = item
      BY <2>2, CallIs
    <3> DEFINE c == Call(item)
    <3> HIDE DEF c
    <3>3. IsTuple(t) /\ Len(t) = n + 1 /\ t[n + 1] = Call(item) /\ \A k \in 1..n : t[k] = frames[k]
      <4>1. t = Append(frames, c) /\ c = Call(item)
        BY DEF c
      <4>2. /\ IsTuple(Append(frames, c)) /\ Len(Append(frames, c)) = n + 1
            /\ \A k \in 1..n : Append(frames, c)[k] = frames[k]
            /\ Append(frames, c)[n + 1] = c
        BY <1>1, PushIs
      <4> HIDE DEF t
      <4> QED
        BY <4>1, <4>2
    <3> HIDE DEF t
    <3>4. AsIn(frames, t, n)
      BY <3>3 DEF AsIn
    <3>5. \A k \in 1..n + 1 : k = n + 1 \/ k \in 1..n
      <4> HIDE DEF n
      <4> QED
        BY <1>1
    <3>6. /\ \A k \in 1..n : k \in 1..n + 1
          /\ n + 1 \in 1..n + 1 /\ n + 1 <= bounds.maxDepth
      <4> HIDE DEF n
      <4> QED
        BY <1>1, <1>4, <2>4
    <3>7. ArraysOf(t) = seen'
      <4>1. ArraysOf(t) \subseteq seen'
        BY <1>1, <3>1, <3>2, <3>3, <3>5 DEF ArraysOf
      <4>2. seen' \subseteq ArraysOf(t)
        BY <1>1, <3>1, <3>2, <3>3, <3>6 DEF ArraysOf
      <4> QED
        BY <4>1, <4>2
    <3>8. \A k \in 1..n : frames[k].array # item
      BY <1>1, <2>4 DEF ArraysOf
    <3>9. \A k \in 1..n + 1 : IsFrame(t[k])
      <4>1. \A k \in 1..n : IsFrame(frames[k])
        BY <1>1 DEF IsStack
      <4> QED
        BY <3>2, <3>3, <3>5, <4>1
    <3>10. \A i, j \in 1..n + 1 : i # j => t[i].array # t[j].array
      <4> SUFFICES ASSUME NEW i \in 1..n + 1, NEW j \in 1..n + 1, i # j PROVE t[i].array # t[j].array
        OBVIOUS
      <4>1. CASE i \in 1..n /\ j \in 1..n
        BY <1>1, <3>3, <4>1 DEF IsStack
      <4>2. CASE i = n + 1 /\ j \in 1..n
        BY <3>2, <3>3, <3>8, <4>2
      <4>3. CASE j = n + 1 /\ i \in 1..n
        BY <3>2, <3>3, <3>8, <4>3
      <4> QED
        BY <3>5, <4>1, <4>2, <4>3
    <3>11. IsStack(t)
      BY <3>3, <3>6, <3>9, <3>10 DEF IsStack
    <3>12. t[n + 1] = Call(heap[frames[n].array][ReadOf(frames, n) + 1])
      BY <1>4, <3>3
    <3>13. ASSUME puts = 0 PROVE IsWay(t) /\ IsFit(t)
      <4>1. IsOnWay(frames) /\ IsFit(frames)
        BY <1>1, <3>13
      <4> QED
        BY <1>2, <1>4, <3>3, <3>4, <3>12, <4>1, WayEnters
    <3>14. ASSUME Unhindered' PROVE IsReadTo(t) /\ IsWithin(t, totalItems)
      <4>1. IsReading(frames, totalItems)
        BY <1>1, <1>3, <3>14
      <4> QED
        BY <1>2, <1>4, <3>3, <3>4, <3>12, <4>1, ArrayIsThere
    <3>15. frames' # <<>>
      <4>1. Len(t) > 0
        BY <1>1, <3>3
      <4> QED
        BY <3>1, <4>1
    <3> QED
      BY <1>1, <1>2, <1>3, <3>1, <3>7, <3>11, <3>15, <3>13, <3>14, InvAfter
  <2> QED
    BY <2>3, <2>4
<1> QED
  BY <1>5, <1>6

(* A call that fails, and the reading with it.                             *)
LEMMA AfterReadThrows == ReadInv /\ ReadThrows => ReadInv'
<1> SUFFICES ASSUME ReadInv, ReadThrows PROVE ReadInv'
  OBVIOUS
<1>1. totalItems' \in Nat /\ ~ Unhindered'
  BY DEF ReadInv, ReadThrows, Unhindered
<1> QED
  BY <1>1, AfterThrow DEF ReadThrows

LEMMA AfterLeave == ReadInv /\ Leave => ReadInv'
<1> SUFFICES ASSUME ReadInv, Leave PROVE ReadInv'
  OBVIOUS
<1> DEFINE n == Len(frames)
           f == frames[n]
<1>1. /\ Ok /\ IsStack(frames) /\ seen = ArraysOf(frames) /\ totalItems \in Nat
      /\ n \in Nat /\ n > 0 /\ n \in 1..n /\ Top = f /\ IsFrame(f) /\ IsTuple(frames)
      /\ puts = 0 => IsOnWay(frames) /\ IsFit(frames)
      /\ Unhindered => IsReading(frames, totalItems)
      /\ "call" \notin failedCalls
  BY InvReads DEF Leave, IsStack
<1>2. /\ heap' = heap /\ root' = root /\ bounds' = bounds /\ puts' = puts /\ totalItems' = totalItems
      /\ f.size # Unknown /\ Len(f.values) = f.size /\ seen' = seen \ {f.array} /\ Return
      /\ totalItems' \in Nat /\ failedCalls' = failedCalls /\ (Unhindered' <=> Unhindered)
  BY <1>1 DEF Leave, Unhindered
<1>3. ReadOf(frames, n) = f.size
  BY <1>2 DEF ReadOf
<1>4. CASE n = 1
  <2>1. frames' = <<>> /\ got' = f.values
    BY <1>1, <1>2, <1>4 DEF Return
  <2>2. seen' = ArraysOf(frames')
    <3>1. ArraysOf(frames) = {f.array}
      BY <1>4 DEF ArraysOf
    <3> QED
      BY <1>1, <1>2, <2>1, <3>1, EmptyIs
  <2>3. ASSUME Unhindered PROVE ~ TooMuch /\ f.values = NestedValues[bounds.maxDepth][root]
    <3>1. IsReading(frames, totalItems)
      BY <1>1, <2>3
    <3> QED
      BY <1>2, <1>3, <1>4, <3>1, LastIsThere
  <2>4. puts = 0 => IsWhole(f.values)
    BY <1>1, <1>2, <1>3, <1>4, WayFits
  <2> QED
    BY <1>1, <1>2, <2>1, <2>2, <2>3, <2>4, EmptyIs, InvAfter
<1>5. CASE n # 1
  <2> DEFINE m == n - 1
             g == frames[m]
             x == [g EXCEPT !.values = Append(@, f.values)]
             r == Front(frames)
             t == [r EXCEPT ![m] = x]
  <2>1. frames' = t
    <3>1. frames' = [Front(frames) EXCEPT ![n - 1].values = Append(@, Top.values)]
      BY <1>2, <1>5 DEF Return
    <3>2. frames' = [r EXCEPT ![m] = [r[m] EXCEPT !.values = Append(@, f.values)]]
      BY <1>1, <3>1
    <3>3. r[m] = g
      <4>1. frames # <<>> /\ m \in 1..n - 1
        <5>1. Len(<<>>) = 0
          OBVIOUS
        <5>2. frames # <<>>
          BY <1>1, <5>1
        <5> HIDE DEF n
        <5> QED
          BY <1>1, <1>5, <5>2
      <4> HIDE DEF m
      <4> QED
        BY <1>1, <4>1, PopIs
    <3> HIDE DEF r, f, g
    <3> QED
      BY <3>2, <3>3
  <2>2. n > 1 /\ m \in 1..n /\ m \in 1..m /\ m \in Nat /\ m - 1 = n - 2 /\ m + 1 = n
    <3> HIDE DEF n
    <3> QED
      BY <1>1, <1>5
  <2>3. IsFrame(g)
    <3> HIDE DEF m
    <3> QED
      BY <1>1, <2>2 DEF IsStack
  <2>4. IsFrame(x) /\ x.array = g.array /\ x.size = g.size /\ x.values = Append(g.values, f.values)
    <3> HIDE DEF g, f
    <3> QED
      BY <2>3, FrameGrows
  <2> HIDE DEF x
  <2>5. IsTuple(r) /\ Len(r) = m /\ \A k \in 1..m : r[k] = frames[k]
    <3>1. frames # <<>>
      BY <1>1
    <3> QED
      BY <1>1, <3>1, PopIs
  <2> HIDE DEF r
  <2>6. IsTuple(t) /\ Len(t) = m /\ t[m] = x /\ \A k \in 1..m : k # m => t[k] = r[k]
    <3>1. m \in 1..Len(r)
      BY <2>2, <2>5
    <3> HIDE DEF m
    <3>2. IsTuple(t) /\ Len(t) = Len(r) /\ t[m] = x /\ \A k \in 1..Len(r) : k # m => t[k] = r[k]
      <4>1. IsTuple(r)
        BY <2>5
      <4>2. /\ IsTuple([r EXCEPT ![m] = x]) /\ Len([r EXCEPT ![m] = x]) = Len(r)
            /\ \A k \in 1..Len(r) : k # m => [r EXCEPT ![m] = x][k] = r[k]
            /\ [r EXCEPT ![m] = x][m] = x
        BY <3>1, <4>1, ChangeIs
      <4> QED
        BY <4>2
    <3> QED
      BY <2>5, <3>2
  <2> HIDE DEF t
  <2>7. /\ \A k \in 1..m : k \in 1..n /\ k # n /\ (k = m \/ (k \in 1..m - 1 /\ k # m))
        /\ \A k \in 1..m - 1 : k \in 1..m /\ k # m
        /\ \A k \in 1..n : k = n \/ k \in 1..m
    <3> HIDE DEF n
    <3> QED
      BY <1>1, <2>2
  <2>8. \A k \in 1..m - 1 : t[k] = frames[k]
    <3> HIDE DEF m
    <3> QED
      BY <2>5, <2>6, <2>7
  <2>9. AsIn(frames, t, n - 2)
    <3>1. AsIn(frames, t, m - 1)
      <4> HIDE DEF m
      <4> QED
        BY <2>8 DEF AsIn
    <3> QED
      BY <2>2, <3>1
  <2>10. \A k \in 1..m : t[k].array = frames[k].array /\ IsFrame(t[k]) /\ k \in 1..n
    <3>1. \A k \in 1..n : IsFrame(frames[k])
      BY <1>1 DEF IsStack
    <3>2. g = frames[m]
      OBVIOUS
    <3> HIDE DEF m, g, n
    <3> QED
      BY <2>4, <2>6, <2>7, <2>8, <3>1, <3>2
  <2>11. IsStack(t)
    <3>1. m <= bounds.maxDepth
      <4>1. n <= bounds.maxDepth /\ bounds.maxDepth \in Nat
        BY <1>1, BoundsAre DEF IsStack
      <4> HIDE DEF n
      <4> QED
        BY <1>1, <4>1
    <3>2. \A i, j \in 1..n : i # j => frames[i].array # frames[j].array
      BY <1>1 DEF IsStack
    <3> HIDE DEF m, n
    <3> QED
      BY <2>6, <2>10, <3>1, <3>2 DEF IsStack
  <2>12. seen' = ArraysOf(t)
    <3>1. \A k \in 1..m : frames[k].array # f.array
      BY <1>1, <2>7 DEF IsStack
    <3>2. seen = {frames[k].array : k \in 1..n}
      BY <1>1 DEF ArraysOf
    <3>3. ArraysOf(t) = {t[k].array : k \in 1..m}
      BY <2>6 DEF ArraysOf
    <3> HIDE DEF m, n
    <3>4. seen' \subseteq ArraysOf(t)
      BY <1>2, <2>7, <2>10, <3>2, <3>3
    <3>5. ArraysOf(t) \subseteq seen'
      BY <1>2, <2>10, <3>1, <3>2, <3>3
    <3> QED
      BY <3>4, <3>5
  <2>13. /\ frames[n].size # Unknown /\ ReadOf(frames, n) = frames[n].size /\ n > 1 /\ Len(t) = n - 1
         /\ t[n - 1].array = frames[n - 1].array /\ t[n - 1].size = frames[n - 1].size
         /\ t[n - 1].values = Append(frames[n - 1].values, frames[n].values)
    <3>1. frames[n].size # Unknown /\ ReadOf(frames, n) = frames[n].size
      BY <1>2, <1>3
    <3>2. n > 1 /\ Len(t) = n - 1
      BY <2>2, <2>6, Zenon
    <3>3. t[m].array = g.array /\ t[m].size = g.size /\ t[m].values = Append(g.values, f.values)
      BY <2>4, <2>6
    <3> QED
      BY <3>1, <3>3, <3>2
  <2>14. ASSUME puts = 0 PROVE IsWay(t) /\ IsFit(t)
    <3>1. IsOnWay(frames) /\ IsFit(frames)
      BY <1>1, <2>14
    <3> QED
      BY <2>9, <2>13, <3>1, WayLeaves
  <2>15. ASSUME Unhindered PROVE IsReadTo(t) /\ IsWithin(t, totalItems)
    <3>1. IsReading(frames, totalItems)
      BY <1>1, <2>15
    <3> QED
      BY <2>9, <2>13, <3>1, InnerIsThere
  <2>16. frames' # <<>>
    <3>1. Len(t) > 0
      <4> HIDE DEF n
      <4> QED
        BY <2>2, <2>6
    <3> QED
      BY <2>1, <3>1
  <2> QED
    BY <1>1, <1>2, <2>1, <2>11, <2>12, <2>16, <2>14, <2>15, InvAfter
<1> QED
  BY <1>4, <1>5

(* Once another flow has put an item, only the calls are left to speak of. *)
LEMMA AfterPut == ReadInv /\ ArrayAtPut => ReadInv'
<1> SUFFICES ASSUME ReadInv, ArrayAtPut PROVE ReadInv'
  OBVIOUS
<1>1. Ok /\ totalItems \in Nat /\ puts \in Nat /\ IsStack(frames) /\ seen = ArraysOf(frames)
  BY DEF ReadInv
<1>2. /\ root' = root /\ bounds' = bounds /\ frames' = frames /\ seen' = seen /\ totalItems' = totalItems
      /\ puts' = puts + 1
  BY DEF ArrayAtPut
<1>3. PICK array \in Arrays : \E index \in DOMAIN heap[array], item \in Arrays \cup Scalars :
           heap' = [heap EXCEPT ![array][index] = item]
  BY DEF ArrayAtPut
<1>4. PICK index \in DOMAIN heap[array], item \in Arrays \cup Scalars :
        heap' = [heap EXCEPT ![array][index] = item]
  BY <1>3
<1>5. HeapOk'
  <2>1. heap \in [Arrays -> Seq(Arrays \cup Scalars)]
    BY <1>1 DEF Ok, HeapOk
  <2> DEFINE X == Arrays \cup Scalars
             q == [heap[array] EXCEPT ![index] = item]
  <2>2. heap[array] \in Seq(X) /\ item \in X
    BY <2>1
  <2> HIDE DEF X
  <2>3. q \in Seq(X)
    BY <2>2
  <2>4. heap' = [heap EXCEPT ![array] = q]
    BY <1>4
  <2> HIDE DEF q
  <2>5. heap' \in [Arrays -> Seq(X)]
    BY <2>1, <2>3, <2>4 DEF X
  <2> QED
    BY <2>5 DEF X, HeapOk
<1>6. Ok'
  BY <1>1, <1>2, <1>5 DEF Ok
<1>7. IsStack(frames)' /\ seen' = ArraysOf(frames)'
  BY <1>1, <1>2 DEF IsStack, ArraysOf
<1>8. puts' \in Nat /\ puts' # 0 /\ totalItems' \in Nat /\ ~ Unhindered'
  BY <1>1, <1>2 DEF Unhindered
<1>9. "call" \notin failedCalls'
  BY InvReads DEF ArrayAtPut
<1> QED
  BY <1>6, <1>7, <1>8, <1>9 DEF ReadInv

(* A read begins with one call, of the root.                               *)
LEMMA ReadStarts == ReadInit => ReadInv
<1> SUFFICES ASSUME ReadInit PROVE ReadInv
  OBVIOUS
<1> DEFINE c == Call(root)
           s == <<c>>
<1>1. Ok /\ frames = s /\ seen = {root} /\ totalItems = 0 /\ puts = 0 /\ failedCalls = {}
  BY ReadAssumption DEF ReadInit, Ok, HeapOk
<1>2. /\ HeapOk /\ root \in Arrays /\ bounds.maxDepth \in Nat /\ bounds.maxDepth > 0
      /\ bounds.maxItems \in Nat /\ bounds.maxTotalItems \in Nat
  BY <1>1, BoundsAre
<1>3. IsFrame(c) /\ c.array = root /\ c.size = Unknown /\ c.values = <<>>
  BY <1>2, CallIs
<1> HIDE DEF c
<1>4. s \in Seq({c}) /\ Len(s) = 1 /\ s[1] = c
  OBVIOUS
<1> HIDE DEF s
<1>5. IsTuple(s)
  BY <1>4, Zenon DEF IsTuple
<1>6. IsStack(s) /\ ArraysOf(s) = {root}
  BY <1>2, <1>3, <1>4, <1>5 DEF IsStack, ArraysOf
<1>7. ReadOf(s, 1) = 0
  BY <1>3, <1>4 DEF ReadOf
<1>8. IsWay(s) /\ IsFit(s) /\ IsReadTo(s)
  BY <1>3, <1>4, <1>7 DEF IsWay, IsAtTop, IsFit, IsReadTo
<1>9. Counted(s) = {}
  BY <1>3, <1>4 DEF Counted, IsCounted
<1>10. Passed(s) = {}
  <2> SUFFICES ASSUME NEW p \in Places, IsPassed(s, p, 1) PROVE FALSE
    BY <1>4 DEF Passed
  <2>1. p[1].index <= 0 /\ Follows(s, p, 1)
    BY <1>7 DEF IsPassed
  <2>2. p[1].index \in 1..Len(heap[s[1].array])
    <3>1. 1 \in 1..Len(s)
      BY <1>4
    <3> QED
      BY <1>1, <1>6, <1>8, <2>1, <3>1, FollowsIs
  <2> QED
    BY <2>1, <2>2
<1>11. IsWithin(s, 0)
  BY <1>2, <1>9, <1>10, FS_EmptySet DEF IsWithin
<1>12. frames # <<>>
  <2>1. Len(<<>>) = 0
    OBVIOUS
  <2> QED
    BY <1>1, <1>4, <2>1
<1> QED
  BY <1>1, <1>6, <1>8, <1>11, <1>12 DEF ReadInv, Reading

LEMMA ReadingKeeps == ReadInv /\ [ReadNext]_readVars => ReadInv'
<1> SUFFICES ASSUME ReadInv, [ReadNext]_readVars PROVE ReadInv'
  OBVIOUS
<1>1. CASE AskSize
  BY <1>1, AfterAskSize
<1>2. CASE ReadItem
  BY <1>2, AfterReadItem
<1>3. CASE Leave
  BY <1>3, AfterLeave
<1>4. CASE ArrayAtPut
  BY <1>4, AfterPut
<1>5. CASE ReadThrows
  BY <1>5, AfterReadThrows
<1>6. CASE UNCHANGED readVars
  <2>1. /\ heap' = heap /\ root' = root /\ bounds' = bounds /\ frames' = frames /\ seen' = seen
        /\ totalItems' = totalItems /\ got' = got /\ puts' = puts /\ failedCalls' = failedCalls
    BY <1>6 DEF readVars
  <2>2. totalItems' \in Nat /\ IsStack(frames') /\ seen' = ArraysOf(frames')
    BY <2>1 DEF ReadInv
  <2>3. /\ puts = 0 /\ frames' # <<>> => IsWay(frames') /\ IsFit(frames')
        /\ puts = 0 /\ frames' = <<>> /\ got' # Denied => IsWhole(got')
        /\ "call" \in failedCalls' => frames' = <<>> /\ got' = Denied
    BY <2>1 DEF ReadInv, Reading
  <2>4. Unhindered' <=> Unhindered
    BY <2>1 DEF Unhindered
  <2>5. Unhindered' /\ frames' # <<>> => IsReadTo(frames') /\ IsWithin(frames', totalItems')
    BY <2>1, <2>4 DEF ReadInv, Reading
  <2>6. Unhindered' /\ frames' = <<>> => got' = IF TooMuch THEN Denied ELSE NestedValues[bounds.maxDepth][root]
    BY <2>1, <2>4 DEF ReadInv, Reading
  <2> QED
    BY <2>1, <2>2, <2>3, <2>5, <2>6, InvAfter
<1> QED
  BY <1>1, <1>2, <1>3, <1>4, <1>5, <1>6 DEF ReadNext, ReadStep

(* What is read back is what is there; when a class could not be had, what *)
(* stands for it; and nothing when another call failed.                    *)
THEOREM ArraysAreReadBack == ReadSpec => []ReadsBackWhatIsThere
<1>1. ReadInv => ReadsBackWhatIsThere
  <2> SUFFICES ASSUME ReadInv PROVE ReadsBackWhatIsThere
    OBVIOUS
  <2>1. IsStack(frames)
    BY DEF ReadInv
  <2>2. DOMAIN frames = 1..Len(frames)
    BY <2>1 DEF IsStack, IsTuple
  <2>3. /\ \A i, j \in DOMAIN frames : i # j => frames[i].array # frames[j].array
        /\ Len(frames) <= bounds.maxDepth
    BY <2>1, <2>2 DEF IsStack
  <2>4. ASSUME puts = 0, Reading PROVE \A k \in DOMAIN frames : HoldsFor(frames[k].values, frames[k].array)
    <3>1. IsOnWay(frames) /\ IsFit(frames)
      BY <2>4, InvReads
    <3> QED
      BY <2>2, <3>1, WayFits
  <2>5. ~ Reading => DOMAIN frames = {}
    BY DEF Reading
  <2> QED
    BY <2>3, <2>4, <2>5 DEF ReadInv, ReadsBackWhatIsThere, IsWhole
<1> QED
  BY <1>1, ReadStarts, ReadingKeeps, PTL DEF ReadSpec

-----------------------------------------------------------------------------
(* Queries of one call                                                     *)

ChosenSteps(L, X, base, seq, fit) ==
  /\ L \in [0..Len(seq) -> X]
  /\ L[0] = base
  /\ \A k \in 1..Len(seq) : L[k] = ChooseIf(L[k - 1], seq[k], fit)
  /\ FoldLeft(LAMBDA found, each : ChooseIf(found, each, fit), base, seq) = L[Len(seq)]

(* What search folds over the elements: those it has chosen.               *)
LEMMA ChosenFold ==
    ASSUME NEW X, NEW E, NEW fit, \A x \in X, e \in E : ChooseIf(x, e, fit) \in X, NEW base \in X, NEW seq \in Seq(E)
    PROVE  \E L : ChosenSteps(L, X, base, seq, fit)
<1> DEFINE n == Len(seq)
           G == [p \in X \X (1..n) |-> ChooseIf(p[1], seq[p[2]], fit)]
           Is(h) == h = [T \in SUBSET (DOMAIN seq) |->
                                   IF T = {} THEN base ELSE LET x == Max(T) IN ChooseIf(h[T \ {x}], seq[x], fit)]
           iter == CHOOSE h : Is(h)
<1>1. n \in Nat /\ DOMAIN seq = 1..n /\ \A k \in 1..n : seq[k] \in E
  OBVIOUS
<1>2. G \in [X \X (1..n) -> X]
  BY <1>1
<1> HIDE DEF n
<1>3. PICK h \in [SUBSET (1..n) -> X] :
        \A T \in SUBSET (1..n) : h[T] = IF T = {} THEN base ELSE G[<<h[T \ {Max(T)}], Max(T)>>]
  <2> HIDE DEF G
  <2>1. PICK h : FoldsOver(h, n, X, base, G)
    BY <1>1, <1>2, FoldDefined, Zenon
  <2> QED
    BY <2>1 DEF FoldsOver
<1>4. ASSUME NEW T \in SUBSET (1..n), T # {} PROVE G[<<h[T \ {Max(T)}], Max(T)>>] = ChooseIf(h[T \ {Max(T)}], seq[Max(T)], fit)
  <2>1. Max(T) \in 1..n
    BY <1>1, <1>4, MaxOf
  <2>2. h[T \ {Max(T)}] \in X
    BY <1>3
  <2> QED
    BY <2>1, <2>2
<1>5. Is(h)
  <2> HIDE DEF G
  <2> QED
    BY <1>1, <1>3, <1>4
<1>6. Is(iter)
  <2> HIDE DEF Is
  <2> QED
    BY <1>5, Zenon
<1>7. FoldLeft(LAMBDA found, each : ChooseIf(found, each, fit), base, seq) = iter[DOMAIN seq]
  BY Zenon DEF FoldLeft, MapThenFoldSet
<1> HIDE DEF iter
<1>8. ASSUME NEW T \in SUBSET (1..n) PROVE iter[T] = IF T = {} THEN base ELSE ChooseIf(iter[T \ {Max(T)}], seq[Max(T)], fit)
  BY <1>1, <1>6
<1> HIDE DEF Is, G
<1> DEFINE L == [k \in 0..n |-> iter[1..k]]
<1>9. L[0] = base
  <2>1. 1..0 = {} /\ 0 \in 0..n
    BY <1>1
  <2> QED
    BY <1>8, <2>1
<1>10. ASSUME NEW k \in 1..n PROVE L[k] = ChooseIf(L[k - 1], seq[k], fit)
  <2>1. 1..k # {} /\ 1..k \in SUBSET (1..n) /\ Max(1..k) = k /\ (1..k) \ {k} = 1..k - 1
    BY <1>1, FoldSteps
  <2>2. L[k] = iter[1..k] /\ L[k - 1] = iter[1..k - 1]
    BY <1>1
  <2>3. iter[1..k] = ChooseIf(iter[(1..k) \ {Max(1..k)}], seq[Max(1..k)], fit)
    BY <1>8, <2>1
  <2> QED
    BY <2>1, <2>2, <2>3
<1>11. L[n] = iter[DOMAIN seq]
  BY <1>1
<1> DEFINE P == {k \in Nat : k <= n => L[k] \in X}
<1> HIDE DEF L
<1>12. 0 \in P
  BY <1>9
<1>13. ASSUME NEW k \in Nat, k \in P PROVE k + 1 \in P
  <2>1. SUFFICES ASSUME k + 1 <= n PROVE L[k + 1] \in X
    OBVIOUS
  <2>2. L[k] \in X
    BY <1>1, <2>1, <1>13
  <2>3. k + 1 \in 1..n /\ (k + 1) - 1 = k
    BY <1>1, <2>1
  <2>4. L[k + 1] = ChooseIf(L[k], seq[k + 1], fit)
    BY <1>10, <2>3
  <2> QED
    BY <2>2, <2>3, <2>4, <1>1
<1>14. Nat \subseteq P
  <2> HIDE DEF P
  <2> QED
    BY <1>12, <1>13, NatSet
<1>15. L \in [0..n -> X]
  <2>1. \A k \in 0..n : L[k] \in X
    BY <1>1, <1>14
  <2>2. L = [k \in 0..n |-> L[k]]
    BY DEF L
  <2> QED
    BY <2>1, <2>2
<1> QED
  BY <1>15, <1>9, <1>10, <1>7, <1>11 DEF n, ChosenSteps

CountedSteps(L, X, base, seq, fit) ==
  /\ L \in [0..Len(seq) -> X]
  /\ L[0] = base
  /\ \A k \in 1..Len(seq) : L[k] = CountIf(L[k - 1], seq[k], fit)
  /\ FoldLeft(LAMBDA count, each : CountIf(count, each, fit), base, seq) = L[Len(seq)]

(* What count folds over the elements.                                     *)
LEMMA CountedFold ==
    ASSUME NEW X, NEW E, NEW fit, \A x \in X, e \in E : CountIf(x, e, fit) \in X, NEW base \in X, NEW seq \in Seq(E)
    PROVE  \E L : CountedSteps(L, X, base, seq, fit)
<1> DEFINE n == Len(seq)
           G == [p \in X \X (1..n) |-> CountIf(p[1], seq[p[2]], fit)]
           Is(h) == h = [T \in SUBSET (DOMAIN seq) |->
                                   IF T = {} THEN base ELSE LET x == Max(T) IN CountIf(h[T \ {x}], seq[x], fit)]
           iter == CHOOSE h : Is(h)
<1>1. n \in Nat /\ DOMAIN seq = 1..n /\ \A k \in 1..n : seq[k] \in E
  OBVIOUS
<1>2. G \in [X \X (1..n) -> X]
  BY <1>1
<1> HIDE DEF n
<1>3. PICK h \in [SUBSET (1..n) -> X] :
        \A T \in SUBSET (1..n) : h[T] = IF T = {} THEN base ELSE G[<<h[T \ {Max(T)}], Max(T)>>]
  <2> HIDE DEF G
  <2>1. PICK h : FoldsOver(h, n, X, base, G)
    BY <1>1, <1>2, FoldDefined, Zenon
  <2> QED
    BY <2>1 DEF FoldsOver
<1>4. ASSUME NEW T \in SUBSET (1..n), T # {} PROVE G[<<h[T \ {Max(T)}], Max(T)>>] = CountIf(h[T \ {Max(T)}], seq[Max(T)], fit)
  <2>1. Max(T) \in 1..n
    BY <1>1, <1>4, MaxOf
  <2>2. h[T \ {Max(T)}] \in X
    BY <1>3
  <2> QED
    BY <2>1, <2>2
<1>5. Is(h)
  <2> HIDE DEF G
  <2> QED
    BY <1>1, <1>3, <1>4
<1>6. Is(iter)
  <2> HIDE DEF Is
  <2> QED
    BY <1>5, Zenon
<1>7. FoldLeft(LAMBDA count, each : CountIf(count, each, fit), base, seq) = iter[DOMAIN seq]
  BY Zenon DEF FoldLeft, MapThenFoldSet
<1> HIDE DEF iter
<1>8. ASSUME NEW T \in SUBSET (1..n) PROVE iter[T] = IF T = {} THEN base ELSE CountIf(iter[T \ {Max(T)}], seq[Max(T)], fit)
  BY <1>1, <1>6
<1> HIDE DEF Is, G
<1> DEFINE L == [k \in 0..n |-> iter[1..k]]
<1>9. L[0] = base
  <2>1. 1..0 = {} /\ 0 \in 0..n
    BY <1>1
  <2> QED
    BY <1>8, <2>1
<1>10. ASSUME NEW k \in 1..n PROVE L[k] = CountIf(L[k - 1], seq[k], fit)
  <2>1. 1..k # {} /\ 1..k \in SUBSET (1..n) /\ Max(1..k) = k /\ (1..k) \ {k} = 1..k - 1
    BY <1>1, FoldSteps
  <2>2. L[k] = iter[1..k] /\ L[k - 1] = iter[1..k - 1]
    BY <1>1
  <2>3. iter[1..k] = CountIf(iter[(1..k) \ {Max(1..k)}], seq[Max(1..k)], fit)
    BY <1>8, <2>1
  <2> QED
    BY <2>1, <2>2, <2>3
<1>11. L[n] = iter[DOMAIN seq]
  BY <1>1
<1> DEFINE P == {k \in Nat : k <= n => L[k] \in X}
<1> HIDE DEF L
<1>12. 0 \in P
  BY <1>9
<1>13. ASSUME NEW k \in Nat, k \in P PROVE k + 1 \in P
  <2>1. SUFFICES ASSUME k + 1 <= n PROVE L[k + 1] \in X
    OBVIOUS
  <2>2. L[k] \in X
    BY <1>1, <2>1, <1>13
  <2>3. k + 1 \in 1..n /\ (k + 1) - 1 = k
    BY <1>1, <2>1
  <2>4. L[k + 1] = CountIf(L[k], seq[k + 1], fit)
    BY <1>10, <2>3
  <2> QED
    BY <2>2, <2>3, <2>4, <1>1
<1>14. Nat \subseteq P
  <2> HIDE DEF P
  <2> QED
    BY <1>12, <1>13, NatSet
<1>15. L \in [0..n -> X]
  <2>1. \A k \in 0..n : L[k] \in X
    BY <1>1, <1>14
  <2>2. L = [k \in 0..n |-> L[k]]
    BY DEF L
  <2> QED
    BY <2>1, <2>2
<1> QED
  BY <1>15, <1>9, <1>10, <1>7, <1>11 DEF n, CountedSteps

TakenSteps(L, X, base, seq, fit, count) ==
  /\ L \in [0..Len(seq) -> X]
  /\ L[0] = base
  /\ \A k \in 1..Len(seq) : L[k] = TakeIf(L[k - 1], seq[k], fit, count)
  /\ FoldLeft(LAMBDA found, each : TakeIf(found, each, fit, count), base, seq) = L[Len(seq)]

(* What limit folds over the elements: those chosen until they are enough. *)
LEMMA TakenFold ==
    ASSUME NEW X, NEW E, NEW fit, NEW count, \A x \in X, e \in E : TakeIf(x, e, fit, count) \in X, NEW base \in X, NEW seq \in Seq(E)
    PROVE  \E L : TakenSteps(L, X, base, seq, fit, count)
<1> DEFINE n == Len(seq)
           G == [p \in X \X (1..n) |-> TakeIf(p[1], seq[p[2]], fit, count)]
           Is(h) == h = [T \in SUBSET (DOMAIN seq) |->
                                   IF T = {} THEN base ELSE LET x == Max(T) IN TakeIf(h[T \ {x}], seq[x], fit, count)]
           iter == CHOOSE h : Is(h)
<1>1. n \in Nat /\ DOMAIN seq = 1..n /\ \A k \in 1..n : seq[k] \in E
  OBVIOUS
<1>2. G \in [X \X (1..n) -> X]
  BY <1>1
<1> HIDE DEF n
<1>3. PICK h \in [SUBSET (1..n) -> X] :
        \A T \in SUBSET (1..n) : h[T] = IF T = {} THEN base ELSE G[<<h[T \ {Max(T)}], Max(T)>>]
  <2> HIDE DEF G
  <2>1. PICK h : FoldsOver(h, n, X, base, G)
    BY <1>1, <1>2, FoldDefined, Zenon
  <2> QED
    BY <2>1 DEF FoldsOver
<1>4. ASSUME NEW T \in SUBSET (1..n), T # {} PROVE G[<<h[T \ {Max(T)}], Max(T)>>] = TakeIf(h[T \ {Max(T)}], seq[Max(T)], fit, count)
  <2>1. Max(T) \in 1..n
    BY <1>1, <1>4, MaxOf
  <2>2. h[T \ {Max(T)}] \in X
    BY <1>3
  <2> QED
    BY <2>1, <2>2
<1>5. Is(h)
  <2> HIDE DEF G
  <2> QED
    BY <1>1, <1>3, <1>4
<1>6. Is(iter)
  <2> HIDE DEF Is
  <2> QED
    BY <1>5, Zenon
<1>7. FoldLeft(LAMBDA found, each : TakeIf(found, each, fit, count), base, seq) = iter[DOMAIN seq]
  BY Zenon DEF FoldLeft, MapThenFoldSet
<1> HIDE DEF iter
<1>8. ASSUME NEW T \in SUBSET (1..n) PROVE iter[T] = IF T = {} THEN base ELSE TakeIf(iter[T \ {Max(T)}], seq[Max(T)], fit, count)
  BY <1>1, <1>6
<1> HIDE DEF Is, G
<1> DEFINE L == [k \in 0..n |-> iter[1..k]]
<1>9. L[0] = base
  <2>1. 1..0 = {} /\ 0 \in 0..n
    BY <1>1
  <2> QED
    BY <1>8, <2>1
<1>10. ASSUME NEW k \in 1..n PROVE L[k] = TakeIf(L[k - 1], seq[k], fit, count)
  <2>1. 1..k # {} /\ 1..k \in SUBSET (1..n) /\ Max(1..k) = k /\ (1..k) \ {k} = 1..k - 1
    BY <1>1, FoldSteps
  <2>2. L[k] = iter[1..k] /\ L[k - 1] = iter[1..k - 1]
    BY <1>1
  <2>3. iter[1..k] = TakeIf(iter[(1..k) \ {Max(1..k)}], seq[Max(1..k)], fit, count)
    BY <1>8, <2>1
  <2> QED
    BY <2>1, <2>2, <2>3
<1>11. L[n] = iter[DOMAIN seq]
  BY <1>1
<1> DEFINE P == {k \in Nat : k <= n => L[k] \in X}
<1> HIDE DEF L
<1>12. 0 \in P
  BY <1>9
<1>13. ASSUME NEW k \in Nat, k \in P PROVE k + 1 \in P
  <2>1. SUFFICES ASSUME k + 1 <= n PROVE L[k + 1] \in X
    OBVIOUS
  <2>2. L[k] \in X
    BY <1>1, <2>1, <1>13
  <2>3. k + 1 \in 1..n /\ (k + 1) - 1 = k
    BY <1>1, <2>1
  <2>4. L[k + 1] = TakeIf(L[k], seq[k + 1], fit, count)
    BY <1>10, <2>3
  <2> QED
    BY <2>2, <2>3, <2>4, <1>1
<1>14. Nat \subseteq P
  <2> HIDE DEF P
  <2> QED
    BY <1>12, <1>13, NatSet
<1>15. L \in [0..n -> X]
  <2>1. \A k \in 0..n : L[k] \in X
    BY <1>1, <1>14
  <2>2. L = [k \in 0..n |-> L[k]]
    BY DEF L
  <2> QED
    BY <2>1, <2>2
<1> QED
  BY <1>15, <1>9, <1>10, <1>7, <1>11 DEF n, TakenSteps

PagesSteps(L, X, base, seq, s, size) ==
  /\ L \in [0..Len(seq) -> X]
  /\ L[0] = base
  /\ \A k \in 1..Len(seq) : L[k] = WithPage(L[k - 1], s, seq[k], size)
  /\ FoldLeft(LAMBDA pages, k : WithPage(pages, s, k, size), base, seq) = L[Len(seq)]

(* What is folded over the numbers of the pages.                           *)
LEMMA PagesFold ==
    ASSUME NEW X, NEW E, NEW s, NEW size, \A x \in X, e \in E : WithPage(x, s, e, size) \in X, NEW base \in X, NEW seq \in Seq(E)
    PROVE  \E L : PagesSteps(L, X, base, seq, s, size)
<1> DEFINE n == Len(seq)
           G == [p \in X \X (1..n) |-> WithPage(p[1], s, seq[p[2]], size)]
           Is(h) == h = [T \in SUBSET (DOMAIN seq) |->
                                   IF T = {} THEN base ELSE LET x == Max(T) IN WithPage(h[T \ {x}], s, seq[x], size)]
           iter == CHOOSE h : Is(h)
<1>1. n \in Nat /\ DOMAIN seq = 1..n /\ \A k \in 1..n : seq[k] \in E
  OBVIOUS
<1>2. G \in [X \X (1..n) -> X]
  BY <1>1
<1> HIDE DEF n
<1>3. PICK h \in [SUBSET (1..n) -> X] :
        \A T \in SUBSET (1..n) : h[T] = IF T = {} THEN base ELSE G[<<h[T \ {Max(T)}], Max(T)>>]
  <2> HIDE DEF G
  <2>1. PICK h : FoldsOver(h, n, X, base, G)
    BY <1>1, <1>2, FoldDefined, Zenon
  <2> QED
    BY <2>1 DEF FoldsOver
<1>4. ASSUME NEW T \in SUBSET (1..n), T # {} PROVE G[<<h[T \ {Max(T)}], Max(T)>>] = WithPage(h[T \ {Max(T)}], s, seq[Max(T)], size)
  <2>1. Max(T) \in 1..n
    BY <1>1, <1>4, MaxOf
  <2>2. h[T \ {Max(T)}] \in X
    BY <1>3
  <2> QED
    BY <2>1, <2>2
<1>5. Is(h)
  <2> HIDE DEF G
  <2> QED
    BY <1>1, <1>3, <1>4
<1>6. Is(iter)
  <2> HIDE DEF Is
  <2> QED
    BY <1>5, Zenon
<1>7. FoldLeft(LAMBDA pages, k : WithPage(pages, s, k, size), base, seq) = iter[DOMAIN seq]
  BY Zenon DEF FoldLeft, MapThenFoldSet
<1> HIDE DEF iter
<1>8. ASSUME NEW T \in SUBSET (1..n) PROVE iter[T] = IF T = {} THEN base ELSE WithPage(iter[T \ {Max(T)}], s, seq[Max(T)], size)
  BY <1>1, <1>6
<1> HIDE DEF Is, G
<1> DEFINE L == [k \in 0..n |-> iter[1..k]]
<1>9. L[0] = base
  <2>1. 1..0 = {} /\ 0 \in 0..n
    BY <1>1
  <2> QED
    BY <1>8, <2>1
<1>10. ASSUME NEW k \in 1..n PROVE L[k] = WithPage(L[k - 1], s, seq[k], size)
  <2>1. 1..k # {} /\ 1..k \in SUBSET (1..n) /\ Max(1..k) = k /\ (1..k) \ {k} = 1..k - 1
    BY <1>1, FoldSteps
  <2>2. L[k] = iter[1..k] /\ L[k - 1] = iter[1..k - 1]
    BY <1>1
  <2>3. iter[1..k] = WithPage(iter[(1..k) \ {Max(1..k)}], s, seq[Max(1..k)], size)
    BY <1>8, <2>1
  <2> QED
    BY <2>1, <2>2, <2>3
<1>11. L[n] = iter[DOMAIN seq]
  BY <1>1
<1> DEFINE P == {k \in Nat : k <= n => L[k] \in X}
<1> HIDE DEF L
<1>12. 0 \in P
  BY <1>9
<1>13. ASSUME NEW k \in Nat, k \in P PROVE k + 1 \in P
  <2>1. SUFFICES ASSUME k + 1 <= n PROVE L[k + 1] \in X
    OBVIOUS
  <2>2. L[k] \in X
    BY <1>1, <2>1, <1>13
  <2>3. k + 1 \in 1..n /\ (k + 1) - 1 = k
    BY <1>1, <2>1
  <2>4. L[k + 1] = WithPage(L[k], s, seq[k + 1], size)
    BY <1>10, <2>3
  <2> QED
    BY <2>2, <2>3, <2>4, <1>1
<1>14. Nat \subseteq P
  <2> HIDE DEF P
  <2> QED
    BY <1>12, <1>13, NatSet
<1>15. L \in [0..n -> X]
  <2>1. \A k \in 0..n : L[k] \in X
    BY <1>1, <1>14
  <2>2. L = [k \in 0..n |-> L[k]]
    BY DEF L
  <2> QED
    BY <2>1, <2>2
<1> QED
  BY <1>15, <1>9, <1>10, <1>7, <1>11 DEF n, PagesSteps

(* What the loops have after k elements: what is found, how many, and the  *)
(* first ones of it.                                                       *)
FirstFits(s, fit, k, found) ==
  IF \E j \in 1..k : s[j] \in fit
  THEN Len(found) >= 1 /\ \E i \in 1..k : s[i] \in fit /\ found[1] = s[i] /\ \A j \in 1..i - 1 : s[j] \notin fit
  ELSE found = <<>>

(* search, count and limit are one loop: what one has, the others have of  *)
(* it.                                                                     *)
LEMMA LoopsAgree ==
    ASSUME NEW X, NEW s \in Seq(X), NEW fit, NEW count \in Nat
    PROVE  /\ Search(s, fit) \in Seq(X)
           /\ Count(s, fit) = Len(Search(s, fit))
           /\ Limit(s, fit, count) = Oldest(Search(s, fit), count)
           /\ FirstFits(s, fit, Len(s), Search(s, fit))
<1> DEFINE n == Len(s)
<1>0. n \in Nat /\ <<>> \in Seq(X) /\ Len(<<>>) = 0 /\ \A k \in 1..n : s[k] \in X
  OBVIOUS
<1>1. PICK F : ChosenSteps(F, Seq(X), <<>>, s, fit)
  <2>1. \A x \in Seq(X), e \in X : ChooseIf(x, e, fit) \in Seq(X)
    BY DEF ChooseIf
  <2> QED
    BY <1>0, <2>1, ChosenFold, Zenon
<1>2. PICK C : CountedSteps(C, Nat, 0, s, fit)
  <2>1. 0 \in Nat /\ \A x \in Nat, e \in X : CountIf(x, e, fit) \in Nat
    BY DEF CountIf
  <2> QED
    BY <1>0, <2>1, CountedFold, Zenon
<1>3. PICK T : TakenSteps(T, Seq(X), <<>>, s, fit, count)
  <2>1. \A x \in Seq(X), e \in X : TakeIf(x, e, fit, count) \in Seq(X)
    BY DEF ChooseIf, TakeIf
  <2> QED
    BY <1>0, <2>1, TakenFold, Zenon
<1>4. /\ F \in [0..n -> Seq(X)] /\ F[0] = <<>> /\ F[n] = Search(s, fit)
      /\ \A k \in 1..n : F[k] = ChooseIf(F[k - 1], s[k], fit)
  BY <1>1, Zenon DEF ChosenSteps, Search
<1>5. /\ C \in [0..n -> Nat] /\ C[0] = 0 /\ C[n] = Count(s, fit)
      /\ \A k \in 1..n : C[k] = CountIf(C[k - 1], s[k], fit)
  BY <1>2, Zenon DEF CountedSteps, Count
<1>6. /\ T \in [0..n -> Seq(X)] /\ T[0] = <<>> /\ T[n] = Limit(s, fit, count)
      /\ \A k \in 1..n : T[k] = TakeIf(T[k - 1], s[k], fit, count)
  BY <1>3, Zenon DEF TakenSteps, Limit
<1> DEFINE Agree(k) == C[k] = Len(F[k]) /\ T[k] = Oldest(F[k], count) /\ FirstFits(s, fit, k, F[k])
           P == {k \in Nat : k <= n => Agree(k)}
<1> HIDE DEF n
<1>7. 0 \in P
  <2>1. Oldest(<<>>, count) = <<>>
    BY <1>0 DEF Oldest
  <2>2. FirstFits(s, fit, 0, <<>>)
    BY DEF FirstFits
  <2> QED
    BY <1>0, <1>4, <1>5, <1>6, <2>1, <2>2
<1>8. ASSUME NEW k \in Nat, k \in P PROVE k + 1 \in P
  <2>1. SUFFICES ASSUME k + 1 <= n PROVE Agree(k + 1)
    OBVIOUS
  <2> DEFINE e == s[k + 1]
             found == F[k]
  <2>2. k + 1 \in 1..n /\ (k + 1) - 1 = k /\ k \in 0..n /\ e \in X
    BY <1>0, <2>1
  <2>3. Agree(k) /\ found \in Seq(X)
    BY <1>8, <2>1, <2>2, <1>4, <1>0
  <2>4. /\ F[k + 1] = ChooseIf(found, e, fit) /\ C[k + 1] = CountIf(C[k], e, fit)
        /\ T[k + 1] = TakeIf(T[k], e, fit, count)
    BY <2>2, <1>4, <1>5, <1>6
  <2> HIDE DEF found, e
  <2>5. C[k] = Len(found) /\ T[k] = Oldest(found, count) /\ FirstFits(s, fit, k, found)
    BY <2>3 DEF found
  <2>6. CASE e \notin fit
    <3>1. F[k + 1] = found /\ C[k + 1] = C[k] /\ T[k + 1] = T[k]
      BY <2>4, <2>6 DEF ChooseIf, CountIf, TakeIf
    <3>2. FirstFits(s, fit, k + 1, found)
      <4>1. \A j \in 1..k + 1 : s[j] \in fit => j \in 1..k
        BY <2>6 DEF e
      <4>2. 1..k \subseteq 1..k + 1
        OBVIOUS
      <4> QED
        BY <4>1, <4>2, <2>5 DEF FirstFits
    <3> QED
      BY <3>1, <3>2, <2>5
  <2>7. CASE e \in fit
    <3> DEFINE more == Append(found, e)
    <3>1. F[k + 1] = more /\ C[k + 1] = C[k] + 1 /\ T[k + 1] = IF Len(T[k]) < count THEN Append(T[k], e) ELSE T[k]
      BY <2>4, <2>7 DEF ChooseIf, CountIf, TakeIf
    <3>2. /\ Len(more) = Len(found) + 1 /\ Len(found) \in Nat
          /\ \A i \in 1..Len(found) : more[i] = found[i]
          /\ more[Len(found) + 1] = e
      BY <2>2, <2>3 DEF found, e
    <3>3. /\ Oldest(found, count) \in Seq(X)
          /\ Oldest(more, count) = IF Len(Oldest(found, count)) >= count THEN Oldest(found, count)
                                   ELSE Append(Oldest(found, count), e)
      <4>1. found \in Seq(X) /\ e \in X
        BY <2>2, <2>3 DEF found, e
      <4> QED
        BY <4>1, OldestGrows
    <3> HIDE DEF more
    <3>4. T[k + 1] = Oldest(more, count)
      <4>1. Len(Oldest(found, count)) \in Nat
        BY <3>3
      <4>2. Len(Oldest(found, count)) < count <=> ~(Len(Oldest(found, count)) >= count)
        BY <4>1
      <4> QED
        BY <3>1, <3>3, <2>5, <4>2
    <3>5. FirstFits(s, fit, k + 1, more)
      <4>1. \E j \in 1..k + 1 : s[j] \in fit
        BY <2>7, <2>2 DEF e
      <4>2. Len(more) >= 1
        BY <3>2
      <4>3. \E i \in 1..k + 1 : s[i] \in fit /\ more[1] = s[i] /\ \A j \in 1..i - 1 : s[j] \notin fit
        <5>1. CASE \E j \in 1..k : s[j] \in fit
          <6>1. Len(found) >= 1 /\ \E i \in 1..k : s[i] \in fit /\ found[1] = s[i] /\ \A j \in 1..i - 1 : s[j] \notin fit
            BY <5>1, <2>5 DEF FirstFits
          <6>2. more[1] = found[1] /\ 1..k \subseteq 1..k + 1
            BY <6>1, <3>2
          <6> QED
            BY <6>1, <6>2
        <5>2. CASE ~\E j \in 1..k : s[j] \in fit
          <6>1. found = <<>>
            BY <5>2, <2>5 DEF FirstFits
          <6>2. more[1] = e
            BY <6>1, <1>0, <3>2
          <6>3. k + 1 \in 1..k + 1 /\ (k + 1) - 1 = k
            OBVIOUS
          <6> QED
            BY <5>2, <6>2, <6>3, <2>7 DEF e
        <5> QED
          BY <5>1, <5>2
      <4> QED
        BY <4>1, <4>2, <4>3 DEF FirstFits
    <3> QED
      BY <3>1, <3>2, <3>4, <3>5, <2>5
  <2> QED
    BY <2>6, <2>7
<1>9. Nat \subseteq P
  <2> HIDE DEF P
  <2> QED
    BY <1>7, <1>8, NatSet
<1>10. Agree(n)
  BY <1>0, <1>9
<1> QED
  BY <1>0, <1>4, <1>5, <1>6, <1>10 DEF n

(* The pages of a size, one after the other, are the whole.                *)
(* A page has what is behind the pages before it.                          *)
LEMMA PageFollows ==
    ASSUME NEW X, NEW s \in Seq(X), NEW size \in Nat \ {0}, NEW done \in Nat,
           NEW pages \in Seq(X), pages = Oldest(s, done)
    PROVE  pages \o Page(s, done + 1, size) = Oldest(s, done + size)
<1> DEFINE items == ChunkFrom(s, done + 1, size)
           next  == Oldest(s, done + size)
           end   == IF done + size < Len(s) THEN done + size ELSE Len(s)
<1>1. Len(s) \in Nat /\ size \in Nat /\ size >= 1
  OBVIOUS
<1>2. CASE Len(s) <= done
  <2>1. Len(s) < done + 1 /\ Len(s) <= done + size
    BY <1>1, <1>2
  <2>2. Page(s, done + 1, size) = <<>> /\ pages = s /\ Oldest(s, done + size) = s
    BY <2>1, <1>2 DEF Page, Oldest
  <2> QED
    BY <2>2
<1>3. CASE Len(s) > done
  <2>1. Page(s, done + 1, size) = items
    BY <1>1, <1>3 DEF Page
  <2>2. /\ items \in Seq(X)
        /\ Len(items) = IF done + 1 > Len(s) THEN 0
                        ELSE IF (done + 1) + size - 1 < Len(s) THEN size ELSE Len(s) - (done + 1) + 1
        /\ \A i \in 1..Len(items) : items[i] = s[(done + 1) + i - 1]
    <3>1. done + 1 \in Positive /\ size \in Positive
      BY DEF Positive
    <3> QED
      BY <3>1, ChunkIs
  <2> HIDE DEF items
  <2>3. Len(items) = end - done /\ end \in Nat /\ end > done /\ end <= Len(s)
    BY <1>1, <1>3, <2>2
  <2>4. pages = SubSeq(s, 1, done) /\ Len(pages) = done /\ \A i \in 1..done : pages[i] = s[i]
    <3>1. pages = SubSeq(s, 1, done)
      BY <1>1, <1>3 DEF Oldest
    <3> QED
      BY <3>1, <1>1, <1>3
  <2>5. next \in Seq(X) /\ Len(next) = end /\ \A i \in 1..end : next[i] = s[i]
    <3>1. CASE Len(s) <= done + size
      BY <1>1, <3>1 DEF Oldest
    <3>2. CASE ~(Len(s) <= done + size)
      <4>1. next = SubSeq(s, 1, done + size) /\ end = done + size
        BY <1>1, <3>2 DEF Oldest
      <4> HIDE DEF next, end
      <4>2. SubSeq(s, 1, end) \in Seq(X) /\ Len(SubSeq(s, 1, end)) = end /\ \A i \in 1..end : SubSeq(s, 1, end)[i] = s[i]
        BY <1>1, <2>3
      <4> QED
        BY <4>1, <4>2
    <3> QED
      BY <3>1, <3>2
  <2> DEFINE both == pages \o items
  <2>6. /\ both \in Seq(X) /\ Len(both) = done + Len(items)
        /\ \A i \in 1..done : both[i] = pages[i]
        /\ \A i \in 1..Len(items) : both[done + i] = items[i]
    <3>1. pages \in Seq(X) /\ items \in Seq(X)
      BY <2>2
    <3>2. /\ both \in Seq(X) /\ Len(both) = Len(pages) + Len(items)
          /\ \A i \in 1..Len(pages) : both[i] = pages[i]
          /\ \A i \in 1..Len(items) : both[Len(pages) + i] = items[i]
      BY <3>1, ConcatIs
    <3> QED
      BY <3>2, <2>4, Zenon
  <2> HIDE DEF both, next, end
  <2>7. Len(both) = end
    BY <2>3, <2>6
  <2>8. ASSUME NEW i \in 1..end PROVE both[i] = next[i]
    <3>1. CASE i <= done
      BY <3>1, <2>4, <2>5, <2>6
    <3>2. CASE i > done
      <4>1. i - done \in 1..Len(items) /\ done + (i - done) = i /\ (done + 1) + (i - done) - 1 = i
        BY <3>2, <2>3
      <4> QED
        <5>1. both[done + (i - done)] = items[i - done] /\ items[i - done] = s[(done + 1) + (i - done) - 1]
          BY <4>1, <2>2, <2>6
        <5>2. both[i] = s[i]
          BY <4>1, <5>1
        <5> QED
          BY <5>2, <2>5
    <3> QED
      BY <3>1, <3>2, <2>3
  <2>9. both = next
    BY <2>5, <2>6, <2>7, <2>8, <2>3
  <2> QED
    BY <2>1, <2>9 DEF both, next
<1> QED
  BY <1>1, <1>2, <1>3

(* The pages of any size are, one after the other, the collection.         *)
LEMMA PagesAreAll ==
    ASSUME NEW X, NEW s \in Seq(X), NEW size \in Nat \ {0}
    PROVE  Pages(s, size) = s
<1> DEFINE n    == Len(s) + 1
           seq  == [k \in 1..n |-> k]
<1>0. n \in Nat /\ Len(s) \in Nat /\ <<>> \in Seq(X) /\ size \in Nat /\ size >= 1
  OBVIOUS
<1>1. seq \in Seq(1..n) /\ Len(seq) = n /\ \A k \in 1..n : seq[k] = k
  <2> HIDE DEF n
  <2> QED
    BY <1>0
<1>2. ASSUME NEW k \in 1..n PROVE (k - 1) * size + 1 \in Positive
  <2>1. (k - 1) * size \in Nat
    <3>1. k - 1 \in Nat
      BY <1>0
    <3> HIDE DEF n
    <3> DEFINE m == k - 1
    <3> HIDE DEF m
    <3>2. m \in Nat => m * size \in Nat
      BY <1>0
    <3> QED
      BY <3>1, <3>2 DEF m
  <2> QED
    BY <2>1 DEF Positive
<1>3. ASSUME NEW x \in Seq(X), NEW k \in 1..n PROVE WithPage(x, s, k, size) \in Seq(X)
  <2>1. size \in Positive
    BY <1>0 DEF Positive
  <2>2. ChunkFrom(s, (k - 1) * size + 1, size) \in Seq(X)
    BY <1>2, <2>1, ChunkIs, Zenon
  <2>3. Page(s, (k - 1) * size + 1, size) \in Seq(X)
    BY <2>2, <1>0, Zenon DEF Page
  <2> DEFINE page == Page(s, (k - 1) * size + 1, size)
  <2> HIDE DEF page
  <2>4. page \in Seq(X) => x \o page \in Seq(X)
    OBVIOUS
  <2> QED
    BY <2>3, <2>4, Zenon DEF WithPage, page
<1>4. PICK L : PagesSteps(L, Seq(X), <<>>, seq, s, size)
  <2> HIDE DEF seq, n
  <2> QED
    BY <1>0, <1>1, <1>3, PagesFold, Zenon
<1>5. /\ L \in [0..n -> Seq(X)] /\ L[0] = <<>> /\ L[n] = Pages(s, size)
      /\ \A k \in 1..n : L[k] = WithPage(L[k - 1], s, k, size)
  <2>1. /\ L \in [0..Len(seq) -> Seq(X)] /\ L[0] = <<>> /\ L[Len(seq)] = Pages(s, size)
        /\ \A k \in 1..Len(seq) : L[k] = WithPage(L[k - 1], s, seq[k], size)
    BY <1>4, Zenon DEF PagesSteps, Pages
  <2> HIDE DEF seq, n
  <2> QED
    BY <2>1, <1>1
<1> DEFINE P == {k \in Nat : k <= n => L[k] = Oldest(s, k * size)}
<1> HIDE DEF seq, n
<1>6. 0 \in P
  <2>1. 0 * size = 0 /\ Oldest(s, 0) = <<>>
    <3>1. Len(s) <= 0 => s = <<>>
      BY <1>0
    <3>2. SubSeq(s, 1, 0) = <<>>
      OBVIOUS
    <3> QED
      BY <3>1, <3>2, <1>0 DEF Oldest
  <2> QED
    BY <2>1, <1>5
<1>7. ASSUME NEW k \in Nat, k \in P PROVE k + 1 \in P
  <2>1. SUFFICES ASSUME k + 1 <= n PROVE L[k + 1] = Oldest(s, (k + 1) * size)
    OBVIOUS
  <2>2. k + 1 \in 1..n /\ (k + 1) - 1 = k /\ k \in 0..n
    BY <1>0, <2>1
  <2>3. L[k] \in Seq(X) /\ L[k] = Oldest(s, k * size)
    BY <1>0, <1>5, <1>7, <2>1, <2>2
  <2>4. L[k + 1] = L[k] \o Page(s, k * size + 1, size)
    BY <1>5, <2>2 DEF WithPage
  <2>5. k * size \in Nat /\ (k + 1) * size = k * size + size
    BY <1>0
  <2>6. L[k] \o Page(s, k * size + 1, size) = Oldest(s, k * size + size)
    BY <2>3, <2>5, PageFollows
  <2> QED
    BY <2>4, <2>5, <2>6
<1>8. Nat \subseteq P
  <2> HIDE DEF P
  <2> QED
    BY <1>6, <1>7, NatSet
<1>9. L[n] = Oldest(s, n * size)
  BY <1>0, <1>8
<1>10. n * size \in Nat /\ n * size >= Len(s)
  <2>1. n * size >= n * 1
    BY <1>0
  <2> QED
    BY <2>1, <1>0 DEF n
<1> QED
  BY <1>5, <1>9, <1>10 DEF Oldest

(* The ways to ask a collection for the same agree, for any elements, any  *)
(* predicate and any number: GSCollection's search, limit, count, exists,  *)
(* first, page and the ends.                                               *)
THEOREM QueriesOfOneCallAgree ==
    ASSUME NEW X, NEW s \in Seq(X), NEW fit, NEW n \in Int
    PROVE  QueriesAgree(s, fit, n)
<1> DEFINE found == Search(s, fit)
<1>0. 0 \in Nat /\ Len(s) \in Nat /\ DOMAIN s = 1..Len(s)
  OBVIOUS
<1>1. found \in Seq(X) /\ Count(s, fit) = Len(found) /\ FirstFits(s, fit, Len(s), found)
  BY <1>0, LoopsAgree
<1> HIDE DEF found
<1>2. ASSUME ~QueryRefused("limit", n)
      PROVE  Limit(s, fit, n) = SubSeq(found, 1, IF n < Len(found) THEN n ELSE Len(found))
  <2>1. n \in Nat
    BY <1>2 DEF QueryRefused
  <2>2. Limit(s, fit, n) = Oldest(found, n)
    BY <2>1, LoopsAgree DEF found
  <2>3. SubSeq(found, 1, Len(found)) = found /\ Len(found) \in Nat
    BY <1>1
  <2> QED
    BY <2>1, <2>2, <2>3 DEF Oldest
<1>3. FirstOf(s, fit) = FirstItem(found)
  <2>1. CASE ~\E i \in DOMAIN s : s[i] \in fit
    BY <2>1, <1>0, <1>1 DEF FirstOf, FirstItem, FirstFits
  <2>2. CASE \E i \in DOMAIN s : s[i] \in fit
    <3> DEFINE IsFirst(i) == i \in DOMAIN s /\ s[i] \in fit /\ \A j \in 1..(i - 1) : s[j] \notin fit
               first == CHOOSE i \in DOMAIN s : s[i] \in fit /\ \A j \in 1..(i - 1) : s[j] \notin fit
    <3>1. Len(found) >= 1 /\ \E i \in 1..Len(s) : s[i] \in fit /\ found[1] = s[i] /\ \A j \in 1..i - 1 : s[j] \notin fit
      BY <2>2, <1>0, <1>1 DEF FirstFits
    <3>2. PICK i \in 1..Len(s) : s[i] \in fit /\ found[1] = s[i] /\ \A j \in 1..i - 1 : s[j] \notin fit
      BY <3>1
    <3>3. IsFirst(first)
      BY <3>2, <1>0
    <3> HIDE DEF first
    <3>4. first = i
      <4>1. first \in 1..Len(s) /\ s[first] \in fit /\ \A j \in 1..(first - 1) : s[j] \notin fit
        BY <3>3, <1>0
      <4>2. ~(i < first)
        <5>1. i < first => i \in 1..(first - 1)
          BY <4>1, <1>0
        <5> QED
          BY <5>1, <4>1, <3>2
      <4>3. ~(first < i)
        <5>1. first < i => first \in 1..i - 1
          BY <4>1, <1>0
        <5> QED
          BY <5>1, <4>1, <3>2
      <4> QED
        BY <4>1, <4>2, <4>3, <1>0
    <3>5. FirstOf(s, fit) = s[first]
      BY <2>2, Zenon DEF FirstOf, first
    <3>6. found # <<>>
      <4>1. Len(<<>>) = 0
        OBVIOUS
      <4> QED
        BY <3>1, <4>1
    <3> QED
      BY <3>2, <3>4, <3>5, <3>6 DEF FirstItem
  <2> QED
    BY <2>1, <2>2
<1>4. AnyMatch(s, fit) <=> found # <<>> /\ found[1] # NilItem
  BY <1>3, Zenon DEF AnyMatch, FirstItem
<1>5. ASSUME ~QueryRefused("page", n)
      PROVE  Pages(s, n) = s
  <2>1. n \in Nat \ {0}
    BY <1>5 DEF QueryRefused
  <2> QED
    BY <2>1, PagesAreAll
<1>6. FirstItem(s) = ItemAt(s, 1) /\ (s # <<>> => LastItem(s) = ItemAt(s, Len(s)))
  BY <1>0 DEF FirstItem, LastItem, ItemAt
<1> QED
  BY <1>1, <1>2, <1>3, <1>4, <1>5, <1>6, Zenon DEF QueriesAgree, found

-----------------------------------------------------------------------------
(* What the doctor tells                                                   *)

LibraryName == [library : BOOLEAN, rank : Int]

(* What an environment and the directories are: a variable that counts as  *)
(* set is not empty, a path is of names, and a directory has finitely many. *)
IsEnvironment(env) ==
  /\ "GS_LIB" \in DOMAIN env => env["GS_LIB"] \in Seq(LibraryName) /\ env["GS_LIB"] # <<>>
  /\ "GS_LIB_PATH" \in DOMAIN env => env["GS_LIB_PATH"] # NoLibrary
  /\ "GEMSTONE" \in DOMAIN env => env["GEMSTONE"] \in Seq(LibraryName)
AreDirectories(dirs) ==
  \A dir \in DOMAIN dirs : IsFiniteSet(dirs[dir]) /\ dirs[dir] \subseteq LibraryName

(* Two values are two.                                                     *)
LEMMA TwoAreTwo ==
  ASSUME NEW x, NEW y, x # y
  PROVE  Cardinality({x, y}) = 2
<1>1. {x, y} = {x} \cup {y} /\ y \notin {x}
  OBVIOUS
<1>2. IsFiniteSet({x}) /\ Cardinality({x}) = 1
  BY FS_Singleton
<1>3. Cardinality({x} \cup {y}) = 1 + 1
  BY <1>1, <1>2, FS_AddElement
<1>. QED BY <1>1, <1>3

(* The first name that is set.                                             *)
LEMMA EnvValueIs ==
  ASSUME NEW env, NEW x, NEW y, NEW otherwise
  PROVE  EnvValue(env, <<x, y>>, otherwise) =
           IF x \in DOMAIN env THEN env[x] ELSE IF y \in DOMAIN env THEN env[y] ELSE otherwise
<1>. DEFINE isSet == {i \in DOMAIN <<x, y>> : <<x, y>>[i] \in DOMAIN env}
<1>1. DOMAIN <<x, y>> = {1, 2} /\ <<x, y>>[1] = x /\ <<x, y>>[2] = y
  OBVIOUS
<1>2. isSet = {i \in {1, 2} : (i = 1 /\ x \in DOMAIN env) \/ (i = 2 /\ y \in DOMAIN env)}
  BY <1>1
<1>3. EnvValue(env, <<x, y>>, otherwise) = IF isSet = {} THEN otherwise ELSE env[<<x, y>>[Min(isSet)]]
  BY DEF EnvValue
<1>. HIDE DEF isSet
<1>4. CASE x \in DOMAIN env
  <2>1. 1 \in isSet /\ \A j \in isSet : 1 <= j /\ j \in {1, 2}
    BY <1>2, <1>4
  <2>2. Min(isSet) = 1
    <3>1. Min(isSet) \in isSet /\ \A j \in isSet : Min(isSet) <= j
      BY <2>1 DEF Min
    <3>. QED BY <3>1, <2>1
  <2>. QED BY <1>1, <1>3, <1>4, <2>1, <2>2
<1>5. CASE x \notin DOMAIN env /\ y \in DOMAIN env
  <2>1. isSet = {2}
    BY <1>2, <1>5
  <2>2. Min(isSet) = 2
    BY <2>1 DEF Min
  <2>. QED BY <1>1, <1>3, <1>5, <2>1, <2>2
<1>6. CASE x \notin DOMAIN env /\ y \notin DOMAIN env
  BY <1>2, <1>3, <1>6
<1>. QED BY <1>4, <1>5, <1>6

(* A field has a canonical name and an alias.                              *)
LEMMA TwoNames ==
  ASSUME NEW f \in DOMAIN Aliases
  PROVE  \E x, y : Aliases[f] = <<x, y>> /\ x # y
<1>1. f \in {"stone", "netldi", "host", "username", "password", "gemService"}
  BY DEF Aliases
<1>2. /\ Aliases["stone"] = <<"GS_STONE", "GS_STONE_NAME">> /\ Aliases["netldi"] = <<"GS_NETLDI", "GS_NETLDI_NAME_OR_PORT">>
      /\ Aliases["host"] = <<"GS_HOST", "GS_NETLDI_HOST">> /\ Aliases["username"] = <<"GS_USERNAME", "GS_USER">>
      /\ Aliases["password"] = <<"GS_PASSWORD", "GS_PASS">> /\ Aliases["gemService"] = <<"GS_GEM_SERVICE", "GS_SERVICE">>
  BY DEF Aliases
<1>3. CASE f = "stone"
  BY <1>2, <1>3
<1>4. CASE f = "netldi"
  BY <1>2, <1>4
<1>5. CASE f = "host"
  BY <1>2, <1>5
<1>6. CASE f = "username"
  BY <1>2, <1>6
<1>7. CASE f = "password"
  BY <1>2, <1>7
<1>8. CASE f = "gemService"
  BY <1>2, <1>8
<1>. QED BY <1>1, <1>3, <1>4, <1>5, <1>6, <1>7, <1>8

(* What a field is told to be, and when two variables disagree about it.   *)
LEMMA FieldIsTold ==
  ASSUME NEW env, NEW f \in DOMAIN Aliases
  PROVE  LET said == {env[n] : n \in Range(Aliases[f]) \cap DOMAIN env} IN
           /\ ConfigFrom(env)[f] \in said \/ (said = {} /\ ConfigFrom(env)[f] = Default(f))
           /\ f \in Conflicts(env) <=> Cardinality(said) = 2
           /\ f \in Conflicts(env) => ConfigFrom(env)[f] = env[Aliases[f][1]]
<1>. DEFINE said == {env[n] : n \in Range(Aliases[f]) \cap DOMAIN env}
<1>1. PICK x, y : Aliases[f] = <<x, y>> /\ x # y
  BY TwoNames
<1>2. Range(Aliases[f]) = {x, y} /\ Aliases[f][1] = x /\ Aliases[f][2] = y
  BY <1>1 DEF Range
<1>3. ConfigFrom(env)[f] = IF x \in DOMAIN env THEN env[x] ELSE IF y \in DOMAIN env THEN env[y] ELSE Default(f)
  <2>1. ConfigFrom(env)[f] = EnvValue(env, Aliases[f], Default(f))
    BY DEF ConfigFrom
  <2>. QED BY <2>1, <1>1, EnvValueIs
<1>4. f \in Conflicts(env) <=> x \in DOMAIN env /\ y \in DOMAIN env /\ env[x] # env[y]
  BY <1>2 DEF Conflicts
<1>5. said = {env[n] : n \in {x, y} \cap DOMAIN env}
  BY <1>2
<1>. HIDE DEF said
<1>6. CASE x \in DOMAIN env /\ y \in DOMAIN env
  <2>1. said = {env[x], env[y]}
    BY <1>5, <1>6
  <2>2. Cardinality(said) = IF env[x] = env[y] THEN 1 ELSE 2
    <3>1. env[x] = env[y] => said = {env[x]}
      BY <2>1
    <3>. QED BY <2>1, <3>1, FS_Singleton, TwoAreTwo
  <2>. QED BY <1>2, <1>3, <1>4, <1>6, <2>1, <2>2
<1>7. CASE ~(x \in DOMAIN env /\ y \in DOMAIN env)
  <2>1. \/ said = {} /\ x \notin DOMAIN env /\ y \notin DOMAIN env
        \/ \E v : said = {v}
    <3>1. CASE x \in DOMAIN env /\ y \notin DOMAIN env
      <4>1. {x, y} \cap DOMAIN env = {x}
        BY <3>1
      <4>2. said = {env[x]}
        BY <4>1, <1>5
      <4>. QED BY <4>2
    <3>2. CASE x \notin DOMAIN env /\ y \in DOMAIN env
      <4>1. {x, y} \cap DOMAIN env = {y}
        BY <3>2
      <4>2. said = {env[y]}
        BY <4>1, <1>5
      <4>. QED BY <4>2
    <3>3. CASE x \notin DOMAIN env /\ y \notin DOMAIN env
      <4>1. {x, y} \cap DOMAIN env = {}
        BY <3>3
      <4>. QED BY <3>3, <4>1, <1>5
    <3>. QED BY <1>7, <3>1, <3>2, <3>3
  <2>2. Cardinality(said) # 2
    <3>1. ASSUME NEW v, said = {v} PROVE Cardinality(said) = 1
      BY <3>1, FS_Singleton
    <3>. QED BY <2>1, <3>1, FS_EmptySet
  <2>3. ConfigFrom(env)[f] \in said \/ (said = {} /\ ConfigFrom(env)[f] = Default(f))
    BY <1>3, <1>5, <2>1
  <2>. QED BY <1>4, <1>7, <2>2, <2>3 DEF said
<1>. QED BY <1>6, <1>7 DEF said

(* Of finitely many files one is the last in the order of names.           *)
LEMMA OneIsLast ==
  ASSUME NEW S, IsFiniteSet(S), S \subseteq LibraryName, S # {}
  PROVE  LastInOrder(S) \in S
<1>1. PICK n \in Nat : \E file \in [1..n -> S] : \A each \in S : \E i \in 1..n : file[i] = each
  <2>1. PICK file : ExistsBijection(1..Cardinality(S), S) /\ file \in Bijection(1..Cardinality(S), S)
    BY FS_NatBijection, FS_CardinalityType, Zenon DEF ExistsBijection
  <2>2. Cardinality(S) \in Nat /\ file \in [1..Cardinality(S) -> S] /\ \A each \in S : \E i \in 1..Cardinality(S) : file[i] = each
    BY <2>1, FS_CardinalityType DEF Bijection, Surjection, Injection
  <2>. QED BY <2>2
<1>10. PICK file \in [1..n -> S] : \A each \in S : \E i \in 1..n : file[i] = each
  BY <1>1
<1>. DEFINE P == {m \in Nat : m = 0 \/ m > n \/ \E i \in 1..m : \A j \in 1..m : file[j].rank <= file[i].rank}
<1>2. \A i \in 1..n : file[i].rank \in Int
  BY <1>10 DEF LibraryName
<1>3. ASSUME NEW m \in Nat, m \in P PROVE m + 1 \in P
  <2>1. SUFFICES ASSUME m + 1 <= n
                 PROVE  \E i \in 1..m + 1 : \A j \in 1..m + 1 : file[j].rank <= file[i].rank
    OBVIOUS
  <2>2. m + 1 \in 1..n /\ 1..m \subseteq 1..n /\ \A j \in 1..m + 1 : j \in 1..m \/ j = m + 1
    BY <2>1
  <2>3. CASE m = 0
    BY <2>3, <2>2, <1>2
  <2>4. CASE m # 0
    <3>1. PICK i \in 1..m : \A j \in 1..m : file[j].rank <= file[i].rank
      BY <1>3, <2>1, <2>4
    <3>2. file[i].rank \in Int /\ file[m + 1].rank \in Int /\ i \in 1..m + 1 /\ m + 1 \in 1..m + 1
      BY <2>2, <1>2
    <3>3. CASE file[m + 1].rank <= file[i].rank
      BY <3>1, <3>2, <3>3, <2>2
    <3>4. CASE file[i].rank <= file[m + 1].rank
      <4>1. \A j \in 1..m : file[j].rank <= file[m + 1].rank
        BY <3>1, <3>2, <3>4, <2>2, <1>2
      <4>. QED BY <4>1, <3>2, <2>2
    <3>. QED BY <3>2, <3>3, <3>4
  <2>. QED BY <2>3, <2>4
<1>4. Nat \subseteq P
  <2>1. 0 \in P
    OBVIOUS
  <2>. HIDE DEF P
  <2>. QED BY <2>1, <1>3, NatSet
<1>5. n # 0
  BY <1>10
<1>6. PICK i \in 1..n : \A j \in 1..n : file[j].rank <= file[i].rank
  <2>1. n \in P
    BY <1>4
  <2>. QED BY <2>1, <1>5
<1>7. file[i] \in S /\ \A m \in S : m.rank <= file[i].rank
  BY <1>10, <1>6
<1>. QED BY <1>7 DEF LastInOrder

(* A library is looked for where an environment points at.                 *)
LEMMA FoundInIs ==
  ASSUME NEW dirs, AreDirectories(dirs), NEW dir \in Seq(LibraryName)
  PROVE  /\ FoundIn(dirs, dir) = NoLibrary <=> LibrariesIn(dirs, dir) = {}
         /\ FoundIn(dirs, dir) # NoLibrary => Last(FoundIn(dirs, dir)).library
<1>. DEFINE found == LibrariesIn(dirs, dir)
            last  == LastInOrder(found)
<1>1. IsFiniteSet(found) /\ found \subseteq LibraryName /\ \A n \in found : n.library
  <2>1. CASE dir \in DOMAIN dirs
    <3>1. found = {n \in dirs[dir] : n.library} /\ IsFiniteSet(dirs[dir]) /\ dirs[dir] \subseteq LibraryName
      BY <2>1 DEF LibrariesIn, AreDirectories
    <3>. QED BY <3>1, FS_Subset
  <2>2. CASE dir \notin DOMAIN dirs
    BY <2>2, FS_EmptySet DEF LibrariesIn
  <2>. QED BY <2>1, <2>2
<1>2. CASE found = {}
  BY <1>2 DEF FoundIn
<1>3. CASE found # {}
  <2>1. last \in found
    BY <1>1, <1>3, OneIsLast
  <2>2. FoundIn(dirs, dir) = Append(dir, last)
    BY <1>3 DEF FoundIn
  <2>. HIDE DEF last, found
  <2>3. last \in LibraryName /\ last.library
    BY <1>1, <2>1
  <2>4. Append(dir, last) # <<>> /\ Append(dir, last)[Len(Append(dir, last))] = last
    BY <2>3
  <2>. QED BY <1>3, <2>2, <2>3, <2>4 DEF Last, NoLibrary, found
<1>. QED BY <1>2, <1>3

(* What is told of an environment is what a session would be opened with:  *)
(* sessionConfigFromEnv, sessionEnvAliasConflicts and                      *)
(* resolveGciLibraryPath, for any environment and any directories.         *)
THEOREM EnvironmentsAreTold ==
  ASSUME NEW env, NEW dirs, IsEnvironment(env), AreDirectories(dirs)
  PROVE  EnvironmentIsTold(env, dirs)
<1>. DEFINE found   == ResolveLibrary(env, dirs)
            gsLib   == IF "GS_LIB" \notin DOMAIN env THEN NoLibrary
                       ELSE IF Last(env["GS_LIB"]).library THEN env["GS_LIB"] ELSE FoundIn(dirs, env["GS_LIB"])
            shipped == IF "GEMSTONE" \notin DOMAIN env THEN NoLibrary
                       ELSE FoundIn(dirs, Append(env["GEMSTONE"], LibFolder))
<1>1. found = IF "GS_LIB_PATH" \in DOMAIN env THEN env["GS_LIB_PATH"] ELSE IF gsLib # NoLibrary THEN gsLib ELSE shipped
  BY DEF ResolveLibrary
<1>2. gsLib # NoLibrary => Last(gsLib).library
  BY FoundInIs DEF IsEnvironment
<1>3. shipped # NoLibrary => Last(shipped).library
  <2>1. LibFolder \in LibraryName
    BY DEF LibFolder, LibraryName
  <2>2. "GEMSTONE" \in DOMAIN env => Append(env["GEMSTONE"], LibFolder) \in Seq(LibraryName)
    BY <2>1 DEF IsEnvironment
  <2>. QED BY <2>2, FoundInIs
<1>4. "GS_LIB" \in DOMAIN env /\ gsLib = NoLibrary => LibrariesIn(dirs, env["GS_LIB"]) = {}
  BY FoundInIs DEF IsEnvironment, NoLibrary
<1>5. found # NoLibrary /\ "GS_LIB_PATH" \notin DOMAIN env => Last(found).library
  <2>. HIDE DEF gsLib, shipped, found
  <2>. QED BY <1>1, <1>2, <1>3
<1>6. ASSUME found = NoLibrary, NEW dir \in DOMAIN dirs, dir \in {env[n] : n \in {"GS_LIB"} \cap DOMAIN env},
             NEW n \in dirs[dir]
      PROVE  ~n.library
  <2>1. "GS_LIB" \in DOMAIN env /\ dir = env["GS_LIB"]
    BY <1>6
  <2>2. "GS_LIB_PATH" \notin DOMAIN env
    BY <1>1, <1>6 DEF IsEnvironment
  <2>3. gsLib = NoLibrary
    <3>. HIDE DEF gsLib, shipped, found
    <3>. QED BY <1>1, <1>6, <2>2
  <2>4. LibrariesIn(dirs, dir) = {}
    BY <1>4, <2>1, <2>3
  <2>. QED BY <1>6, <2>4 DEF LibrariesIn
<1>. HIDE DEF gsLib, shipped
<1>. QED BY <1>5, <1>6, FieldIsTold DEF EnvironmentIsTold

(* What is in two sequences, one after the other.                          *)
LEMMA RangeOfBoth ==
  ASSUME NEW X, NEW s \in Seq(X), NEW t \in Seq(X)
  PROVE  s \o t \in Seq(X) /\ Range(s \o t) = Range(s) \cup Range(t)
<1>1. /\ s \o t \in Seq(X) /\ Len(s \o t) = Len(s) + Len(t) /\ Len(s) \in Nat /\ Len(t) \in Nat
      /\ \A i \in 1..Len(s) : (s \o t)[i] = s[i]
      /\ \A i \in 1..Len(t) : (s \o t)[Len(s) + i] = t[i]
  BY ConcatIs
<1>2. Range(s) = {s[i] : i \in 1..Len(s)} /\ Range(t) = {t[i] : i \in 1..Len(t)}
  BY DEF Range
<1>. DEFINE both == s \o t
<1>3. Range(both) = {both[i] : i \in 1..Len(both)}
  BY <1>1 DEF Range
<1>. HIDE DEF both
<1>4. /\ both \in Seq(X) /\ Len(both) = Len(s) + Len(t)
      /\ \A i \in 1..Len(s) : both[i] = s[i]
      /\ \A i \in 1..Len(t) : both[Len(s) + i] = t[i]
  BY <1>1 DEF both
<1>5. ASSUME NEW v, v \in Range(both) PROVE v \in Range(s) \cup Range(t)
  <2>1. PICK i \in 1..Len(both) : v = both[i]
    BY <1>3, <1>5
  <2>2. CASE i <= Len(s)
    BY <2>1, <2>2, <1>1, <1>2, <1>4
  <2>3. CASE i > Len(s)
    <3>1. i - Len(s) \in 1..Len(t) /\ Len(s) + (i - Len(s)) = i
      BY <2>3, <1>1, <1>4
    <3>2. both[i] = t[i - Len(s)]
      BY <3>1, <1>4
    <3>. QED BY <2>1, <3>1, <3>2, <1>2
  <2>. QED BY <2>2, <2>3, <2>1, <1>1
<1>6. ASSUME NEW v, v \in Range(s) \cup Range(t) PROVE v \in Range(both)
  <2>1. CASE v \in Range(s)
    <3>1. PICK i \in 1..Len(s) : v = s[i]
      BY <2>1, <1>2
    <3>2. i \in 1..Len(both) /\ both[i] = v
      BY <3>1, <1>1, <1>4
    <3>. QED BY <3>2, <1>3
  <2>2. CASE v \in Range(t)
    <3>1. PICK i \in 1..Len(t) : v = t[i]
      BY <2>2, <1>2
    <3>2. Len(s) + i \in 1..Len(both) /\ both[Len(s) + i] = v
      BY <3>1, <1>1, <1>4
    <3>. QED BY <3>2, <1>3
  <2>. QED BY <1>6, <2>1, <2>2
<1>. QED BY <1>4, <1>5, <1>6 DEF both

(* What is asked for, each of it or not.                                   *)
IsAsked(o) == o \in [usage : BOOLEAN, help : BOOLEAN, live : BOOLEAN, native : BOOLEAN, json : BOOLEAN]
(* The checks that are made, each with its status.                         *)
ChecksOf(env, o, host) ==
  {Check("runtime", IF host.runtime = "unknown" THEN "error" ELSE "ok"), CredentialsCheck(ConfigFrom(env), o.live),
   Check("gci-library", IF ResolveLibrary(env, host.dirs) = NoLibrary THEN "warning" ELSE "ok")}
    \cup (IF Conflicts(env) = {} THEN {} ELSE {Check("environment-aliases", "warning")})
    \cup (IF o.native THEN {NativeCheck(host.native, EnvFlag(env, "GS_NATIVE_SESSION_WORKER"))} ELSE {})
    \cup (IF o.live THEN {LiveCheck(ConfigFrom(env), host.failing)} ELSE {})

(* A report has these checks, in some order, and its status is that of the *)
(* worst one.                                                              *)
LEMMA ReportIs ==
  ASSUME NEW env, NEW o, NEW host
  PROVE  LET report == Report(env, o, host) IN
           /\ report.status = Worst(report.checks) /\ Range(report.checks) = ChecksOf(env, o, host)
           /\ report.calls = IF o.live THEN LiveCalls(ConfigFrom(env), host.failing) ELSE <<>>
           /\ \A S : ChecksOf(env, o, host) \subseteq S => report.checks \in Seq(S)
<1>. DEFINE a == Check("runtime", IF host.runtime = "unknown" THEN "error" ELSE "ok")
            b == CredentialsCheck(ConfigFrom(env), o.live)
            c == Check("environment-aliases", "warning")
            d == Check("gci-library", IF ResolveLibrary(env, host.dirs) = NoLibrary THEN "warning" ELSE "ok")
            e == NativeCheck(host.native, EnvFlag(env, "GS_NATIVE_SESSION_WORKER"))
            f == LiveCheck(ConfigFrom(env), host.failing)
            ps == <<a, b>>
            qs == IF Conflicts(env) = {} THEN <<>> ELSE <<c>>
            rs == <<d>>
            ss == IF o.native THEN <<e>> ELSE <<>>
            ts == IF o.live THEN <<f>> ELSE <<>>
            checks == ps \o qs \o rs \o ss \o ts
            X == {a, b, c, d, e, f}
<1>1. Report(env, o, host) = [checks |-> checks, status |-> Worst(checks),
                              calls |-> IF o.live THEN LiveCalls(ConfigFrom(env), host.failing) ELSE <<>>]
  BY DEF Report
<1>2. ChecksOf(env, o, host) = {a, b, d} \cup (IF Conflicts(env) = {} THEN {} ELSE {c})
                                 \cup (IF o.native THEN {e} ELSE {}) \cup (IF o.live THEN {f} ELSE {})
  BY DEF ChecksOf
<1>. HIDE DEF a, b, c, d, e, f
<1>3. /\ ps \in Seq(X) /\ Range(ps) = {a, b}
      /\ qs \in Seq(X) /\ Range(qs) = (IF Conflicts(env) = {} THEN {} ELSE {c})
      /\ rs \in Seq(X) /\ Range(rs) = {d}
      /\ ss \in Seq(X) /\ Range(ss) = (IF o.native THEN {e} ELSE {})
      /\ ts \in Seq(X) /\ Range(ts) = (IF o.live THEN {f} ELSE {})
  <2>1. Range(<<>>) = {} /\ <<>> \in Seq(X)
    BY DEF Range
  <2>2. \A v \in X : Range(<<v>>) = {v} /\ <<v>> \in Seq(X)
    BY DEF Range
  <2>3. ps \in Seq(X) /\ Range(ps) = {a, b}
    BY DEF Range
  <2>. QED BY <2>1, <2>2, <2>3
<1>. HIDE DEF ps, qs, rs, ss, ts, X
<1>4. checks \in Seq(X) /\ Range(checks) = Range(ps) \cup Range(qs) \cup Range(rs) \cup Range(ss) \cup Range(ts)
  <2>. DEFINE two == ps \o qs
              three == two \o rs
              four == three \o ss
  <2>. HIDE DEF two, three, four
  <2>0. ps \in Seq(X) /\ qs \in Seq(X) /\ rs \in Seq(X) /\ ss \in Seq(X) /\ ts \in Seq(X)
    BY <1>3
  <2>1. two \in Seq(X) /\ Range(two) = Range(ps) \cup Range(qs)
    BY <2>0, RangeOfBoth DEF two
  <2>2. three \in Seq(X) /\ Range(three) = Range(two) \cup Range(rs)
    BY <2>0, <2>1, RangeOfBoth DEF three
  <2>3. four \in Seq(X) /\ Range(four) = Range(three) \cup Range(ss)
    BY <2>0, <2>2, RangeOfBoth DEF four
  <2>4. four \o ts \in Seq(X) /\ Range(four \o ts) = Range(four) \cup Range(ts)
    BY <2>0, <2>3, RangeOfBoth
  <2>. QED BY <2>1, <2>2, <2>3, <2>4, Zenon DEF two, three, four
<1>5. Range(checks) = ChecksOf(env, o, host)
  BY <1>2, <1>3, <1>4
<1>6. ASSUME NEW S, ChecksOf(env, o, host) \subseteq S PROVE checks \in Seq(S)
  <2>. HIDE DEF checks
  <2>1. \A i \in 1..Len(checks) : checks[i] \in S
    BY <1>4, <1>5, <1>6 DEF Range
  <2>. QED BY <1>4, <2>1
<1>. HIDE DEF checks
<1>. QED BY <1>1, <1>5, <1>6

(* A report is an error exactly if one of its checks is.                   *)
LEMMA WorstIs ==
  ASSUME NEW env, NEW o, NEW host
  PROVE  Report(env, o, host).status = "error" <=> \E check \in ChecksOf(env, o, host) : check.status = "error"
<1>. DEFINE checks == Report(env, o, host).checks
<1>1. Report(env, o, host).status = Worst(checks) /\ Range(checks) = ChecksOf(env, o, host)
  BY ReportIs
<1>. HIDE DEF checks
<1>2. Worst(checks) = "error" <=> "error" \in {checks[i].status : i \in DOMAIN checks}
  BY DEF Worst
<1>3. "error" \in {checks[i].status : i \in DOMAIN checks} <=> \E check \in Range(checks) : check.status = "error"
  BY DEF Range
<1>. QED BY <1>1, <1>2, <1>3

(* The live check calls nothing without credentials, and logs out what it  *)
(* has opened.                                                             *)
LEMMA LiveCallsAre ==
  ASSUME NEW config, NEW failing
  PROVE  LET calls == LiveCalls(config, failing) IN
           /\ Range(calls) # {} <=> Missing(config) = {}
           /\ "logout" \in Range(calls) <=> Missing(config) = {} /\ "connect" \notin failing
           /\ "logout" \in Range(calls) => Last(calls) = "logout"
<1>1. Range(<<>>) = {} /\ Range(<<"connect">>) = {"connect"}
  BY DEF Range
<1>2. Range(<<"connect", "eval", "logout">>) = {"connect", "eval", "logout"}
  BY DEF Range
<1>3. Last(<<"connect", "eval", "logout">>) = "logout"
  BY DEF Last
<1>4. CASE Missing(config) # {}
  <2>1. LiveCalls(config, failing) = <<>>
    BY <1>4 DEF LiveCalls
  <2>. QED BY <1>1, <1>4, <2>1
<1>5. CASE Missing(config) = {} /\ "connect" \in failing
  <2>1. LiveCalls(config, failing) = <<"connect">>
    BY <1>5 DEF LiveCalls
  <2>. QED BY <1>1, <1>5, <2>1
<1>6. CASE Missing(config) = {} /\ "connect" \notin failing
  <2>1. LiveCalls(config, failing) = <<"connect", "eval", "logout">>
    BY <1>6 DEF LiveCalls
  <2>. QED BY <1>2, <1>3, <1>6, <2>1
<1>. QED BY <1>4, <1>5, <1>6

(* The doctor's checks of an environment, its one session and its exit,    *)
(* buildDoctorReport and runDoctorCli, for any environment, options,       *)
(* directories and failures.                                               *)
THEOREM DoctorDoesAsMeant ==
  ASSUME NEW env, NEW o, NEW host, IsEnvironment(env), IsAsked(o), AreDirectories(host.dirs)
  PROVE  DoctorIsMeant(env, o, host)
<1>. DEFINE ran    == RunDoctor(env, o, host)
            called == Range(ran.calls)
            asks   == o.live /\ ~o.help /\ ~o.usage
            config == ConfigFrom(env)
            logsIn == Missing(config) = {} /\ host.failing \cap {"connect", "eval"} = {}
            report == Report(env, o, host)
            calls  == LiveCalls(config, host.failing)
<1>1. EnvironmentIsTold(env, host.dirs)
  BY EnvironmentsAreTold
<1>2. ran = IF o.usage THEN [exit |-> 2, told |-> "usage", calls |-> <<>>]
            ELSE IF o.help THEN [exit |-> 0, told |-> "usage", calls |-> <<>>]
            ELSE IF Unwritable(report, o) THEN [exit |-> 1, told |-> "nothing", calls |-> report.calls]
            ELSE [exit |-> IF report.status = "error" THEN 1 ELSE 0, told |-> report.status, calls |-> report.calls]
  BY DEF RunDoctor
<1>3. o.usage \in BOOLEAN /\ o.help \in BOOLEAN /\ o.live \in BOOLEAN /\ o.native \in BOOLEAN /\ o.json \in BOOLEAN
  BY DEF IsAsked
<1>4. report.calls = (IF o.live THEN calls ELSE <<>>) /\ Range(report.checks) = ChecksOf(env, o, host)
  BY ReportIs
<1>5. report.status = "error" <=> \E check \in ChecksOf(env, o, host) : check.status = "error"
  BY WorstIs
<1>6. /\ Range(calls) # {} <=> Missing(config) = {}
      /\ "logout" \in Range(calls) <=> Missing(config) = {} /\ "connect" \notin host.failing
      /\ "logout" \in Range(calls) => Last(calls) = "logout"
  BY LiveCallsAre
<1>7. Range(<<>>) = {}
  BY DEF Range
<1>8. o.live => LiveCheck(config, host.failing) \in ChecksOf(env, o, host)
  BY DEF ChecksOf
<1>9. LiveCheck(config, host.failing).status = "error" <=> ~logsIn
  BY DEF LiveCheck, Check
<1>10. Check("live-login", "ok") \in ChecksOf(env, o, host) => o.live
  BY DEF ChecksOf, Check, CredentialsCheck, NativeCheck, LiveCheck
<1>11. ASSUME NEW check \in ChecksOf(env, o, host), check.status = "error"
       PROVE  \/ host.runtime = "unknown" \/ (o.live /\ ~logsIn)
              \/ o.native /\ host.native.importable /\ ~(host.native.worker /\ host.native.complete)
  <2>1. CASE check = Check("runtime", IF host.runtime = "unknown" THEN "error" ELSE "ok")
    BY <2>1, <1>11 DEF Check
  <2>2. CASE check = CredentialsCheck(config, o.live)
    BY <2>2, <1>11, <1>3 DEF Check, CredentialsCheck
  <2>3. CASE check = Check("gci-library", IF ResolveLibrary(env, host.dirs) = NoLibrary THEN "warning" ELSE "ok")
    BY <2>3, <1>11 DEF Check
  <2>4. CASE check = Check("environment-aliases", "warning")
    BY <2>4, <1>11 DEF Check
  <2>5. CASE o.native /\ check = NativeCheck(host.native, EnvFlag(env, "GS_NATIVE_SESSION_WORKER"))
    BY <2>5, <1>11 DEF Check, NativeCheck
  <2>6. CASE o.live /\ check = LiveCheck(config, host.failing)
    BY <2>6, <1>9, <1>11
  <2>. QED BY <2>1, <2>2, <2>3, <2>4, <2>5, <2>6 DEF ChecksOf
<1>. HIDE DEF ran, report, calls, config
<1>12. CASE o.usage \/ o.help
  <2>1. ran.calls = <<>> /\ ran.exit # 1 /\ ~asks
    <3>1. CASE o.usage
      <4>1. ran = [exit |-> 2, told |-> "usage", calls |-> <<>>]
        BY <1>2, <3>1
      <4>. QED BY <4>1, <3>1
    <3>2. CASE ~o.usage /\ o.help
      <4>1. ran = [exit |-> 0, told |-> "usage", calls |-> <<>>]
        BY <1>2, <3>2
      <4>. QED BY <4>1, <3>2
    <3>. QED BY <1>12, <3>1, <3>2
  <2>2. called = {}
    BY <2>1, <1>7
  <2>. QED BY <1>1, <2>1, <2>2 DEF DoctorIsMeant, ran, config
<1>13. CASE ~o.usage /\ ~o.help
  <2>1. ran = IF Unwritable(report, o) THEN [exit |-> 1, told |-> "nothing", calls |-> report.calls]
              ELSE [exit |-> IF report.status = "error" THEN 1 ELSE 0, told |-> report.status, calls |-> report.calls]
    BY <1>2, <1>13
  <2>2. ran.calls = (IF o.live THEN calls ELSE <<>>) /\ (asks <=> o.live)
    BY <2>1, <1>4, <1>13
  <2>3. called = IF o.live THEN Range(calls) ELSE {}
    BY <2>2, <1>7
  <2>4. called # {} => asks /\ Missing(config) = {}
    BY <2>2, <2>3, <1>6
  <2>5. "logout" \in called <=> called # {} /\ "connect" \notin host.failing
    BY <2>3, <1>6
  <2>6. asks /\ ran.exit = 0 => logsIn /\ Last(ran.calls) = "logout"
    <3>1. ran.exit = 0 => report.status # "error"
      BY <2>1
    <3>2. asks /\ ran.exit = 0 => logsIn
      BY <3>1, <1>5, <1>8, <1>9
    <3>3. logsIn => "connect" \notin host.failing
      OBVIOUS
    <3>. QED BY <3>2, <3>3, <2>2, <1>6
  <2>7. ran.exit = 1 =>
           \/ host.runtime = "unknown" \/ (asks /\ ~logsIn)
           \/ o.native /\ host.native.importable /\ ~(host.native.worker /\ host.native.complete)
           \/ asks /\ o.json
    <3>1. CASE Unwritable(report, o)
      BY <3>1, <1>4, <1>10, <2>2 DEF Unwritable
    <3>2. CASE ~Unwritable(report, o)
      <4>1. ran.exit = 1 => report.status = "error"
        BY <2>1, <3>2
      <4>. QED BY <4>1, <1>5, <1>11, <2>2
    <3>. QED BY <3>1, <3>2
  <2>. QED BY <1>1, <2>4, <2>5, <2>6, <2>7 DEF DoctorIsMeant, ran, config
<1>. QED BY <1>12, <1>13, <1>3

-----------------------------------------------------------------------------
(* Together                                                                *)

(* Whatever is queried, logged, written or read: what is read is what was  *)
(* asked for and what is there.                                            *)
THEOREM ReadsAreWhatIsMeant == LogSpec /\ ReadSpec /\ ValuesSpec /\ QuerySpec => []ReadsAreAsMeant
<1>1. QED
  BY LogIsRead, ArraysAreReadBack, ValuesSurvive, QueriesAreAtomic, PTL DEF ReadsAreAsMeant

(* No entry goes from a log but those that were read of it, no baseline    *)
(* that loads but those that are named or replaced, and no root of the     *)
(* library is put in the place of another one.                             *)
THEOREM OnlyThatGoes == LogSpec /\ BaselinesSpec /\ BootSpec => OnlyTheMeantGoes
<1>1. QED
  BY LogIsRemoved, NothingElseGoes, PTL DEF OnlyTheMeantGoes
=============================================================================
