-------------------------- MODULE RunDeliveryProofs --------------------------
(***************************************************************************)
(* Theorems about RunDelivery, for every script, payload, capacity and      *)
(* budget.                                                                  *)
(***************************************************************************)
EXTENDS RunDelivery, FiniteSetTheorems, SequenceTheorems, WellFoundedInduction, TLAPS

(***************************************************************************)
(* Recursion over the naturals, for sets instead of predicates.             *)
(***************************************************************************)
Below == {p \in Nat \X Nat : p[1] < p[2]}

(* The order of the naturals is well founded.                               *)
LEMMA BelowIsWellFounded == IsWellFoundedOn(Below, Nat)
<1>1. Below = OpToRel(<, Nat)
  BY DEF Below, OpToRel
<1> QED
  BY <1>1, NatLessThanWellFounded

(* A set with zero and with every successor holds all naturals.             *)
LEMMA SetInduction ==
  ASSUME NEW S, 0 \in S, \A n \in Nat : n \in S => n + 1 \in S
  PROVE  \A n \in Nat : n \in S
<1> SUFFICES ASSUME Nat \ S # {} PROVE FALSE
  OBVIOUS
<1>1. PICK x \in Nat \ S : \A y \in Nat \ S : <<y, x>> \notin Below
  <2>1. Nat \ S \subseteq Nat
    OBVIOUS
  <2> QED
    BY <2>1, BelowIsWellFounded, WFMin
<1>2. x # 0 /\ x - 1 \in Nat
  BY <1>1
<1>3. x - 1 \in S
  <2>1. <<x - 1, x>> \in Below
    BY <1>1, <1>2 DEF Below
  <2> QED
    BY <1>1, <1>2, <2>1
<1> QED
  BY <1>1, <1>2, <1>3

(* The values of a recursion up to n.                                       *)
Recursion(g, V, n, first, step) ==
  /\ g \in [0 .. n -> V] /\ g[0] = first
  /\ \A i \in 1 .. n : g[i] = step[<<i, g[i - 1]>>]

(* Every primitive recursion has values.                                    *)
LEMMA RecursionExists ==
  ASSUME NEW V, NEW n \in Nat, NEW first \in V, NEW step,
         \A i \in 1 .. n : \A v \in V : step[<<i, v>>] \in V
  PROVE  \E g : Recursion(g, V, n, first, step)
<1> DEFINE S == {m \in Nat : m <= n => \E g : Recursion(g, V, m, first, step)}
<1>1. 0 \in S
  <2> DEFINE h == [i \in 0 .. 0 |-> first]
  <2>1. Recursion(h, V, 0, first, step)
    BY DEF Recursion
  <2> QED
    BY <2>1
<1>2. \A m \in Nat : m \in S => m + 1 \in S
  <2> SUFFICES ASSUME NEW m \in Nat, m \in S, m + 1 <= n
               PROVE  \E g : Recursion(g, V, m + 1, first, step)
    OBVIOUS
  <2>1. PICK g : Recursion(g, V, m, first, step)
    OBVIOUS
  <2> DEFINE next == step[<<m + 1, g[m]>>]
             h == [i \in 0 .. m + 1 |-> IF i = m + 1 THEN next ELSE g[i]]
  <2>2. g[m] \in V /\ m + 1 \in 1 .. n
    BY <2>1 DEF Recursion
  <2>3. h \in [0 .. m + 1 -> V] /\ h[0] = first
    <3>1. \A i \in 0 .. m + 1 : h[i] \in V
      BY <2>1, <2>2 DEF Recursion
    <3>2. h[0] = g[0]
      OBVIOUS
    <3> QED
      BY <2>1, <3>1, <3>2 DEF Recursion
  <2>4. \A i \in 1 .. m + 1 : h[i] = step[<<i, h[i - 1]>>]
    <3> SUFFICES ASSUME NEW i \in 1 .. m + 1 PROVE h[i] = step[<<i, h[i - 1]>>]
      OBVIOUS
    <3>1. i - 1 \in 0 .. m /\ h[i - 1] = g[i - 1]
      OBVIOUS
    <3>2. CASE i = m + 1
      <4>1. h[i] = next /\ i - 1 = m
        BY <3>2
      <4> HIDE DEF h
      <4> QED
        BY <3>1, <3>2, <4>1
    <3>3. CASE i # m + 1
      <4>1. i \in 1 .. m /\ h[i] = g[i]
        BY <3>3
      <4> QED
        BY <2>1, <3>1, <4>1 DEF Recursion
    <3> QED
      BY <3>2, <3>3
  <2> QED
    BY <2>3, <2>4 DEF Recursion
<1> HIDE DEF S
<1>3. n \in S
  BY <1>1, <1>2, SetInduction
<1> QED
  BY <1>3 DEF S

(* Two recursions with the same start and steps agree.                      *)
LEMMA RecursionIsUnique ==
  ASSUME NEW n \in Nat, NEW V, NEW W, NEW first, NEW step, NEW g, NEW h,
         Recursion(g, V, n, first, step), Recursion(h, W, n, first, step)
  PROVE  \A i \in 0 .. n : g[i] = h[i]
<1> DEFINE S == {i \in Nat : i \in 0 .. n => g[i] = h[i]}
<1>1. 0 \in S
  BY DEF Recursion
<1>2. \A m \in Nat : m \in S => m + 1 \in S
  <2> SUFFICES ASSUME NEW m \in Nat, m \in S, m + 1 \in 0 .. n
               PROVE  g[m + 1] = h[m + 1]
    OBVIOUS
  <2>1. m + 1 \in 1 .. n /\ m \in 0 .. n /\ (m + 1) - 1 = m
    OBVIOUS
  <2>2. g[m + 1] = step[<<m + 1, g[m]>>] /\ h[m + 1] = step[<<m + 1, h[m]>>]
    BY <2>1 DEF Recursion
  <2> QED
    BY <2>1, <2>2
<1> HIDE DEF S
<1>3. \A m \in Nat : m \in S
  BY <1>1, <1>2, SetInduction
<1> QED
  BY <1>3 DEF S

(***************************************************************************)
(* Flattening.                                                              *)
(***************************************************************************)
(* Concatenation is associative.                                            *)
LEMMA Regroup == \A X : \A r, s, t \in Seq(X) : (r \o s) \o t = r \o (s \o t)
  BY ConcatAssociative

(* The recursion that flattens.                                             *)
Joined(ss, X) == [p \in (1 .. Len(ss)) \X Seq(X) |-> p[2] \o ss[p[1]]]
Flattens(g, ss, X) == Recursion(g, Seq(X), Len(ss), <<>>, Joined(ss, X))

(* What a flattening recursion is, spelt out.                               *)
LEMMA FlattensIs ==
  ASSUME NEW X, NEW ss \in Seq(Seq(X)), NEW g
  PROVE  Flattens(g, ss, X) <=>
           /\ g \in [0 .. Len(ss) -> Seq(X)] /\ g[0] = <<>>
           /\ \A i \in 1 .. Len(ss) : g[i] = g[i - 1] \o ss[i]
<1>1. Len(ss) \in Nat
  OBVIOUS
<1>2. ASSUME g \in [0 .. Len(ss) -> Seq(X)], NEW i \in 1 .. Len(ss)
      PROVE  Joined(ss, X)[<<i, g[i - 1]>>] = g[i - 1] \o ss[i]
  <2>1. i - 1 \in 0 .. Len(ss)
    BY <1>1
  <2> DEFINE v == g[i - 1]
  <2>2. v \in Seq(X)
    BY <1>2, <2>1
  <2> HIDE DEF v
  <2>3. Joined(ss, X)[<<i, v>>] = v \o ss[i]
    BY <2>2 DEF Joined
  <2> QED
    BY <2>3 DEF v
<1> QED
  BY <1>2 DEF Flattens, Recursion

(* A sequence of sequences has one.                                         *)
LEMMA FlatteningExists ==
  ASSUME NEW X, NEW ss \in Seq(Seq(X))
  PROVE  \E g : Flattens(g, ss, X)
<1>1. Len(ss) \in Nat /\ <<>> \in Seq(X)
  OBVIOUS
<1>2. \A i \in 1 .. Len(ss) : \A v \in Seq(X) : Joined(ss, X)[<<i, v>>] \in Seq(X)
  <2> SUFFICES ASSUME NEW i \in 1 .. Len(ss), NEW v \in Seq(X)
               PROVE  Joined(ss, X)[<<i, v>>] \in Seq(X)
    OBVIOUS
  <2>1. Joined(ss, X)[<<i, v>>] = v \o ss[i]
    BY DEF Joined
  <2>2. ss[i] \in Seq(X)
    OBVIOUS
  <2> QED
    BY <2>1, <2>2
<1> QED
  BY <1>1, <1>2, RecursionExists DEF Flattens

(* FlattenSeq is the last value of the recursion.                           *)
LEMMA FlattenIs ==
  ASSUME NEW X, NEW ss \in Seq(Seq(X)), NEW g, Flattens(g, ss, X)
  PROVE  FlattenSeq(ss) = g[Len(ss)] /\ FlattenSeq(ss) \in Seq(X)
<1> DEFINE n == Len(ss)
<1>1. n \in Nat
  OBVIOUS
<1>2. /\ g \in [0 .. n -> Seq(X)] /\ g[0] = <<>>
      /\ \A i \in 1 .. n : g[i] = g[i - 1] \o ss[i]
  BY FlattensIs
<1> HIDE DEF n
<1>3. CASE n = 0
  <2>1. ss = <<>> /\ FlattenSeq(ss) = ss
    BY <1>3 DEF FlattenSeq, n
  <2> QED
    BY <1>2, <1>3, <2>1 DEF n
<1>4. CASE n # 0
  <2> DEFINE Is(f) == f = [i \in 1 .. n |-> IF i = 1 THEN ss[i] ELSE f[i - 1] \o ss[i]]
             h == [i \in 1 .. n |-> g[i]]
             f == CHOOSE f : Is(f)
  <2>1. Is(h)
    <3> SUFFICES ASSUME NEW i \in 1 .. n
                 PROVE  g[i] = IF i = 1 THEN ss[i] ELSE h[i - 1] \o ss[i]
      OBVIOUS
    <3>1. CASE i = 1
      <4> DEFINE l == i - 1
      <4>1. g[i] = g[l] \o ss[i]
        BY <1>2
      <4>3. l = 0
        BY <3>1
      <4> HIDE DEF l
      <4>2. g[1] = <<>> \o ss[1] /\ ss[1] \in Seq(X)
        BY <1>1, <1>2, <1>4, <3>1, <4>1, <4>3 DEF n
      <4> QED
        BY <3>1, <4>2
    <3>2. CASE i # 1
      <4>1. i - 1 \in 1 .. n
        BY <1>1, <3>2
      <4> QED
        BY <1>2, <3>2, <4>1
    <3> QED
      BY <3>1, <3>2
  <2>2. Is(f)
    <3> HIDE DEF Is
    <3> QED
      BY <2>1
  <2>3. FlattenSeq(ss) = f[n]
    BY <1>1, <1>4 DEF FlattenSeq, n
  <2> DEFINE S == {i \in Nat : i \in 1 .. n => f[i] = g[i]}
  <2> HIDE DEF f
  <2>4. 0 \in S
    OBVIOUS
  <2>5. \A m \in Nat : m \in S => m + 1 \in S
    <3> SUFFICES ASSUME NEW m \in Nat, m \in S, m + 1 \in 1 .. n
                 PROVE  f[m + 1] = g[m + 1]
      OBVIOUS
    <3>1. f[m + 1] = IF m + 1 = 1 THEN ss[m + 1] ELSE f[(m + 1) - 1] \o ss[m + 1]
      BY <2>2
    <3>2. g[m + 1] = g[(m + 1) - 1] \o ss[m + 1]
      BY <1>2
    <3> DEFINE l == (m + 1) - 1
    <3>5. l = m
      OBVIOUS
    <3> HIDE DEF l
    <3>3. CASE m = 0
      <4>1. ss[1] \in Seq(X)
        BY <1>1, <1>4 DEF n
      <4>3. g[l] = <<>> /\ m + 1 = 1
        BY <1>2, <3>3, <3>5
      <4>2. g[m + 1] = <<>> \o ss[1] /\ f[m + 1] = ss[1]
        BY <3>1, <3>2, <4>3 DEF l
      <4> QED
        BY <4>1, <4>2
    <3>4. CASE m # 0
      <4>1. m \in 1 .. n /\ m + 1 # 1
        BY <1>1, <3>4
      <4>2. f[m] = g[m]
        BY <4>1
      <4>3. f[m + 1] = f[l] \o ss[m + 1] /\ g[m + 1] = g[l] \o ss[m + 1]
        BY <3>1, <3>2, <4>1 DEF l
      <4> QED
        BY <3>5, <4>2, <4>3
    <3> QED
      BY <3>3, <3>4
  <2> HIDE DEF S
  <2>6. n \in S
    BY <1>1, <2>4, <2>5, SetInduction
  <2> QED
    BY <1>1, <1>2, <1>4, <2>3, <2>6 DEF S, n
<1> QED
  BY <1>3, <1>4

(* Nothing flattens to nothing, and the flattening is over the same set.    *)
LEMMA FlattenType ==
  ASSUME NEW X, NEW ss \in Seq(Seq(X))
  PROVE  FlattenSeq(ss) \in Seq(X) /\ (ss = <<>> => FlattenSeq(ss) = <<>>)
<1>1. PICK g : Flattens(g, ss, X)
  BY FlatteningExists
<1> QED
  BY <1>1, FlattenIs DEF FlattenSeq

(* What is appended comes last.                                             *)
LEMMA FlattenAppend ==
  ASSUME NEW X, NEW ss \in Seq(Seq(X)), NEW s \in Seq(X)
  PROVE  FlattenSeq(Append(ss, s)) = FlattenSeq(ss) \o s
<1> DEFINE tt == Append(ss, s)
           n == Len(ss)
<1>1. /\ tt \in Seq(Seq(X)) /\ n \in Nat /\ Len(tt) = n + 1 /\ tt[n + 1] = s
      /\ \A i \in 1 .. n : tt[i] = ss[i]
  OBVIOUS
<1> HIDE DEF tt, n
<1>2. PICK g : Flattens(g, tt, X)
  BY <1>1, FlatteningExists
<1>3. /\ g \in [0 .. n + 1 -> Seq(X)] /\ g[0] = <<>>
      /\ \A i \in 1 .. n + 1 : g[i] = g[i - 1] \o tt[i]
  <2>1. /\ g \in [0 .. Len(tt) -> Seq(X)] /\ g[0] = <<>>
        /\ \A i \in 1 .. Len(tt) : g[i] = g[i - 1] \o tt[i]
    BY <1>1, <1>2, FlattensIs
  <2> QED
    BY <1>1, <2>1
<1> DEFINE h == [i \in 0 .. n |-> g[i]]
<1>4. /\ h \in [0 .. n -> Seq(X)] /\ h[0] = <<>> /\ h[n] = g[n]
      /\ \A i \in 1 .. n : h[i] = h[i - 1] \o ss[i]
  <2>1. \A i \in 1 .. n : i - 1 \in 0 .. n /\ i \in 0 .. n /\ i \in 1 .. n + 1
    BY <1>1
  <2>2. \A i \in 1 .. n : h[i] = h[i - 1] \o ss[i]
    <3> SUFFICES ASSUME NEW i \in 1 .. n PROVE h[i] = h[i - 1] \o ss[i]
      OBVIOUS
    <3>1. h[i] = g[i] /\ h[i - 1] = g[i - 1] /\ tt[i] = ss[i]
      BY <1>1, <2>1
    <3>2. g[i] = g[i - 1] \o tt[i]
      BY <1>3, <2>1
    <3> QED
      BY <3>1, <3>2
  <2>3. \A i \in 0 .. n : g[i] \in Seq(X)
    BY <1>1, <1>3
  <2> QED
    <3>1. h \in [0 .. n -> Seq(X)]
      BY <2>3
    <3>2. h[0] = <<>> /\ h[n] = g[n]
      BY <1>1, <1>3
    <3> QED
      BY <2>2, <3>1, <3>2
<1> HIDE DEF h
<1>5. Flattens(h, ss, X)
  BY <1>4, FlattensIs DEF n
<1>6. FlattenSeq(ss) = g[n]
  BY <1>4, <1>5, FlattenIs DEF n
<1>7. FlattenSeq(tt) = g[n + 1]
  BY <1>1, <1>2, FlattenIs
<1> DEFINE l == (n + 1) - 1
<1>8. l = n /\ n + 1 \in 1 .. n + 1
  BY <1>1
<1>9. g[n + 1] = g[l] \o tt[n + 1]
  BY <1>3, <1>8
<1> HIDE DEF l
<1>10. g[n + 1] = g[n] \o s
  BY <1>1, <1>8, <1>9
<1> QED
  BY <1>6, <1>7, <1>10 DEF tt

(* And what is taken from the front came first.                             *)
LEMMA FlattenTail ==
  ASSUME NEW X, NEW ss \in Seq(Seq(X)), ss # <<>>
  PROVE  FlattenSeq(ss) = Head(ss) \o FlattenSeq(Tail(ss))
<1> DEFINE tt == Tail(ss)
           n == Len(tt)
           s == Head(ss)
<1>1. /\ tt \in Seq(Seq(X)) /\ n \in Nat /\ Len(ss) = n + 1 /\ s = ss[1]
      /\ \A i \in 1 .. n : tt[i] = ss[i + 1]
  OBVIOUS
<1>2. s \in Seq(X)
  OBVIOUS
<1> HIDE DEF tt, n, s
<1>3. PICK g : Flattens(g, tt, X)
  BY <1>1, FlatteningExists
<1>4. /\ g \in [0 .. n -> Seq(X)] /\ g[0] = <<>>
      /\ \A i \in 1 .. n : g[i] = g[i - 1] \o tt[i]
  BY <1>1, <1>3, FlattensIs DEF n
<1> DEFINE h == [i \in 0 .. n + 1 |-> IF i = 0 THEN <<>> ELSE s \o g[i - 1]]
<1>5. h \in [0 .. n + 1 -> Seq(X)] /\ h[0] = <<>> /\ h[n + 1] = s \o g[n]
  <2>1. \A i \in 0 .. n + 1 : h[i] \in Seq(X)
    <3> SUFFICES ASSUME NEW i \in 0 .. n + 1, i # 0 PROVE s \o g[i - 1] \in Seq(X)
      OBVIOUS
    <3>1. i - 1 \in 0 .. n
      BY <1>1
    <3> QED
      BY <1>2, <1>4, <3>1
  <2>2. n + 1 \in 0 .. n + 1 /\ 0 \in 0 .. n + 1 /\ n + 1 # 0 /\ (n + 1) - 1 = n
    BY <1>1
  <2>3. h[n + 1] = s \o g[(n + 1) - 1]
    BY <2>2
  <2>4. h[n + 1] = s \o g[n] /\ h[0] = <<>>
    BY <2>2, <2>3
  <2> QED
    BY <2>1, <2>4
<1>6. \A i \in 1 .. n + 1 : h[i] = h[i - 1] \o ss[i]
  <2> SUFFICES ASSUME NEW i \in 1 .. n + 1 PROVE h[i] = h[i - 1] \o ss[i]
    OBVIOUS
  <2>1. CASE i = 1
    <3>1. h[i] = s \o <<>> /\ h[i - 1] = <<>>
      BY <1>1, <1>4, <2>1
    <3> QED
      BY <1>1, <1>2, <2>1, <3>1
  <2>2. CASE i # 1
    <3> DEFINE j == i - 1
    <3>1. j \in 1 .. n /\ j - 1 \in 0 .. n /\ i = j + 1
      BY <1>1, <2>2
    <3>2. h[i] = s \o g[j] /\ h[j] = s \o g[j - 1]
      <4>1. \A k \in 0 .. n + 1 : k # 0 => h[k] = s \o g[k - 1]
        OBVIOUS
      <4>2. i # 0 /\ j # 0 /\ i \in 0 .. n + 1 /\ j \in 0 .. n + 1
        BY <1>1, <3>1
      <4> HIDE DEF h
      <4>3. h[i] = s \o g[i - 1]
        BY <4>1, <4>2
      <4>4. h[j] = s \o g[j - 1]
        BY <4>1, <4>2
      <4> QED
        BY <4>3, <4>4
    <3>3. ss[i] = tt[j] /\ ss[i] \in Seq(X)
      BY <1>1, <3>1
    <3> DEFINE u == g[j - 1]
               t == ss[i]
               v == g[j]
    <3>4. v = u \o t /\ u \in Seq(X)
      <4>1. g[j] = g[j - 1] \o tt[j]
        BY <1>4, <3>1
      <4>2. g[j - 1] \in Seq(X)
        BY <1>4, <3>1
      <4> QED
        BY <3>3, <4>1, <4>2
    <3>5. t \in Seq(X)
      BY <3>3
    <3> HIDE DEF t, u, v
    <3> HIDE DEF h, j
    <3>9. s \in Seq(X) /\ u \in Seq(X) /\ t \in Seq(X)
      BY <1>2, <3>4, <3>5
    <3>8. (s \o u) \o t = s \o (u \o t)
      BY ONLY <3>9, Regroup
    <3>6. (s \o u) \o t = s \o v
      BY <3>4, <3>8
    <3>7. h[i] = s \o v /\ h[i - 1] = s \o u
      BY <3>2 DEF j, u, v
    <3> QED
      BY <3>6, <3>7 DEF t
  <2> QED
    BY <2>1, <2>2
<1> HIDE DEF h
<1>7. Flattens(h, ss, X)
  BY <1>1, <1>5, <1>6, FlattensIs
<1>8. FlattenSeq(ss) = h[n + 1]
  BY <1>1, <1>7, FlattenIs
<1>9. FlattenSeq(tt) = g[n]
  BY <1>1, <1>3, FlattenIs DEF n
<1> QED
  BY <1>5, <1>8, <1>9 DEF s, tt

(***************************************************************************)
(* Flattening what a function says of each element.                         *)
(***************************************************************************)
Mapped(q, F) == [i \in DOMAIN q |-> F[q[i]]]
Maps(m, q, F) == \A i \in 1 .. Len(q) : m[i] = F[q[i]]

(* One sequence for each element.                                           *)
LEMMA MappedIs ==
  ASSUME NEW P, NEW T, NEW F \in [P -> T], NEW q \in Seq(P)
  PROVE  /\ Mapped(q, F) \in Seq(T) /\ Len(Mapped(q, F)) = Len(q)
         /\ Maps(Mapped(q, F), q, F)
<1> DEFINE n == Len(q)
<1>1. n \in Nat /\ DOMAIN q = 1 .. n /\ \A i \in 1 .. n : q[i] \in P
  OBVIOUS
<1> HIDE DEF n
<1>2. \A i \in 1 .. n : F[q[i]] \in T
  BY <1>1
<1>3. Mapped(q, F) = [i \in 1 .. n |-> F[q[i]]]
  BY <1>1 DEF Mapped
<1>4. [i \in 1 .. n |-> F[q[i]]] \in Seq(T)
  BY <1>1, <1>2
<1>5. Len([i \in 1 .. n |-> F[q[i]]]) = n
  BY <1>1
<1> QED
  BY <1>3, <1>4, <1>5 DEF Maps, n

(* Flattened, they are one sequence.                                        *)
LEMMA MappedType ==
  ASSUME NEW P, NEW X, NEW F \in [P -> Seq(X)], NEW q \in Seq(P)
  PROVE  /\ FlattenSeq(Mapped(q, F)) \in Seq(X)
         /\ q = <<>> => FlattenSeq(Mapped(q, F)) = <<>>
<1> DEFINE T == Seq(X)
<1>1. F \in [P -> T] /\ q \in Seq(P)
  OBVIOUS
<1> HIDE DEF T
<1>2. Mapped(q, F) \in Seq(T) /\ Len(Mapped(q, F)) = Len(q) /\ Maps(Mapped(q, F), q, F)
  BY ONLY <1>1, MappedIs
<1>3. ASSUME q = <<>> PROVE Mapped(q, F) = <<>>
  <2>1. Len(Mapped(q, F)) = 0
    BY <1>2, <1>3
  <2> QED
    BY ONLY <1>2, <2>1, EmptySeq
<1> QED
  BY <1>2, <1>3, FlattenType DEF T

(* The sequence of an appended element comes last.                          *)
LEMMA MappedAppend ==
  ASSUME NEW P, NEW X, NEW F \in [P -> Seq(X)], NEW q \in Seq(P), NEW e \in P
  PROVE  FlattenSeq(Mapped(Append(q, e), F)) = FlattenSeq(Mapped(q, F)) \o F[e]
<1> DEFINE tt == Append(q, e)
           n == Len(q)
           t == F[e]
           ss == Mapped(q, F)
           rr == Mapped(tt, F)
<1>1. /\ tt \in Seq(P) /\ n \in Nat /\ Len(tt) = n + 1 /\ tt[n + 1] = e
      /\ \A i \in 1 .. n : tt[i] = q[i]
  OBVIOUS
<1> DEFINE T == Seq(X)
<1>2. F \in [P -> T] /\ t \in T
  OBVIOUS
<1> HIDE DEF T
<1>7. ss \in Seq(T) /\ Len(ss) = n /\ Maps(ss, q, F)
  BY <1>2, MappedIs
<1>3. ss \in Seq(T) /\ Len(ss) = n /\ \A i \in 1 .. n : ss[i] = F[q[i]]
  BY <1>7 DEF Maps
<1> HIDE DEF tt, n, t
<1>8. rr \in Seq(T) /\ Len(rr) = Len(tt) /\ Maps(rr, tt, F)
  BY <1>1, <1>2, MappedIs
<1> HIDE DEF rr, ss
<1>4. /\ rr \in Seq(T) /\ Len(rr) = n + 1
      /\ \A i \in 1 .. n + 1 : rr[i] = F[tt[i]]
  BY <1>1, <1>8 DEF Maps
<1>5. rr = Append(ss, t)
  <2>1. rr[n + 1] = t
    BY <1>1, <1>4 DEF t
  <2>2. \A i \in 1 .. n : rr[i] = ss[i]
    <3> SUFFICES ASSUME NEW i \in 1 .. n PROVE rr[i] = ss[i]
      OBVIOUS
    <3>1. i \in 1 .. n + 1
      BY <1>1
    <3> QED
      <4>1. rr[i] = F[tt[i]] /\ tt[i] = q[i]
        BY <1>1, <1>4, <3>1
      <4>2. ss[i] = F[q[i]]
        BY <1>3
      <4> QED
        BY <4>1, <4>2
  <2> DEFINE uu == Append(ss, t)
  <2>3. /\ uu \in Seq(T) /\ Len(uu) = n + 1 /\ uu[n + 1] = t
        /\ \A i \in 1 .. n : uu[i] = ss[i]
    BY <1>2, <1>3
  <2> HIDE DEF uu
  <2>4. \A i \in 1 .. n + 1 : rr[i] = uu[i]
    BY <1>1, <2>1, <2>2, <2>3
  <2>5. rr = uu
    BY <1>4, <2>3, <2>4, SeqEqual
  <2> QED
    BY <2>5 DEF uu
<1>6. FlattenSeq(rr) = FlattenSeq(ss) \o t
  BY <1>2, <1>3, <1>5, FlattenAppend DEF T
<1> QED
  BY <1>6 DEF rr, ss, t, tt

(* The sequence of the first element comes first.                           *)
LEMMA MappedTail ==
  ASSUME NEW P, NEW X, NEW F \in [P -> Seq(X)], NEW q \in Seq(P), q # <<>>
  PROVE  FlattenSeq(Mapped(q, F)) = F[Head(q)] \o FlattenSeq(Mapped(Tail(q), F))
<1> DEFINE tt == Tail(q)
           n == Len(tt)
           ss == Mapped(q, F)
           rr == Mapped(tt, F)
<1>1. /\ tt \in Seq(P) /\ n \in Nat /\ Len(q) = n + 1 /\ Head(q) = q[1]
      /\ \A i \in 1 .. n : tt[i] = q[i + 1]
  OBVIOUS
<1> DEFINE T == Seq(X)
<1>2. F \in [P -> T]
  OBVIOUS
<1> HIDE DEF T
<1>8. ss \in Seq(T) /\ Len(ss) = Len(q) /\ Maps(ss, q, F)
  BY <1>2, MappedIs
<1> HIDE DEF tt
<1>9. rr \in Seq(T) /\ Len(rr) = n /\ Maps(rr, tt, F)
  BY <1>1, <1>2, MappedIs
<1> HIDE DEF rr, ss
<1>3. /\ ss \in Seq(T) /\ Len(ss) = n + 1
      /\ \A i \in 1 .. n + 1 : ss[i] = F[q[i]]
  BY <1>1, <1>8 DEF Maps
<1>4. rr \in Seq(T) /\ Len(rr) = n /\ \A i \in 1 .. n : rr[i] = F[tt[i]]
  BY <1>9 DEF Maps
<1> HIDE DEF n
<1>7. ss # <<>> /\ Head(ss) = F[Head(q)]
  BY <1>1, <1>3
<1>5. rr = Tail(ss)
  <2> DEFINE uu == Tail(ss)
  <2>1. uu \in Seq(T) /\ Len(uu) = n /\ \A i \in 1 .. n : uu[i] = ss[i + 1]
    BY <1>1, <1>3, <1>7
  <2> HIDE DEF uu
  <2>2. \A i \in 1 .. n : rr[i] = uu[i]
    <3> SUFFICES ASSUME NEW i \in 1 .. n PROVE rr[i] = uu[i]
      OBVIOUS
    <3>1. i + 1 \in 1 .. n + 1
      BY <1>1
    <3>2. uu[i] = F[q[i + 1]]
      BY <1>3, <2>1, <3>1
    <3>3. rr[i] = F[q[i + 1]]
      BY <1>1, <1>4
    <3> QED
      BY <3>2, <3>3
  <2>3. rr = uu
    BY <1>4, <2>1, <2>2, SeqEqual
  <2> QED
    BY <2>3 DEF uu
<1>6. FlattenSeq(ss) = Head(ss) \o FlattenSeq(Tail(ss))
  BY <1>3, <1>7, FlattenTail DEF T
<1> QED
  BY <1>5, <1>6, <1>7 DEF rr, ss, tt

(***************************************************************************)
(* Adding up.                                                               *)
(***************************************************************************)
Charged(queue) == \A i \in 1 .. Len(queue) : queue[i].bytes \in Nat
Added(queue) == [p \in (1 .. Len(queue)) \X Nat |-> p[2] + queue[p[1]].bytes]
Adds(g, queue) == Recursion(g, Nat, Len(queue), 0, Added(queue))

(* What an adding recursion is, spelt out.                                  *)
LEMMA AddsIs ==
  ASSUME NEW P, NEW queue \in Seq(P), Charged(queue), NEW g
  PROVE  Adds(g, queue) <=>
           /\ g \in [0 .. Len(queue) -> Nat] /\ g[0] = 0
           /\ \A i \in 1 .. Len(queue) : g[i] = g[i - 1] + queue[i].bytes
<1>1. Len(queue) \in Nat
  OBVIOUS
<1>2. ASSUME g \in [0 .. Len(queue) -> Nat], NEW i \in 1 .. Len(queue)
      PROVE  Added(queue)[<<i, g[i - 1]>>] = g[i - 1] + queue[i].bytes
  <2>1. i - 1 \in 0 .. Len(queue)
    BY <1>1
  <2> DEFINE v == g[i - 1]
  <2>2. v \in Nat
    BY <1>2, <2>1
  <2> HIDE DEF v
  <2>3. Added(queue)[<<i, v>>] = v + queue[i].bytes
    BY <2>2 DEF Added
  <2> QED
    BY <2>3 DEF v
<1> QED
  BY <1>2 DEF Adds, Recursion

(* A queue of charged events has one.                                       *)
LEMMA AddingExists ==
  ASSUME NEW P, NEW queue \in Seq(P), Charged(queue)
  PROVE  \E g : Adds(g, queue)
<1>1. Len(queue) \in Nat
  OBVIOUS
<1>2. \A i \in 1 .. Len(queue) : \A v \in Nat : Added(queue)[<<i, v>>] \in Nat
  <2> SUFFICES ASSUME NEW i \in 1 .. Len(queue), NEW v \in Nat
               PROVE  Added(queue)[<<i, v>>] \in Nat
    OBVIOUS
  <2>1. Added(queue)[<<i, v>>] = v + queue[i].bytes
    BY DEF Added
  <2> QED
    BY <2>1 DEF Charged
<1> QED
  BY <1>1, <1>2, RecursionExists DEF Adds

(* SumBytes is the last value of the recursion.                             *)
LEMMA SumIs ==
  ASSUME NEW P, NEW queue \in Seq(P), Charged(queue), NEW g, Adds(g, queue)
  PROVE  SumBytes(queue) = g[Len(queue)] /\ SumBytes(queue) \in Nat
<1> DEFINE n == Len(queue)
<1>1. n \in Nat
  OBVIOUS
<1>2. /\ g \in [0 .. n -> Nat] /\ g[0] = 0
      /\ \A i \in 1 .. n : g[i] = g[i - 1] + queue[i].bytes
  BY AddsIs
<1> DEFINE Is(f) == f = [i \in 0 .. n |-> IF i = 0 THEN 0 ELSE f[i - 1] + queue[i].bytes]
           f == CHOOSE f : Is(f)
<1>3. SumBytes(queue) = f[n]
  BY DEF SumBytes
<1> HIDE DEF n
<1>4. Is(g)
  <2>1. \A i \in 0 .. n : g[i] = IF i = 0 THEN 0 ELSE g[i - 1] + queue[i].bytes
    BY <1>1, <1>2
  <2> QED
    BY <1>2, <2>1
<1>5. Is(f)
  <2> HIDE DEF Is
  <2> QED
    BY <1>4
<1> DEFINE S == {i \in Nat : i \in 0 .. n => f[i] = g[i]}
<1> HIDE DEF f
<1>6. 0 \in S
  <2>1. f[0] = 0
    BY <1>1, <1>5
  <2> QED
    BY <1>2, <2>1
<1>7. \A m \in Nat : m \in S => m + 1 \in S
  <2> SUFFICES ASSUME NEW m \in Nat, m \in S, m + 1 \in 0 .. n
               PROVE  f[m + 1] = g[m + 1]
    OBVIOUS
  <2>1. m \in 0 .. n /\ m + 1 \in 1 .. n /\ m + 1 # 0
    BY <1>1
  <2> DEFINE l == (m + 1) - 1
  <2>2. l = m
    OBVIOUS
  <2>3. f[m + 1] = f[l] + queue[m + 1].bytes
    BY <1>5, <2>1
  <2>4. g[m + 1] = g[l] + queue[m + 1].bytes
    BY <1>2, <2>1
  <2> HIDE DEF l
  <2> QED
    BY <2>1, <2>2, <2>3, <2>4
<1> HIDE DEF S
<1>8. n \in S
  BY <1>1, <1>6, <1>7, SetInduction
<1> QED
  BY <1>1, <1>2, <1>3, <1>8 DEF S, n

(* The sum of a queue is a number, that of an empty queue zero.             *)
LEMMA SumType ==
  ASSUME NEW P, NEW queue \in Seq(P), Charged(queue)
  PROVE  SumBytes(queue) \in Nat /\ (queue = <<>> => SumBytes(queue) = 0)
<1>1. PICK g : Adds(g, queue)
  BY AddingExists
<1>2. g[0] = 0
  BY <1>1, AddsIs
<1> QED
  BY <1>1, <1>2, SumIs

(* An appended event adds its bytes.                                        *)
LEMMA SumAppend ==
  ASSUME NEW P, NEW queue \in Seq(P), Charged(queue), NEW e \in P, e.bytes \in Nat
  PROVE  SumBytes(Append(queue, e)) = SumBytes(queue) + e.bytes
<1> DEFINE tt == Append(queue, e)
           n == Len(queue)
<1>1. /\ tt \in Seq(P) /\ n \in Nat /\ Len(tt) = n + 1 /\ tt[n + 1] = e
      /\ \A i \in 1 .. n : tt[i] = queue[i]
  OBVIOUS
<1> HIDE DEF tt
<1>2. Charged(tt)
  BY <1>1 DEF Charged
<1> HIDE DEF n
<1>3. PICK g : Adds(g, tt)
  BY <1>1, <1>2, AddingExists
<1>4. /\ g \in [0 .. n + 1 -> Nat] /\ g[0] = 0
      /\ \A i \in 1 .. n + 1 : g[i] = g[i - 1] + tt[i].bytes
  <2>1. /\ g \in [0 .. Len(tt) -> Nat] /\ g[0] = 0
        /\ \A i \in 1 .. Len(tt) : g[i] = g[i - 1] + tt[i].bytes
    BY <1>1, <1>2, <1>3, AddsIs
  <2> QED
    BY <1>1, <2>1
<1> DEFINE h == [i \in 0 .. n |-> g[i]]
<1>5. /\ h \in [0 .. n -> Nat] /\ h[0] = 0 /\ h[n] = g[n]
      /\ \A i \in 1 .. n : h[i] = h[i - 1] + queue[i].bytes
  <2>1. \A i \in 1 .. n : i - 1 \in 0 .. n /\ i \in 0 .. n /\ i \in 1 .. n + 1
    BY <1>1
  <2>2. \A i \in 1 .. n : h[i] = h[i - 1] + queue[i].bytes
    <3> SUFFICES ASSUME NEW i \in 1 .. n PROVE h[i] = h[i - 1] + queue[i].bytes
      OBVIOUS
    <3>1. h[i] = g[i] /\ h[i - 1] = g[i - 1] /\ tt[i] = queue[i]
      BY <1>1, <2>1
    <3>2. g[i] = g[i - 1] + tt[i].bytes
      BY <1>4, <2>1
    <3> QED
      BY <3>1, <3>2
  <2>3. h \in [0 .. n -> Nat]
    BY <1>1, <1>4
  <2>4. h[0] = 0 /\ h[n] = g[n]
    BY <1>1, <1>4
  <2> QED
    BY <2>2, <2>3, <2>4
<1> HIDE DEF h
<1>6. Adds(h, queue)
  BY <1>5, AddsIs DEF n
<1>7. SumBytes(queue) = g[n]
  BY <1>5, <1>6, SumIs DEF n
<1>8. SumBytes(tt) = g[n + 1]
  BY <1>1, <1>2, <1>3, SumIs
<1> DEFINE l == (n + 1) - 1
<1>9. l = n /\ n + 1 \in 1 .. n + 1
  BY <1>1
<1>10. g[n + 1] = g[l] + tt[n + 1].bytes
  BY <1>4, <1>9
<1> HIDE DEF l
<1> QED
  BY <1>1, <1>7, <1>8, <1>9, <1>10 DEF tt

(* An event taken from the front takes its bytes.                           *)
LEMMA SumTail ==
  ASSUME NEW P, NEW queue \in Seq(P), Charged(queue), queue # <<>>
  PROVE  SumBytes(queue) = Head(queue).bytes + SumBytes(Tail(queue))
<1> DEFINE tt == Tail(queue)
           n == Len(tt)
           b == Head(queue).bytes
<1>1. /\ tt \in Seq(P) /\ n \in Nat /\ Len(queue) = n + 1 /\ b = queue[1].bytes
      /\ \A i \in 1 .. n : tt[i] = queue[i + 1]
  OBVIOUS
<1>2. b \in Nat /\ Charged(tt)
  BY <1>1 DEF Charged
<1> HIDE DEF tt, n, b
<1>3. PICK g : Adds(g, tt)
  BY <1>1, <1>2, AddingExists
<1>4. /\ g \in [0 .. n -> Nat] /\ g[0] = 0
      /\ \A i \in 1 .. n : g[i] = g[i - 1] + tt[i].bytes
  BY <1>1, <1>2, <1>3, AddsIs DEF n
<1> DEFINE h == [i \in 0 .. n + 1 |-> IF i = 0 THEN 0 ELSE b + g[i - 1]]
<1>5. h \in [0 .. n + 1 -> Nat] /\ h[0] = 0 /\ h[n + 1] = b + g[n]
  <2>1. \A i \in 0 .. n + 1 : h[i] \in Nat
    <3> SUFFICES ASSUME NEW i \in 0 .. n + 1, i # 0 PROVE b + g[i - 1] \in Nat
      OBVIOUS
    <3>1. i - 1 \in 0 .. n
      BY <1>1
    <3> QED
      BY <1>2, <1>4, <3>1
  <2> DEFINE l == (n + 1) - 1
  <2>2. n + 1 \in 0 .. n + 1 /\ 0 \in 0 .. n + 1 /\ n + 1 # 0 /\ l = n
    BY <1>1
  <2>3. h[n + 1] = b + g[l] /\ h[0] = 0
    BY <2>2
  <2> HIDE DEF l
  <2>4. h[n + 1] = b + g[n]
    BY <2>2, <2>3
  <2> QED
    BY <2>1, <2>3, <2>4
<1>6. \A i \in 1 .. n + 1 : h[i] = h[i - 1] + queue[i].bytes
  <2> SUFFICES ASSUME NEW i \in 1 .. n + 1 PROVE h[i] = h[i - 1] + queue[i].bytes
    OBVIOUS
  <2> DEFINE j == i - 1
  <2>1. j \in 0 .. n /\ i = j + 1
    BY <1>1
  <2>2. \A k \in 0 .. n + 1 : k # 0 => h[k] = b + g[k - 1]
    OBVIOUS
  <2>3. h[i] = b + g[j]
    BY <1>1, <2>1, <2>2
  <2> HIDE DEF h
  <2>4. CASE j = 0
    <3>1. h[j] = 0 /\ g[j] = 0 /\ queue[i].bytes = b
      BY <1>1, <1>4, <1>5, <2>1, <2>4
    <3> QED
      BY <1>2, <2>3, <3>1
  <2>5. CASE j # 0
    <3>1. j \in 1 .. n /\ j \in 0 .. n + 1 /\ j - 1 \in 0 .. n
      BY <1>1, <2>1, <2>5
    <3>2. h[j] = b + g[j - 1]
      BY <2>2, <2>5, <3>1
    <3>3. g[j] = g[j - 1] + tt[j].bytes
      BY <1>4, <3>1
    <3>4. tt[j].bytes = queue[i].bytes /\ tt[j].bytes \in Nat /\ g[j - 1] \in Nat
      <4>1. tt[j] = queue[i]
        BY <1>1, <2>1, <3>1
      <4>2. tt[j].bytes \in Nat /\ g[j - 1] \in Nat
        BY <1>2, <1>4, <3>1 DEF Charged, n
      <4> QED
        BY <4>1, <4>2
    <3> QED
      BY <1>2, <2>3, <3>2, <3>3, <3>4
  <2> QED
    BY <2>4, <2>5
<1> HIDE DEF h
<1>7. Adds(h, queue)
  BY <1>1, <1>5, <1>6, AddsIs
<1>8. SumBytes(queue) = h[n + 1]
  BY <1>1, <1>7, SumIs
<1>9. SumBytes(tt) = g[n]
  BY <1>1, <1>2, <1>3, SumIs DEF n
<1> QED
  BY <1>5, <1>8, <1>9 DEF b, tt

(* Of finitely many kinds one has the largest payload.                      *)
LEMMA OneIsLargest ==
  ASSUME NEW K, K \subseteq DOMAIN Payload, IsFiniteSet(K), K # {}
  PROVE  \E k \in K : \A j \in K : Payload[j] <= Payload[k]
<1> DEFINE Has(T) == \E k \in T : \A j \in T : Payload[j] <= Payload[k]
           S == {n \in Nat : \A T \in SUBSET DOMAIN Payload :
                   IsFiniteSet(T) /\ Cardinality(T) = n + 1 => Has(T)}
<1>1. \A k \in DOMAIN Payload : Payload[k] \in Nat
  BY PayloadAssumption
<1>2. ASSUME NEW T \in SUBSET DOMAIN Payload, IsFiniteSet(T), Cardinality(T) = 0 + 1
      PROVE  Has(T)
  <2>1. T # {}
    BY <1>2, FS_EmptySet
  <2>2. PICK x \in T : TRUE
    BY <2>1
  <2>3. Cardinality(T \ {x}) = 0 /\ IsFiniteSet(T \ {x})
    BY <1>2, <2>2, FS_RemoveElement
  <2>4. T = {x}
    BY <2>2, <2>3, FS_EmptySet
  <2> QED
    BY <1>1, <2>4
<1>3. 0 \in S
  BY <1>2
<1>4. \A n \in Nat : n \in S => n + 1 \in S
  <2> SUFFICES ASSUME NEW n \in Nat, n \in S, NEW T \in SUBSET DOMAIN Payload,
                      IsFiniteSet(T), Cardinality(T) = (n + 1) + 1
               PROVE  Has(T)
    OBVIOUS
  <2>1. T # {}
    BY FS_EmptySet
  <2>2. PICK x \in T : TRUE
    BY <2>1
  <2>3. Cardinality(T \ {x}) = n + 1 /\ IsFiniteSet(T \ {x})
    BY <2>2, FS_RemoveElement
  <2>4. PICK k \in T \ {x} : \A j \in T \ {x} : Payload[j] <= Payload[k]
    BY <2>3
  <2>5. Payload[k] \in Nat /\ Payload[x] \in Nat /\ \A j \in T : Payload[j] \in Nat
    BY <1>1
  <2>6. CASE Payload[x] <= Payload[k]
    BY <2>4, <2>6
  <2>7. CASE Payload[k] <= Payload[x]
    <3>1. \A j \in T : Payload[j] <= Payload[x]
      BY <2>4, <2>5, <2>7
    <3> QED
      BY <3>1
  <2> QED
    BY <2>5, <2>6, <2>7
<1> HIDE DEF S
<1>5. Cardinality(K) \in Nat /\ Cardinality(K) # 0
  BY FS_CardinalityType, FS_EmptySet
<1>6. Cardinality(K) - 1 \in S
  <2>1. Cardinality(K) - 1 \in Nat
    BY <1>5
  <2> QED
    BY <1>3, <1>4, <2>1, SetInduction
<1> QED
  BY <1>5, <1>6 DEF S

(* Payloads have a largest one.                                             *)
LEMMA LargestIs ==
  /\ Largest \in Nat
  /\ \A k \in DOMAIN Payload : Payload[k] \in Nat /\ Payload[k] <= Largest
<1>1. PICK k \in DOMAIN Payload : \A j \in DOMAIN Payload : Payload[j] <= Payload[k]
  BY PayloadAssumption, OneIsLargest
<1> DEFINE Sizes == {Payload[j] : j \in DOMAIN Payload}
<1>2. Payload[k] \in Sizes /\ Sizes \subseteq Nat
  BY PayloadAssumption
<1>3. Largest \in Sizes /\ \A j \in DOMAIN Payload : Payload[j] <= Largest
  BY <1>1, <1>2 DEF Largest
<1> QED
  BY <1>2, <1>3, PayloadAssumption

(***************************************************************************)
(* The outbox.                                                              *)
(***************************************************************************)
Kinds == DOMAIN Payload
Packets == [kind : Kinds, ids : Seq(Nat), bytes : Nat \ {0}]
Marks == Kinds \X Nat

(* What an event carries is a sequence of marks, of its ids' length.        *)
LEMMA PartsType ==
  ASSUME NEW e \in Packets
  PROVE  /\ Parts(e) \in Seq(Marks) /\ Len(Parts(e)) = Len(e.ids)
         /\ \A i \in 1 .. Len(e.ids) : Parts(e)[i] = <<e.kind, e.ids[i]>>
<1>1. e.ids \in Seq(Nat) /\ e.kind \in Kinds
  BY DEF Packets
<1> DEFINE n == Len(e.ids)
<1>2. n \in Nat /\ DOMAIN e.ids = 1 .. n /\ \A i \in 1 .. n : e.ids[i] \in Nat
  BY <1>1
<1> HIDE DEF n
<1>3. Parts(e) = [i \in 1 .. n |-> <<e.kind, e.ids[i]>>]
  BY <1>2 DEF Parts
<1>4. \A i \in 1 .. n : <<e.kind, e.ids[i]>> \in Marks
  BY <1>1, <1>2 DEF Marks
<1>5. Parts(e) \in Seq(Marks) /\ Len(Parts(e)) = n
  BY <1>2, <1>3, <1>4
<1> QED
  BY <1>3, <1>5 DEF n

(* A public event carries one mark and weighs its payload.                  *)
LEMMA PublicIs ==
  ASSUME NEW kind \in Kinds, NEW id \in Nat
  PROVE  /\ PublicEvent(kind, id) \in Packets
         /\ PublicEvent(kind, id).bytes \in Nat
         /\ PublicEvent(kind, id).bytes <= Header + Largest
<1>1. Payload[kind] \in Nat /\ Payload[kind] <= Largest /\ Largest \in Nat
  BY LargestIs DEF Kinds
<1>2. <<id>> \in Seq(Nat)
  OBVIOUS
<1>3. Header + Payload[kind] \in Nat \ {0} /\ Header + Payload[kind] <= Header + Largest
  BY <1>1 DEF Header
<1> HIDE DEF Header
<1>4. PublicEvent(kind, id) = [kind |-> kind, ids |-> <<id>>, bytes |-> Header + Payload[kind]]
  BY DEF PublicEvent, Packet
<1> QED
  BY <1>2, <1>3, <1>4 DEF Packets

PartsBy == [e \in Packets |-> Parts(e)]

(* What a queue carries is what its events carry, flattened.                *)
LEMMA ContentsIs ==
  /\ PartsBy \in [Packets -> Seq(Marks)]
  /\ \A queue \in Seq(Packets) : Contents(queue) = FlattenSeq(Mapped(queue, PartsBy))
<1>1. PartsBy \in [Packets -> Seq(Marks)]
  BY PartsType DEF PartsBy
<1>2. ASSUME NEW queue \in Seq(Packets)
      PROVE  Contents(queue) = FlattenSeq(Mapped(queue, PartsBy))
  <2>1. \A i \in DOMAIN queue : PartsBy[queue[i]] = Parts(queue[i])
    BY DEF PartsBy
  <2>2. [i \in DOMAIN queue |-> Parts(queue[i])] = Mapped(queue, PartsBy)
    BY <2>1 DEF Mapped
  <2> QED
    BY <2>2 DEF Contents
<1> QED
  BY <1>1, <1>2

(* What a queue carries.                                                    *)
LEMMA ContentsType ==
  ASSUME NEW queue \in Seq(Packets)
  PROVE  Contents(queue) \in Seq(Marks) /\ (queue = <<>> => Contents(queue) = <<>>)
  BY ContentsIs, MappedType

(* An appended event carries its parts behind all others.                   *)
LEMMA ContentsAppend ==
  ASSUME NEW queue \in Seq(Packets), NEW e \in Packets
  PROVE  Contents(Append(queue, e)) = Contents(queue) \o Parts(e)
<1>1. PartsBy[e] = Parts(e) /\ Append(queue, e) \in Seq(Packets)
  BY DEF PartsBy
<1> QED
  BY <1>1, ContentsIs, MappedAppend

(* The event taken from the front carried its parts before all others.      *)
LEMMA ContentsTail ==
  ASSUME NEW queue \in Seq(Packets), queue # <<>>
  PROVE  Contents(queue) = Parts(Head(queue)) \o Contents(Tail(queue))
<1>1. Head(queue) \in Packets /\ Tail(queue) \in Seq(Packets)
  OBVIOUS
<1>2. PartsBy[Head(queue)] = Parts(Head(queue))
  BY <1>1 DEF PartsBy
<1> QED
  BY <1>1, <1>2, ContentsIs, MappedTail

(* A queue that is not empty is all but its last event, and that.           *)
LEMMA FrontAndLast ==
  ASSUME NEW P, NEW queue \in Seq(P), queue # <<>>
  PROVE  /\ Front(queue) \in Seq(P) /\ Last(queue) \in P
         /\ queue = Append(Front(queue), Last(queue))
<1> DEFINE n == Len(queue)
           f == Front(queue)
           l == Last(queue)
<1>1. n \in Nat /\ n # 0 /\ n - 1 \in Nat /\ \A i \in 1 .. n : queue[i] \in P
  OBVIOUS
<1>2. f \in Seq(P) /\ Len(f) = n - 1 /\ \A i \in 1 .. n - 1 : f[i] = queue[i]
  <2>1. f = SubSeq(queue, 1, n - 1)
    BY DEF Front
  <2> HIDE DEF f, n
  <2>2. \A i \in 1 .. n - 1 : queue[i] \in P
    BY <1>1
  <2>3. /\ f \in Seq(P) /\ Len(f) = IF 1 <= n - 1 THEN (n - 1) - 1 + 1 ELSE 0
        /\ \A i \in 1 .. (n - 1) - 1 + 1 : f[i] = queue[1 + i - 1]
    BY <1>1, <2>1, <2>2, SubSeqProperties
  <2>4. \A i \in 1 .. n - 1 : f[i] = queue[i]
    <3> SUFFICES ASSUME NEW i \in 1 .. n - 1 PROVE f[i] = queue[i]
      OBVIOUS
    <3>1. i \in 1 .. (n - 1) - 1 + 1 /\ 1 + i - 1 = i
      BY <1>1
    <3> QED
      BY <2>3, <3>1
  <2> QED
    BY <1>1, <2>3, <2>4
<1>3. l \in P /\ l = queue[n]
  BY <1>1 DEF Last
<1> DEFINE t == Append(f, l)
<1> HIDE DEF n, f, l
<1>4. t \in Seq(P) /\ Len(t) = n /\ t[n] = l /\ \A i \in 1 .. n - 1 : t[i] = f[i]
  BY <1>1, <1>2, <1>3
<1> HIDE DEF t
<1>5. \A i \in 1 .. n : queue[i] = t[i]
  BY <1>1, <1>2, <1>3, <1>4
<1>6. queue = t
  BY <1>4, <1>5, SeqEqual DEF n
<1> QED
  BY <1>2, <1>3, <1>6 DEF f, l, t

(* A merged event carries the parts of both, in order, and is charged both  *)
(* payloads but one header.                                                 *)
LEMMA MergedIs ==
  ASSUME NEW a \in Packets, NEW e \in Packets, Coalesces(a, e)
  PROVE  /\ Merged(a, e) \in Packets
         /\ Merged(a, e).bytes = a.bytes + e.bytes - Header
         /\ Parts(Merged(a, e)) = Parts(a) \o Parts(e)
<1> DEFINE m == Merged(a, e)
<1>1. /\ a.kind = e.kind /\ a.kind \in Kinds /\ a.ids \in Seq(Nat) /\ e.ids \in Seq(Nat)
      /\ a.bytes \in Nat \ {0} /\ e.bytes \in Nat \ {0}
  BY DEF Packets, Coalesces
<1> DEFINE ids == a.ids \o e.ids
           bytes == a.bytes + e.bytes - Header
<1>3. ids \in Seq(Nat) /\ bytes \in Nat \ {0}
  BY <1>1 DEF Header
<1>4. m \in Packets /\ m.kind = a.kind /\ m.ids = ids /\ m.bytes = bytes
  <2>1. m = [a EXCEPT !.ids = ids, !.bytes = bytes]
    BY DEF Merged
  <2> HIDE DEF m, ids, bytes
  <2>2. m \in Packets
    BY <1>3, <2>1 DEF Packets
  <2>3. m.kind = a.kind /\ m.ids = ids /\ m.bytes = bytes
    BY <1>3, <2>1 DEF Packets
  <2> QED
    BY <2>2, <2>3
<1> HIDE DEF bytes
<1>7. Parts(m) = Parts(a) \o Parts(e)
  <2> DEFINE k == Len(a.ids)
             l == Len(e.ids)
             s == Parts(a)
             t == Parts(e)
             u == Parts(m)
  <2>1. k \in Nat /\ l \in Nat /\ Len(ids) = k + l
    BY <1>1
  <2>2. \A i \in 1 .. k + l : ids[i] = IF i <= k THEN a.ids[i] ELSE e.ids[i - k]
    BY <1>1, ConcatProperties
  <2> HIDE DEF m, ids, k, l
  <2>3. /\ s \in Seq(Marks) /\ Len(s) = k
        /\ \A i \in 1 .. k : s[i] = <<a.kind, a.ids[i]>>
    BY PartsType DEF k
  <2>4. /\ t \in Seq(Marks) /\ Len(t) = l
        /\ \A i \in 1 .. l : t[i] = <<a.kind, e.ids[i]>>
    BY <1>1, PartsType DEF l
  <2>5. /\ u \in Seq(Marks) /\ Len(u) = k + l
        /\ \A i \in 1 .. k + l : u[i] = <<a.kind, ids[i]>>
    BY <1>4, <2>1, PartsType
  <2> HIDE DEF s, t, u
  <2> DEFINE r == s \o t
  <2>6. /\ r \in Seq(Marks) /\ Len(r) = k + l
        /\ \A i \in 1 .. k + l : r[i] = IF i <= k THEN s[i] ELSE t[i - k]
    BY <2>3, <2>4, ConcatProperties
  <2> HIDE DEF r
  <2>7. \A i \in 1 .. k + l : u[i] = r[i]
    <3> SUFFICES ASSUME NEW i \in 1 .. k + l PROVE u[i] = r[i]
      OBVIOUS
    <3>1. CASE i <= k
      <4>1. i \in 1 .. k
        BY <2>1, <3>1
      <4> QED
        BY <2>2, <2>3, <2>5, <2>6, <3>1, <4>1
    <3>2. CASE ~(i <= k)
      <4>1. i - k \in 1 .. l
        BY <2>1, <3>2
      <4>2. u[i] = <<a.kind, e.ids[i - k]>>
        BY <2>2, <2>5, <3>2
      <4>3. r[i] = <<a.kind, e.ids[i - k]>>
        BY <2>4, <2>6, <3>2, <4>1
      <4> QED
        BY <4>2, <4>3
    <3> QED
      BY <3>1, <3>2
  <2>8. u = r
    BY <2>5, <2>6, <2>7, SeqEqual
  <2> QED
    BY <2>8 DEF r, s, t, u
<1> QED
  BY <1>4, <1>7 DEF bytes

(* The account is exact, and nothing is lost, repeated or reordered.        *)
Exact ==
  /\ events \in Seq(Packets) /\ published \in Seq(Marks) /\ received \in Seq(Marks)
  /\ pendingBytes = SumBytes(events)
  /\ received \o Contents(events) = published

(* Every packet is charged.                                                 *)
LEMMA PacketsAreCharged ==
  ASSUME NEW queue \in Seq(Packets)
  PROVE  Charged(queue) /\ SumBytes(queue) \in Nat
<1>1. \A i \in 1 .. Len(queue) : queue[i] \in Packets
  OBVIOUS
<1>2. Charged(queue)
  BY <1>1 DEF Charged, Packets
<1> QED
  BY <1>2, SumType

(* Sending keeps the account, and adds no more than the event.              *)
LEMMA SendIsExact ==
  ASSUME Exact, NEW kind \in Kinds, NEW id \in Nat, Send(PublicEvent(kind, id))
  PROVE  Exact' /\ pendingBytes' <= pendingBytes + Header + Largest
<1> DEFINE e == PublicEvent(kind, id)
<1>1. e \in Packets /\ e.bytes \in Nat /\ e.bytes <= Header + Largest
  BY PublicIs
<1>2. Send(e)
  OBVIOUS
<1> HIDE DEF e
<1>3. /\ pendingBytes \in Nat /\ Largest \in Nat /\ Header = 1 /\ Charged(events)
      /\ events \in Seq(Packets) /\ published \in Seq(Marks) /\ received \in Seq(Marks)
      /\ Parts(e) \in Seq(Marks) /\ e.bytes \in Nat \ {0}
  BY <1>1, PacketsAreCharged, PartsType, LargestIs DEF Exact, Header, Packets
<1>4. published' = published \o Parts(e) /\ received' = received
  BY <1>2 DEF Send
<1>5. published' \in Seq(Marks)
  BY <1>3, <1>4
<1>6. ASSUME events' \in Seq(Packets), Contents(events') = Contents(events) \o Parts(e)
      PROVE  received' \o Contents(events') = published'
  <2> DEFINE c == Contents(events)
             q == Parts(e)
  <2>1. c \in Seq(Marks) /\ q \in Seq(Marks) /\ received \in Seq(Marks)
    BY <1>3, ContentsType
  <2> HIDE DEF c, q
  <2>2. (received \o c) \o q = received \o (c \o q)
    BY ONLY <2>1, Regroup
  <2> QED
    BY <1>4, <1>6, <2>2 DEF Exact, c, q
<1>7. CASE SendQueued(e)
  <2>1. events' = Append(events, e) /\ pendingBytes' = pendingBytes + e.bytes
    BY <1>7 DEF SendQueued
  <2>2. events' \in Seq(Packets)
    BY <1>1, <1>3, <2>1
  <2>3. SumBytes(events') = SumBytes(events) + e.bytes
    BY <1>1, <1>3, <2>1, SumAppend
  <2>4. Contents(events') = Contents(events) \o Parts(e)
    BY <1>1, <1>3, <2>1, ContentsAppend
  <2>5. pendingBytes' = SumBytes(events')
    BY <2>1, <2>3 DEF Exact
  <2>6. pendingBytes' <= pendingBytes + Header + Largest
    BY <1>1, <1>3, <2>1
  <2> QED
    BY <1>3, <1>4, <1>5, <1>6, <2>2, <2>4, <2>5, <2>6 DEF Exact
<1>8. CASE /\ Len(events) >= CoalesceAfter /\ Coalesces(Last(events), e)
           /\ SendCoalesced(e)
  <2> DEFINE f == Front(events)
             l == Last(events)
             m == Merged(l, e)
  <2>1. events # <<>>
    <3>1. CoalesceAfter \in Nat \ {0} /\ Len(events) >= CoalesceAfter
      BY <1>8, OutboxAssumption
    <3> QED
      BY <3>1
  <2>2. f \in Seq(Packets) /\ l \in Packets /\ events = Append(f, l)
    BY <1>3, <2>1, FrontAndLast
  <2>3. /\ m \in Packets /\ m.bytes = l.bytes + e.bytes - Header
        /\ Parts(m) = Parts(l) \o Parts(e)
    BY <1>1, <1>8, <2>2, MergedIs
  <2>4. events' = Append(f, m) /\ pendingBytes' = pendingBytes + e.bytes - Header
    BY <1>8 DEF SendCoalesced
  <2> HIDE DEF f, l, m
  <2>5. events' \in Seq(Packets)
    BY <2>2, <2>3, <2>4
  <2>6. l.bytes \in Nat /\ m.bytes \in Nat /\ Charged(f) /\ SumBytes(f) \in Nat
    BY <2>2, <2>3, PacketsAreCharged DEF Packets
  <2>7. SumBytes(events') = SumBytes(f) + m.bytes /\ SumBytes(events) = SumBytes(f) + l.bytes
    BY <2>2, <2>3, <2>4, <2>6, SumAppend
  <2>8. pendingBytes' = SumBytes(events')
    <3>1. pendingBytes = SumBytes(events)
      BY DEF Exact
    <3> QED
      <4>1. pendingBytes' = pendingBytes + e.bytes - 1
        BY <1>3, <2>4
      <4>2. m.bytes = l.bytes + e.bytes - 1
        BY <1>3, <2>3
      <4>3. e.bytes \in Nat
        BY <1>3
      <4>4. SumBytes(events') = SumBytes(f) + (l.bytes + e.bytes - 1)
        BY <2>7, <4>2
      <4> QED
        BY <2>6, <2>7, <3>1, <4>1, <4>3, <4>4
  <2>9. Contents(events') = Contents(events) \o Parts(e)
    <3> DEFINE c == Contents(f)
               p == Parts(l)
               q == Parts(e)
    <3>1. c \in Seq(Marks) /\ p \in Seq(Marks) /\ q \in Seq(Marks)
      BY <1>3, <2>2, ContentsType, PartsType
    <3>2. Contents(events') = c \o (p \o q) /\ Contents(events) = c \o p
      BY <2>2, <2>3, <2>4, ContentsAppend
    <3> HIDE DEF c, p, q
    <3>3. (c \o p) \o q = c \o (p \o q)
      BY ONLY <3>1, Regroup
    <3> QED
      BY <3>2, <3>3 DEF q
  <2>10. pendingBytes' <= pendingBytes + Header + Largest
    BY <1>1, <1>3, <2>4
  <2> QED
    BY <1>3, <1>4, <1>5, <1>6, <2>5, <2>8, <2>9, <2>10 DEF Exact
<1> QED
  BY <1>2, <1>7, <1>8 DEF Send

(* Taking an event keeps the account: the subtraction never saturates.      *)
LEMMA PopIsExact ==
  ASSUME Exact, Pop
  PROVE  Exact' /\ pendingBytes' <= pendingBytes
<1> DEFINE h == Head(events)
           t == Tail(events)
<1>1. /\ events \in Seq(Packets) /\ events # <<>> /\ h \in Packets /\ t \in Seq(Packets)
      /\ received \in Seq(Marks) /\ published \in Seq(Marks)
  BY DEF Exact, Pop
<1>2. /\ events' = t /\ received' = received \o Parts(h) /\ published' = published
      /\ pendingBytes' = IF pendingBytes > h.bytes THEN pendingBytes - h.bytes ELSE 0
  BY DEF Pop
<1>3. Charged(events) /\ SumBytes(t) \in Nat /\ h.bytes \in Nat /\ Parts(h) \in Seq(Marks)
  BY <1>1, PacketsAreCharged, PartsType DEF Packets
<1>4. SumBytes(events) = h.bytes + SumBytes(t)
  BY <1>1, <1>3, SumTail
<1>5. Contents(events) = Parts(h) \o Contents(t) /\ Contents(t) \in Seq(Marks)
  BY <1>1, ContentsTail, ContentsType
<1>6. pendingBytes = SumBytes(events)
  BY DEF Exact
<1> HIDE DEF h, t
<1>7. pendingBytes' = SumBytes(t) /\ pendingBytes' <= pendingBytes
  BY <1>2, <1>3, <1>4, <1>6
<1>8. received' \in Seq(Marks)
  BY <1>1, <1>2, <1>3
<1>9. received' \o Contents(t) = published
  <2> DEFINE p == Parts(h)
             c == Contents(t)
  <2>1. received \in Seq(Marks) /\ p \in Seq(Marks) /\ c \in Seq(Marks)
    BY <1>1, <1>3, <1>5
  <2> HIDE DEF p, c
  <2>2. (received \o p) \o c = received \o (p \o c)
    BY ONLY <2>1, Regroup
  <2> QED
    BY <1>2, <1>5, <2>2 DEF Exact, p, c
<1> QED
  BY <1>1, <1>2, <1>7, <1>8, <1>9 DEF Exact

(***************************************************************************)
(* What an engine event is projected to.                                    *)
(***************************************************************************)
Heard == (Kinds \cup Silent) \X Nat
Doing == {"show", "save", "begin", "flush", "complete"}
Steps == [does : Doing, kind : Kinds \cup {"item", "signal"}, id : Nat]

(* Only the last step shows or completes, and what is shown has a payload.  *)
Orderly(steps) ==
  \A i \in 1 .. Len(steps) :
    /\ steps[i].does \in {"show", "complete"} => i = Len(steps)
    /\ steps[i].does = "show" => steps[i].kind \in Kinds
Completes(steps) == \E i \in 1 .. Len(steps) : steps[i].does = "complete"

(* What steps have still to save.                                           *)
OwedBy == [step \in Steps |-> IF step.does = "save" THEN <<step.id>> ELSE <<>>]
Owed(steps) == FlattenSeq(Mapped(steps, OwedBy))

(* One step owes its id or nothing.                                         *)
LEMMA OwedByType == OwedBy \in [Steps -> Seq(Nat)]
<1>1. \A step \in Steps : step.id \in Nat
  BY DEF Steps
<1>2. \A n \in Nat : <<n>> \in Seq(Nat)
  OBVIOUS
<1>3. \A step \in Steps :
        (IF step.does = "save" THEN <<step.id>> ELSE <<>>) \in Seq(Nat)
  BY <1>1, <1>2
<1> QED
  BY <1>3 DEF OwedBy

(* What no steps, and what the first and the other steps owe.               *)
LEMMA OwedIs ==
  ASSUME NEW steps \in Seq(Steps)
  PROVE  /\ Owed(steps) \in Seq(Nat)
         /\ steps = <<>> => Owed(steps) = <<>>
         /\ steps # <<>> => Owed(steps) = OwedBy[Head(steps)] \o Owed(Tail(steps))
  BY OwedByType, MappedType, MappedTail DEF Owed

(* What one, two and three steps owe.*)
LEMMA OwedByFew ==
  ASSUME NEW x \in Steps, NEW y \in Steps, NEW z \in Steps
  PROVE  /\ Owed(<<x>>) = OwedBy[x]
         /\ Owed(<<x, y>>) = OwedBy[x] \o OwedBy[y]
         /\ Owed(<<x, y, z>>) = OwedBy[x] \o (OwedBy[y] \o OwedBy[z])
<1> DEFINE none == <<>>
           one(s) == <<s>>
           two == <<x, y>>
           three == <<x, y, z>>
<1>1. ASSUME NEW s \in Steps PROVE Owed(one(s)) = OwedBy[s]
  <2> DEFINE t == one(s)
             b == OwedBy[s]
  <2>1. t \in Seq(Steps) /\ t # <<>> /\ Head(t) = s /\ Tail(t) = none
    OBVIOUS
  <2>2. b \in Seq(Nat) /\ none \in Seq(Steps)
    BY OwedByType
  <2> HIDE DEF t, none
  <2>3. Owed(t) = b \o Owed(none)
    BY <2>1, OwedIs
  <2>4. Owed(none) = <<>>
    BY <2>2, OwedIs DEF none
  <2> HIDE DEF b
  <2>5. b \o <<>> = b
    BY ONLY <2>2, ConcatEmptySeq
  <2> QED
    BY <2>3, <2>4, <2>5 DEF b, t
<1>2. Owed(two) = OwedBy[x] \o OwedBy[y]
  <2>1. two \in Seq(Steps) /\ two # <<>> /\ Head(two) = x /\ Tail(two) = one(y)
    OBVIOUS
  <2> HIDE DEF two, one
  <2> QED
    BY <1>1, <2>1, OwedIs
<1>3. Owed(three) = OwedBy[x] \o Owed(<<y, z>>)
  <2> DEFINE rest == <<y, z>>
  <2>1. three \in Seq(Steps) /\ three # <<>> /\ Head(three) = x /\ Tail(three) = rest
    OBVIOUS
  <2> HIDE DEF three, rest
  <2>2. Owed(three) = OwedBy[x] \o Owed(rest)
    BY <2>1, OwedIs
  <2> QED
    BY <2>2 DEF rest
<1>4. Owed(<<y, z>>) = OwedBy[y] \o OwedBy[z]
  <2> DEFINE rest == <<y, z>>
  <2>1. rest \in Seq(Steps) /\ rest # <<>> /\ Head(rest) = y /\ Tail(rest) = one(z)
    OBVIOUS
  <2> HIDE DEF rest, one
  <2>2. Owed(rest) = OwedBy[y] \o OwedBy[z]
    BY <1>1, <2>1, OwedIs
  <2> QED
    BY <2>2 DEF rest
<1> QED
  BY <1>1, <1>2, <1>3, <1>4

(* A sound projection: orderly steps that owe what the event says, and      *)
(* complete the turn only at its end.                                       *)
Sound(steps, event) ==
  /\ steps \in Seq(Steps) /\ steps # <<>> /\ Orderly(steps)
  /\ Owed(steps) = ItemOf(event)
  /\ Completes(steps) <=> event[1] = "agent_end"

(* The steps a projection is made of.                                       *)
LEMMA StepIs ==
  ASSUME NEW id \in Nat
  PROVE  /\ \A kind \in Kinds : /\ Shown(kind, id) \in Steps
                                /\ Shown(kind, id).does = "show"
                                /\ Shown(kind, id).kind \in Kinds
                                /\ OwedBy[Shown(kind, id)] = <<>>
         /\ Saved(id) \in Steps /\ Saved(id).does = "save" /\ OwedBy[Saved(id)] = <<id>>
         /\ \A does \in {"begin", "flush", "complete"} :
              /\ Signal(does) \in Steps /\ Signal(does).does = does
              /\ OwedBy[Signal(does)] = <<>>
<1>1. \A kind \in Kinds : /\ Shown(kind, id) \in Steps /\ Shown(kind, id).does = "show"
                          /\ Shown(kind, id).kind \in Kinds
  BY DEF Shown, Steps, Doing
<1>2. Saved(id) \in Steps /\ Saved(id).does = "save" /\ Saved(id).id = id
  BY DEF Saved, Steps, Doing
<1>3. \A does \in {"begin", "flush", "complete"} :
        Signal(does) \in Steps /\ Signal(does).does = does
  BY DEF Signal, Steps, Doing
<1>4. \A step \in Steps : /\ step.does = "save" => OwedBy[step] = <<step.id>>
                          /\ step.does # "save" => OwedBy[step] = <<>>
  BY DEF OwedBy
<1> HIDE DEF Shown, Saved, Signal
<1> QED
  BY <1>1, <1>2, <1>3, <1>4

(* Every projection is sound.                                               *)
LEMMA ProjectionIsSound ==
  ASSUME NEW event \in Heard
  PROVE  Sound(Projection(event), event)
<1> DEFINE kind == event[1]
           id == event[2]
           show == Shown(kind, id)
           save == Saved(id)
           begin == Signal("begin")
           flush == Signal("flush")
           complete == Signal("complete")
<1>1. id \in Nat /\ kind \in Kinds \cup Silent
  BY DEF Heard
<1> HIDE DEF kind, id
<1>2. /\ save \in Steps /\ begin \in Steps /\ flush \in Steps /\ complete \in Steps
      /\ save.does = "save" /\ begin.does = "begin" /\ flush.does = "flush"
      /\ complete.does = "complete"
      /\ OwedBy[save] = <<id>> /\ OwedBy[begin] = <<>> /\ OwedBy[flush] = <<>>
      /\ OwedBy[complete] = <<>>
  BY <1>1, StepIs
<1>3. ASSUME kind \in Kinds
      PROVE  /\ show \in Steps /\ show.does = "show" /\ show.kind \in Kinds
             /\ OwedBy[show] = <<>>
  BY <1>1, <1>3, StepIs
<1>4. kind \in Silent \/ kind \in Kinds
  BY <1>1
<1>5. ItemOf(event) = IF kind \in {"user", "message", "compaction"} THEN <<id>> ELSE <<>>
  BY DEF ItemOf, kind, id
<1>6. Projection(event) =
        CASE kind = "turn_start" -> <<begin, show>>
          [] kind = "turn_end" -> <<flush>>
          [] kind = "message" -> <<save, show>>
          [] kind = "user" -> <<save>>
          [] kind = "compaction" -> <<flush, save, show>>
          [] kind = "agent_end" -> <<complete>>
          [] OTHER -> <<show>>
  BY DEF Projection, kind, id
<1>8. <<id>> \in Seq(Nat) /\ <<>> \in Seq(Nat) /\ kind = event[1]
  BY <1>1 DEF kind
<1>7. /\ <<>> \o <<>> = <<>> /\ <<id>> \o <<>> = <<id>> /\ <<>> \o <<id>> = <<id>>
      /\ <<>> \o (<<id>> \o <<>>) = <<id>>
  BY ONLY <1>8, ConcatEmptySeq
<1> HIDE DEF show, save, begin, flush, complete
<1> DEFINE steps == Projection(event)
<1> HIDE DEF steps
<1>10. CASE kind = "turn_start"
  <2>1. steps = <<begin, show>> /\ kind \in Kinds
    BY <1>4, <1>6, <1>10 DEF Silent, steps
  <2>2. steps \in Seq(Steps) /\ steps # <<>> /\ Orderly(steps) /\ ~Completes(steps)
    BY <1>2, <1>3, <2>1 DEF Orderly, Completes
  <2>3. Owed(steps) = <<>>
    <3>1. Owed(steps) = OwedBy[begin] \o OwedBy[show]
      BY <1>2, <1>3, <2>1, OwedByFew
    <3> QED
      BY <1>2, <1>3, <1>7, <2>1, <3>1
  <2> QED
    BY <1>5, <1>8, <1>10, <2>2, <2>3 DEF Sound, steps
<1>11. CASE kind = "turn_end"
  <2>1. steps = <<flush>>
    BY <1>6, <1>11 DEF steps
  <2>2. steps \in Seq(Steps) /\ steps # <<>> /\ Orderly(steps) /\ ~Completes(steps)
    BY <1>2, <2>1 DEF Orderly, Completes
  <2>3. Owed(steps) = <<>>
    BY <1>2, <2>1, OwedByFew
  <2> QED
    BY <1>5, <1>8, <1>11, <2>2, <2>3 DEF Sound, steps
<1>12. CASE kind = "message"
  <2>1. steps = <<save, show>> /\ kind \in Kinds
    BY <1>4, <1>6, <1>12 DEF Silent, steps
  <2>2. steps \in Seq(Steps) /\ steps # <<>> /\ Orderly(steps) /\ ~Completes(steps)
    BY <1>2, <1>3, <2>1 DEF Orderly, Completes
  <2>3. Owed(steps) = <<id>>
    <3>1. Owed(steps) = OwedBy[save] \o OwedBy[show]
      BY <1>2, <1>3, <2>1, OwedByFew
    <3> QED
      BY <1>2, <1>3, <1>7, <2>1, <3>1
  <2> QED
    BY <1>5, <1>8, <1>12, <2>2, <2>3 DEF Sound, steps
<1>13. CASE kind = "user"
  <2>1. steps = <<save>>
    BY <1>6, <1>13 DEF steps
  <2>2. steps \in Seq(Steps) /\ steps # <<>> /\ Orderly(steps) /\ ~Completes(steps)
    BY <1>2, <2>1 DEF Orderly, Completes
  <2>3. Owed(steps) = <<id>>
    BY <1>2, <2>1, OwedByFew
  <2> QED
    BY <1>5, <1>8, <1>13, <2>2, <2>3 DEF Sound, steps
<1>14. CASE kind = "compaction"
  <2>1. steps = <<flush, save, show>> /\ kind \in Kinds
    BY <1>4, <1>6, <1>14 DEF Silent, steps
  <2>2. steps \in Seq(Steps) /\ steps # <<>> /\ Orderly(steps) /\ ~Completes(steps)
    BY <1>2, <1>3, <2>1 DEF Orderly, Completes
  <2>3. Owed(steps) = <<id>>
    <3>1. Owed(steps) = OwedBy[flush] \o (OwedBy[save] \o OwedBy[show])
      BY <1>2, <1>3, <2>1, OwedByFew
    <3> QED
      BY <1>2, <1>3, <1>7, <2>1, <3>1
  <2> QED
    BY <1>5, <1>8, <1>14, <2>2, <2>3 DEF Sound, steps
<1>15. CASE kind = "agent_end"
  <2>1. steps = <<complete>>
    BY <1>6, <1>15 DEF steps
  <2>2. steps \in Seq(Steps) /\ steps # <<>> /\ Orderly(steps) /\ Completes(steps)
    BY <1>2, <2>1 DEF Orderly, Completes
  <2>3. Owed(steps) = <<>>
    BY <1>2, <2>1, OwedByFew
  <2> QED
    BY <1>5, <1>8, <1>15, <2>2, <2>3 DEF Sound, steps
<1>16. CASE kind \notin {"turn_start", "turn_end", "message", "user", "compaction", "agent_end"}
  <2>1. steps = <<show>> /\ kind \in Kinds
    BY <1>4, <1>6, <1>16 DEF Silent, steps
  <2>2. steps \in Seq(Steps) /\ steps # <<>> /\ Orderly(steps) /\ ~Completes(steps)
    BY <1>2, <1>3, <2>1 DEF Orderly, Completes
  <2>3. Owed(steps) = <<>>
    BY <1>3, <2>1, OwedByFew
  <2> QED
    BY <1>5, <1>8, <1>16, <2>2, <2>3 DEF Sound, steps
<1> QED
  BY <1>10, <1>11, <1>12, <1>13, <1>14, <1>15, <1>16

(***************************************************************************)
(* The run loop.                                                            *)
(***************************************************************************)
Ahead == {"pull", "listen", "recheck", "parked", "select", "handle"}
Over == {"finish", "drop", "done"}
Places == {"started", "build", "flush"} \cup Ahead \cup Over

(* What the loop holds; it handles steps while there are some, and learns   *)
(* of the consumer's leaving only from the consumer.                        *)
Typed ==
  /\ sink \in Seq(Heard) /\ took \in Seq(Heard)
  /\ pending \in Seq(Steps) /\ Orderly(pending)
  /\ buffer \in Seq(Nat) /\ saved \in Seq(Nat)
  /\ position \in Nat \ {0} /\ (engine = "running" => position <= Len(Script))
  /\ pc \in Places /\ (pc = "handle" <=> pending # <<>>)
  /\ unseen \in BOOLEAN /\ receiverClosed \in BOOLEAN /\ (~unseen => receiverClosed)
  /\ pc \in {"started", "build"} =>
       /\ took = <<>> /\ buffer = <<>> /\ saved = <<>>
       /\ engine = "off" /\ position = 1

(* How far the queue may be over its budget, place by place. Only what a    *)
(* step shows, an error and the end of the run are sent without asking, and *)
(* a step that shows is its event's last.                                   *)
Bounded ==
  LET One == Header + Largest IN
  /\ pc = "started" => pendingBytes = 0
  /\ pc = "build" => pendingBytes <= One
  /\ pc \in Ahead \cup {"flush"} => pendingBytes <= MaxPendingBytes + One
  /\ pc \in {"select", "handle"} => receiverClosed \/ pendingBytes <= MaxPendingBytes
  /\ pc = "finish" => pendingBytes <= MaxPendingBytes + 2 * One
  /\ pc \in {"drop", "done"} => pendingBytes <= MaxPendingBytes + 3 * One

(* Until a write fails, what is saved, buffered and owed is what was said.  *)
Faithful ==
  /\ ~failed => (saved \o buffer) \o Owed(pending) = ItemsOf(took)
  /\ pc \in Over /\ ~failed => buffer = <<>>

(* The engine's last event is the last in the sink, and then in hand.       *)
NoEnd(queue) == \A i \in 1 .. Len(queue) : queue[i][1] # "agent_end"
EndsWell(queue) ==
  queue # <<>> /\ \A i \in 1 .. Len(queue) : queue[i][1] = "agent_end" <=> i = Len(queue)
Ending ==
  /\ engine = "off" => sink = <<>> /\ pc \in {"started", "build"} \cup Over
  /\ pc \in {"started", "build"} => ~sinkClosed
  /\ engine = "running" /\ ~failed =>
       NoEnd(sink) /\ ~Completes(pending) /\ ~sinkClosed /\ pc \in Ahead
  /\ engine \notin {"off", "running"} => engine = "ended"
  /\ engine = "ended" /\ ~failed =>
       \/ EndsWell(sink) /\ ~Completes(pending) /\ pc \in Ahead
       \/ sink = <<>> /\ Completes(pending) /\ pc = "handle"
       \/ sink = <<>> /\ pending = <<>> /\ pc \in {"flush"} \cup Over

(* What the script says.                                                    *)
LEMMA ScriptIs ==
  /\ Len(Script) \in Nat \ {0} /\ Closing \in 1 .. Len(Script)
  /\ \A i \in 1 .. Len(Script) :
       Script[i] \in Heard /\ (Script[i][1] = "agent_end" <=> i = Len(Script))
<1>1. Script \in Seq(Heard)
  BY ScriptEnds DEF Heard, Kinds
<1> QED
  BY <1>1, ScriptEnds

(* A running engine has an event to send.                                   *)
LEMMA PositionIs == Typed /\ engine = "running" => Position \in 1 .. Len(Script)
<1>1. Len(Script) \in Nat /\ Closing \in 1 .. Len(Script)
  BY ScriptIs
<1> QED
  BY <1>1 DEF Typed, Position

(* One step is done: what is left is orderly, and owes the rest.            *)
Left ==
  /\ pending' \in Seq(Steps) /\ Orderly(pending')
  /\ pc' \in {"pull", "handle"} /\ (pc' = "handle" <=> pending' # <<>>)
  /\ Head(pending) \in Steps
  /\ Head(pending).does \in {"show", "complete"} => pending' = <<>>
  /\ Head(pending).does = "show" => Head(pending).kind \in Kinds
  /\ Head(pending).does # "complete" => (Completes(pending) <=> Completes(pending'))
  /\ Owed(pending) = OwedBy[Head(pending)] \o Owed(pending')

(* Going on to the next step leaves it so.                                  *)
LEMMA NextPendingLeaves ==
  ASSUME Typed, pc = "handle", NextPending
  PROVE  Left
<1> DEFINE h == Head(pending)
           t == Tail(pending)
           n == Len(t)
<1>1. pending \in Seq(Steps) /\ pending # <<>> /\ Orderly(pending) /\ pending' = t
  BY DEF Typed, NextPending
<1>2. /\ h \in Steps /\ t \in Seq(Steps) /\ n \in Nat /\ Len(pending) = n + 1
      /\ h = pending[1] /\ \A i \in 1 .. n : t[i] = pending[i + 1]
  BY <1>1
<1>3. t = <<>> <=> n = 0
  BY <1>2
<1>4. pc' = IF Len(pending) = 1 THEN "pull" ELSE "handle"
  BY DEF NextPending, Goto
<1>5. Owed(pending) = OwedBy[h] \o Owed(t)
  BY <1>1, OwedIs
<1> HIDE DEF h, t, n
<1>6. \A i \in 1 .. n : i + 1 \in 1 .. n + 1 /\ (i + 1 = n + 1 <=> i = n)
  BY <1>2
<1>7. Orderly(t)
  <2>1. Len(t) = n
    BY DEF n
  <2> QED
    BY <1>1, <1>2, <1>6, <2>1 DEF Orderly
<1>8. h.does \in {"show", "complete"} => t = <<>>
  BY <1>1, <1>2, <1>3 DEF Orderly
<1>9. h.does = "show" => h.kind \in Kinds
  BY <1>1, <1>2 DEF Orderly
<1>10. ASSUME h.does # "complete" PROVE Completes(pending) <=> Completes(t)
  <2>1. Len(t) = n
    BY DEF n
  <2>2. Completes(t) => Completes(pending)
    BY <1>2, <1>6, <2>1 DEF Completes
  <2>3. ASSUME Completes(pending) PROVE Completes(t)
    <3>1. PICK i \in 1 .. n + 1 : pending[i].does = "complete"
      BY <1>2, <2>3 DEF Completes
    <3>2. i # 1 /\ i - 1 \in 1 .. n /\ (i - 1) + 1 = i
      BY <1>2, <1>10, <3>1
    <3> DEFINE j == i - 1
    <3>3. j \in 1 .. n /\ t[j] = pending[j + 1] /\ j + 1 = i
      BY <1>2, <3>2
    <3> HIDE DEF j
    <3>4. j \in 1 .. Len(t) /\ t[j].does = "complete"
      BY <2>1, <3>1, <3>3
    <3> QED
      BY <3>4 DEF Completes
  <2> QED
    BY <2>2, <2>3
<1>11. pc' \in {"pull", "handle"} /\ (pc' = "handle" <=> t # <<>>)
  BY <1>2, <1>3, <1>4
<1> QED
  BY <1>1, <1>2, <1>5, <1>7, <1>8, <1>9, <1>10, <1>11 DEF Left, h

(* The loop starts so.                                                      *)
LEMMA TypedInit == Init => Typed
<1> SUFFICES ASSUME Init PROVE Typed
  OBVIOUS
<1>1. /\ sink = <<>> /\ took = <<>> /\ pending = <<>> /\ buffer = <<>> /\ saved = <<>>
      /\ position = 1 /\ engine = "off" /\ pc = "started" /\ unseen = TRUE
      /\ receiverClosed = FALSE
  BY DEF Init, OutboxInit
<1>2. Orderly(<<>>)
  BY DEF Orderly
<1>3. <<>> \in Seq(Heard) /\ <<>> \in Seq(Steps) /\ <<>> \in Seq(Nat)
  OBVIOUS
<1>4. (engine = "running" => position <= Len(Script)) /\ position \in Nat \ {0}
  BY <1>1
<1>5. pc \in Places /\ (pc = "handle" <=> pending # <<>>)
  BY <1>1 DEF Places
<1>6. unseen \in BOOLEAN /\ receiverClosed \in BOOLEAN /\ (~unseen => receiverClosed)
  BY <1>1
<1> QED
  BY <1>1, <1>2, <1>3, <1>4, <1>5, <1>6 DEF Typed

(* Every step of a running loop keeps what it holds.                        *)
LEMMA TypedStep == Typed /\ [Next]_vars => Typed'
<1> SUFFICES ASSUME Typed, [Next]_vars PROVE Typed'
  OBVIOUS
<1> USE DEF engineVars, loopVars, outboxVars, Goto, Places, Ahead, Over
<1>0. Orderly(<<>>) /\ <<>> \in Seq(Steps) /\ <<>> \in Seq(Nat)
  BY DEF Orderly
<1>1. CASE EngineSends
  <2>1. engine = "running" /\ Position \in 1 .. Len(Script)
    BY <1>1, PositionIs DEF EngineSends
  <2>2. Script[Position] \in Heard /\ Len(Script) \in Nat
    BY <2>1, ScriptIs
  <2> DEFINE e == Script[Position]
             q == Position
  <2>3. sink' = Append(sink, e) \/ sink' = sink
    BY <1>1 DEF EngineSends, Enters
  <2>4. position' = q + 1 /\ engine' = IF q = Len(Script) THEN "ended" ELSE engine
    BY <1>1 DEF EngineSends
  <2> HIDE DEF e, q
  <2>5. sink' \in Seq(Heard)
    <3>1. e \in Heard /\ sink \in Seq(Heard)
      BY <2>2 DEF Typed, e
    <3> QED
      BY <2>3, <3>1
  <2>6. q \in 1 .. Len(Script)
    BY <2>1 DEF q
  <2>7. position' \in Nat \ {0} /\ (engine' = "running" => position' <= Len(Script))
    BY <2>2, <2>4, <2>6
  <2>8. UNCHANGED <<took, pending, buffer, saved, pc, unseen, receiverClosed>>
    BY <1>1 DEF EngineSends
  <2>9. pc \notin {"started", "build"}
    BY <2>1 DEF Typed
  <2> QED
    BY <2>5, <2>7, <2>8, <2>9 DEF Typed
<1>2. CASE EngineGivesUp
  BY <1>2 DEF EngineGivesUp, Typed
<1>3. CASE StartRun
  BY <1>3 DEF StartRun, Typed, SendIfOpen, Send, SendFails
<1>4. CASE BuildTurn
  <2>1. Len(Script) \in Nat \ {0}
    BY ScriptIs
  <2> QED
    BY <1>4, <2>1 DEF BuildTurn, Typed
<1>5. CASE SkipTurn
  BY <1>5 DEF SkipTurn, Typed
<1>6. CASE BuildFails
  BY <1>6 DEF BuildFails, Typed, SendIfOpen, Send, SendFails
<1>7. CASE Pull
  BY <1>7 DEF Pull, Typed
<1>8. CASE WaitForCapacity
  BY <1>8 DEF WaitForCapacity, Waits, Typed, Listen, StopListening
<1>9. CASE NoticeConsumer
  BY <1>9 DEF NoticeConsumer, Typed
<1>10. CASE TakeEvent
  <2>1. Head(sink) \in Heard /\ Tail(sink) \in Seq(Heard) /\ took' \in Seq(Heard)
    BY <1>10 DEF TakeEvent, Typed
  <2>2. Sound(pending', Head(sink))
    BY <1>10, <2>1, ProjectionIsSound DEF TakeEvent
  <2> QED
    BY <1>10, <2>1, <2>2 DEF TakeEvent, Typed, Sound
<1>11. CASE BeginTurn
  <2>1. Left
    BY <1>11, NextPendingLeaves DEF BeginTurn, Handles
  <2> QED
    BY <1>11, <2>1 DEF BeginTurn, Handles, Typed, Left
<1>12. CASE BufferItem
  <2>1. Left
    BY <1>12, NextPendingLeaves DEF BufferItem, Handles
  <2>2. Head(pending).id \in Nat
    BY <2>1 DEF Left, Steps
  <2>3. buffer' \in Seq(Nat)
    BY <1>12, <2>2 DEF BufferItem, Typed
  <2> QED
    BY <1>12, <2>1, <2>3 DEF BufferItem, Handles, Typed, Left
<1>13. CASE FlushTurn
  <2>1. Left
    BY <1>13, NextPendingLeaves DEF FlushTurn, Handles
  <2>2. saved' \in Seq(Nat) /\ buffer' = <<>>
    BY <1>13 DEF FlushTurn, Typed
  <2> QED
    BY <1>0, <1>13, <2>1, <2>2 DEF FlushTurn, Handles, Typed, Left
<1>14. CASE FlushFails
  BY <1>0, <1>14 DEF FlushFails, Handles, Typed, SendIfOpen, Send, SendFails
<1>15. CASE CompleteTurn
  BY <1>0, <1>15 DEF CompleteTurn, Handles, Typed
<1>16. CASE Show
  <2>1. Left
    BY <1>16, NextPendingLeaves DEF Show, Handles
  <2>2. /\ receiverClosed' = receiverClosed
        /\ unseen' \in BOOLEAN /\ (~unseen' => receiverClosed')
    <3>1. CASE UNCHANGED <<unseen, receiverClosed>>
      BY <3>1 DEF Typed
    <3>2. CASE SendFails /\ unseen' = FALSE
      BY <3>2 DEF SendFails, Typed
    <3> QED
      BY <1>16, <3>1, <3>2 DEF Show, Send
  <2> QED
    BY <1>16, <2>1, <2>2 DEF Show, Handles, Typed, Left
<1>17. CASE FinalFlush
  <2>1. saved' \in Seq(Nat) /\ buffer' = <<>>
    BY <1>17 DEF FinalFlush, Typed
  <2> QED
    BY <1>0, <1>17, <2>1 DEF FinalFlush, Typed
<1>18. CASE Finish
  BY <1>18 DEF Finish, Typed, SendIfOpen, Send, SendFails
<1>19. CASE DropSenderOfRun
  BY <1>19 DEF DropSenderOfRun, DropSender, Typed
<1>20. CASE Receive \/ Gone
  BY <1>20 DEF Receive, Gone, Consumes, Pop, NotifyDrained, TakePermit, DropReceiver, Typed
<1>21. CASE Abort \/ Leave
  BY <1>21 DEF Abort, Leave, Typed
<1>22. CASE UNCHANGED vars
  BY <1>22 DEF vars, Typed
<1> QED
  BY <1>1, <1>2, <1>3, <1>4, <1>5, <1>6, <1>7, <1>8, <1>9, <1>10, <1>11, <1>12, <1>13,
     <1>14, <1>15, <1>16, <1>17, <1>18, <1>19, <1>20, <1>21, <1>22 DEF Next

(***************************************************************************)
(* The budget.                                                              *)
(***************************************************************************)
One == Header + Largest

(* The account only looks at the queue and at what went in and out.         *)
LEMMA StaysExact ==
  ASSUME Exact, UNCHANGED <<events, pendingBytes, published, received>>
  PROVE  Exact' /\ pendingBytes' = pendingBytes
  BY DEF Exact, Contents, Parts, SumBytes

(* Sending to a consumer that may be gone keeps the account.                *)
LEMMA SendIfOpenIsExact ==
  ASSUME Exact, NEW kind \in Kinds, NEW id \in Nat, SendIfOpen(PublicEvent(kind, id))
  PROVE  Exact' /\ pendingBytes' <= pendingBytes + One /\ receiverClosed' = receiverClosed
<1>1. pendingBytes \in Nat /\ One \in Nat /\ Header \in Nat /\ Largest \in Nat
  BY PacketsAreCharged, LargestIs DEF Exact, One, Header
<1>2. CASE Send(PublicEvent(kind, id))
  <2>1. Exact' /\ pendingBytes' <= pendingBytes + Header + Largest
    BY <1>2, SendIsExact
  <2>2. pendingBytes' \in Nat
    <3>1. events' \in Seq(Packets) /\ pendingBytes' = SumBytes(events')
      BY <2>1 DEF Exact
    <3> QED
      BY <3>1, PacketsAreCharged
  <2>3. receiverClosed' = receiverClosed
    BY <1>2 DEF Send
  <2> QED
    BY <1>1, <2>1, <2>2, <2>3 DEF One
<1>3. CASE SendFails
  <2>1. UNCHANGED <<events, pendingBytes, published, received>>
    BY <1>3 DEF SendFails, outboxVars
  <2>2. Exact' /\ pendingBytes' = pendingBytes
    BY <2>1, StaysExact
  <2>3. receiverClosed' = receiverClosed
    BY <1>3 DEF SendFails, outboxVars
  <2> QED
    BY <1>1, <2>2, <2>3
<1> QED
  BY <1>2, <1>3 DEF SendIfOpen

(* The account starts at zero.                                              *)
LEMMA AccountInit == Init => Exact /\ Bounded
<1> SUFFICES ASSUME Init PROVE Exact /\ Bounded
  OBVIOUS
<1>1. /\ events = <<>> /\ pendingBytes = 0 /\ published = <<>> /\ received = <<>>
      /\ pc = "started"
  BY DEF Init, OutboxInit
<1>2. <<>> \in Seq(Packets) /\ <<>> \in Seq(Marks)
  OBVIOUS
<1>3. SumBytes(<<>>) = 0
  BY <1>2, PacketsAreCharged, SumType
<1>4. Contents(<<>>) = <<>>
  BY <1>2, ContentsType
<1>5. <<>> \o <<>> = <<>>
  BY <1>2, ConcatEmptySeq
<1>6. Exact
  BY <1>1, <1>2, <1>3, <1>4, <1>5 DEF Exact
<1>7. Bounded
  BY <1>1 DEF Bounded, Ahead
<1> QED
  BY <1>6, <1>7

(* Every step keeps it, and the queue's bound at every place.               *)
LEMMA AccountStep == Typed /\ Exact /\ Bounded /\ [Next]_vars => Exact' /\ Bounded'
<1> SUFFICES ASSUME Typed, Exact, Bounded, [Next]_vars PROVE Exact' /\ Bounded'
  OBVIOUS
<1> USE DEF engineVars, loopVars, outboxVars, Goto, Places, Ahead, Over
<1> DEFINE Budget == MaxPendingBytes
<1>0. /\ One \in Nat /\ Budget \in Nat /\ pendingBytes \in Nat
      /\ (Exact' => pendingBytes' \in Nat)
  <2>1. Budget \in Nat
    BY OutboxAssumption
  <2>2. One \in Nat
    BY LargestIs DEF One, Header
  <2>3. pendingBytes \in Nat
    BY PacketsAreCharged DEF Exact
  <2>4. ASSUME Exact' PROVE pendingBytes' \in Nat
    <3>1. events' \in Seq(Packets) /\ pendingBytes' = SumBytes(events')
      BY <2>4 DEF Exact
    <3> QED
      BY <3>1, PacketsAreCharged
  <2> QED
    BY <2>1, <2>2, <2>3, <2>4
<1>01. {"started", "error", "finished"} \subseteq Kinds /\ 0 \in Nat
  BY PayloadAssumption DEF Kinds
<1> DEFINE Bounds(place, bytes, closed) ==
      /\ place = "started" => bytes = 0
      /\ place = "build" => bytes <= One
      /\ place \in Ahead \cup {"flush"} => bytes <= Budget + One
      /\ place \in {"select", "handle"} => closed \/ bytes <= Budget
      /\ place = "finish" => bytes <= Budget + 2 * One
      /\ place \in {"drop", "done"} => bytes <= Budget + 3 * One
<1>02. Bounds(pc, pendingBytes, receiverClosed)
  BY DEF Bounded, One
<1>03. ASSUME Bounds(pc', pendingBytes', receiverClosed') PROVE Bounded'
  BY <1>03 DEF Bounded, One
<1>04. pc \in Places
  BY DEF Typed
<1>05. ASSUME UNCHANGED <<events, pendingBytes, published, received>>,
              receiverClosed => receiverClosed',
              \/ pc' = pc
              \/ pc = "build" /\ pc' \in {"pull", "finish"}
              \/ pc \in Ahead /\ pc' \in {"pull", "listen", "recheck", "parked", "flush"}
              \/ pc = "flush" /\ pc' = "finish"
              \/ pc = "drop" /\ pc' = "done"
              \/ pc \in Ahead /\ pc' \in {"select", "handle"} /\
                   (receiverClosed \/ pendingBytes <= Budget)
       PROVE  Exact' /\ Bounded'
  <2>1. Exact' /\ pendingBytes' = pendingBytes
    BY <1>05, StaysExact
  <2>2. Bounds(pc', pendingBytes', receiverClosed')
    BY <1>0, <1>02, <1>05, <2>1
  <2> QED
    BY <1>03, <2>1, <2>2
<1>06. ASSUME Exact', pendingBytes' <= pendingBytes + One, receiverClosed' = receiverClosed,
              \/ pc = "started" /\ pc' = "build"
              \/ pc \in {"build", "handle", "flush"} /\ pc' = "finish"
              \/ pc = "finish" /\ pc' = "drop"
       PROVE  Exact' /\ Bounded'
  <2>1. pendingBytes' \in Nat
    BY <1>0, <1>06
  <2>2. Bounds(pc', pendingBytes', receiverClosed')
    BY <1>0, <1>02, <1>06, <2>1
  <2> QED
    BY <1>03, <1>06, <2>2
<1>1. CASE EngineSends \/ EngineGivesUp
  BY <1>05, <1>1 DEF EngineSends, EngineGivesUp
<1>2. CASE StartRun
  BY <1>01, <1>06, <1>2, SendIfOpenIsExact DEF StartRun
<1>3. CASE BuildTurn \/ SkipTurn
  BY <1>05, <1>3 DEF BuildTurn, SkipTurn
<1>4. CASE BuildFails
  BY <1>01, <1>06, <1>4, SendIfOpenIsExact DEF BuildFails
<1>5. CASE Pull
  <2>1. ~MustWait => receiverClosed \/ pendingBytes <= Budget
    BY <1>0 DEF MustWait, OverBudget, Typed
  <2> QED
    BY <1>05, <1>5, <2>1 DEF Pull
<1>6. CASE WaitForCapacity
  <2>1. HasCapacity => receiverClosed \/ pendingBytes <= Budget
    BY <1>0 DEF HasCapacity, OverBudget
  <2> QED
    BY <1>05, <1>6, <2>1 DEF WaitForCapacity, Waits, Listen, StopListening
<1>7. CASE NoticeConsumer
  BY <1>05, <1>7 DEF NoticeConsumer
<1>8. CASE TakeEvent
  BY <1>02, <1>05, <1>8 DEF TakeEvent
<1>9. CASE BeginTurn \/ BufferItem \/ FlushTurn
  <2>1. pc = "handle" /\ NextPending
    BY <1>9 DEF BeginTurn, BufferItem, FlushTurn, Handles
  <2>2. pc' \in {"pull", "handle"}
    BY <2>1, NextPendingLeaves DEF Left
  <2>3. UNCHANGED <<events, pendingBytes, published, received, receiverClosed>>
    BY <1>9 DEF BeginTurn, BufferItem, FlushTurn
  <2> QED
    BY <1>02, <1>05, <2>1, <2>2, <2>3
<1>10. CASE FlushFails
  BY <1>01, <1>06, <1>10, SendIfOpenIsExact DEF FlushFails, Handles
<1>11. CASE CompleteTurn
  BY <1>05, <1>11 DEF CompleteTurn, Handles
<1>12. CASE Show
  <2>1. Left /\ pc = "handle" /\ Head(pending).does = "show"
    BY <1>12, NextPendingLeaves DEF Show, Handles
  <2>2. /\ pc' = "pull" /\ Head(pending).kind \in Kinds /\ Head(pending).id \in Nat
    BY <2>1 DEF Left, Steps
  <2> DEFINE k == Head(pending).kind
             id == Head(pending).id
  <2>3. CASE UNCHANGED <<events, pendingBytes, published, received, receiverClosed>>
    BY <1>05, <2>1, <2>2, <2>3
  <2>4. CASE Send(PublicEvent(k, id))
    <3>1. Exact' /\ pendingBytes' <= pendingBytes + One /\ receiverClosed' = receiverClosed
      BY <2>2, <2>4, SendIfOpenIsExact DEF SendIfOpen
    <3>2. ~receiverClosed /\ pendingBytes' \in Nat
      BY <1>0, <2>4, <3>1 DEF Send
    <3>3. pendingBytes <= Budget
      BY <1>02, <2>1, <3>2
    <3>4. pendingBytes' <= Budget + One
      BY <1>0, <3>1, <3>2, <3>3
    <3>5. Bounds(pc', pendingBytes', receiverClosed')
      BY <2>2, <3>4
    <3> QED
      BY <1>03, <3>1, <3>5
  <2>5. \/ Send(PublicEvent(k, id))
        \/ UNCHANGED <<events, pendingBytes, published, received, receiverClosed>>
    BY <1>12 DEF Show, SendFails
  <2> QED
    BY <2>3, <2>4, <2>5
<1>13. CASE FinalFlush
  BY <1>05, <1>13 DEF FinalFlush
<1>14. CASE Finish
  BY <1>01, <1>06, <1>14, SendIfOpenIsExact DEF Finish
<1>15. CASE DropSenderOfRun
  BY <1>05, <1>15 DEF DropSenderOfRun, DropSender
<1>16. CASE Receive
  <2>1. pc' = pc
    BY <1>16 DEF Receive, Consumes
  <2>2. CASE Pop
    <3>1. Exact' /\ pendingBytes' <= pendingBytes /\ receiverClosed' = receiverClosed
      BY <2>2, PopIsExact DEF Pop
    <3>2. pendingBytes' \in Nat
      BY <1>0, <3>1
    <3>3. Bounds(pc', pendingBytes', receiverClosed')
      BY <1>0, <1>02, <2>1, <3>1, <3>2
    <3> QED
      BY <1>03, <3>1, <3>3
  <2>3. CASE UNCHANGED <<events, pendingBytes, published, received, receiverClosed>>
    BY <1>05, <2>1, <2>3
  <2> QED
    BY <1>16, <2>2, <2>3 DEF Receive, Consumes, NotifyDrained, TakePermit
<1>17. CASE Abort \/ Leave
  BY <1>05, <1>17 DEF Abort, Leave
<1>18. CASE Gone
  BY <1>05, <1>18 DEF Gone, Consumes, DropReceiver
<1>19. CASE UNCHANGED vars
  BY <1>05, <1>19 DEF vars
<1> QED
  BY <1>1, <1>2, <1>3, <1>4, <1>5, <1>6, <1>7, <1>8, <1>9, <1>10, <1>11, <1>12, <1>13,
     <1>14, <1>15, <1>16, <1>17, <1>18, <1>19 DEF Next

(* The account is exact in every state, and the queue exceeds its budget by *)
(* no more than the event in hand, the error and the end of the run         *)
(* (outbox.rs:139).                                                         *)
THEOREM BudgetIsKeptAlways == Spec => []BudgetIsKept
<1> DEFINE Inv == Typed /\ Exact /\ Bounded
<1>1. Init => Inv
  BY TypedInit, AccountInit
<1>2. Inv /\ [Next]_vars => Inv'
  BY TypedStep, AccountStep
<1>3. Inv => BudgetIsKept
  <2> SUFFICES ASSUME Inv PROVE BudgetIsKept
    OBVIOUS
  <2>1. One \in Nat /\ MaxPendingBytes \in Nat /\ pendingBytes \in Nat
    BY OutboxAssumption, LargestIs, PacketsAreCharged DEF One, Header, Exact
  <2>2. pc \in Places
    BY DEF Typed
  <2>3. pendingBytes <= MaxPendingBytes + 3 * One
    BY <2>1, <2>2 DEF Bounded, One, Places, Ahead, Over
  <2> QED
    BY <2>3 DEF BudgetIsKept, Exact, One
<1> HIDE DEF Inv
<1> QED
  BY <1>1, <1>2, <1>3, PTL DEF Spec

(***************************************************************************)
(* The transcript.                                                          *)
(***************************************************************************)
ItemBy == [event \in Heard |-> ItemOf(event)]

(* What was said is what each event says, flattened.                        *)
LEMMA ItemsIs ==
  /\ ItemBy \in [Heard -> Seq(Nat)]
  /\ \A history \in Seq(Heard) : ItemsOf(history) = FlattenSeq(Mapped(history, ItemBy))
<1>1. ASSUME NEW event \in Heard PROVE ItemOf(event) \in Seq(Nat)
  <2>1. event[2] \in Nat
    BY DEF Heard
  <2> QED
    BY <2>1 DEF ItemOf
<1>2. ItemBy \in [Heard -> Seq(Nat)]
  BY <1>1 DEF ItemBy
<1>3. ASSUME NEW history \in Seq(Heard)
      PROVE  ItemsOf(history) = FlattenSeq(Mapped(history, ItemBy))
  <2>1. \A i \in DOMAIN history : ItemBy[history[i]] = ItemOf(history[i])
    BY DEF ItemBy
  <2>2. [i \in DOMAIN history |-> ItemOf(history[i])] = Mapped(history, ItemBy)
    BY <2>1 DEF Mapped
  <2> QED
    BY <2>2 DEF ItemsOf
<1> QED
  BY <1>2, <1>3

(* One event more says its item more.                                       *)
LEMMA ItemsAppend ==
  ASSUME NEW history \in Seq(Heard), NEW event \in Heard
  PROVE  ItemsOf(Append(history, event)) = ItemsOf(history) \o ItemOf(event)
<1>1. ItemBy[event] = ItemOf(event) /\ Append(history, event) \in Seq(Heard)
  BY DEF ItemBy
<1> QED
  BY <1>1, ItemsIs, MappedAppend

(* Nothing is saved and nothing said.                                       *)
LEMMA FaithfulInit == Init => Faithful
<1> SUFFICES ASSUME Init PROVE Faithful
  OBVIOUS
<1>1. /\ took = <<>> /\ pending = <<>> /\ buffer = <<>> /\ saved = <<>> /\ pc = "started"
  BY DEF Init
<1>2. <<>> \in Seq(Heard) /\ <<>> \in Seq(Steps) /\ <<>> \in Seq(Nat)
  OBVIOUS
<1>3. ItemsOf(<<>>) = <<>> /\ Owed(<<>>) = <<>>
  <2> DEFINE none == <<>>
  <2>1. none \in Seq(Heard) /\ none \in Seq(Steps)
    BY <1>2
  <2> HIDE DEF none
  <2>2. ItemsOf(none) = FlattenSeq(Mapped(none, ItemBy))
    BY <2>1, ItemsIs
  <2>3. none = <<>> => FlattenSeq(Mapped(none, ItemBy)) = <<>>
    <3>1. ItemBy \in [Heard -> Seq(Nat)]
      BY ItemsIs
    <3> QED
      BY ONLY <2>1, <3>1, MappedType
  <2>4. none = <<>> => Owed(none) = <<>>
    BY <2>1, OwedIs
  <2> QED
    BY <2>2, <2>3, <2>4 DEF none
<1>4. (<<>> \o <<>>) \o <<>> = <<>>
  BY ONLY <1>2, ConcatEmptySeq
<1> QED
  BY <1>1, <1>3, <1>4 DEF Faithful, Over

(* Every step keeps what is saved, buffered and owed.                       *)
LEMMA FaithfulStep == Typed /\ Faithful /\ [Next]_vars => Faithful'
<1> SUFFICES ASSUME Typed, Faithful, [Next]_vars PROVE Faithful'
  OBVIOUS
<1> USE DEF engineVars, loopVars, outboxVars, Goto, Places, Ahead, Over
<1> DEFINE owed == Owed(pending)
<1>0. /\ owed \in Seq(Nat) /\ saved \in Seq(Nat) /\ buffer \in Seq(Nat)
      /\ (pending = <<>> => owed = <<>>) /\ <<>> \in Seq(Nat)
  BY OwedIs DEF Typed
<1>01. \A s \in Seq(Nat) : s \o <<>> = s /\ <<>> \o s = s
  BY ConcatEmptySeq
<1>02. /\ ~failed => (saved \o buffer) \o owed = ItemsOf(took)
       /\ pc \in Over /\ ~failed => buffer = <<>>
  BY DEF Faithful
<1>03. ASSUME UNCHANGED <<failed, saved, buffer, pending, took>>,
              pc' \in Over => pc \in Over \/ buffer = <<>>
       PROVE  Faithful'
  BY <1>02, <1>03 DEF Faithful
<1>04. ASSUME Left, pc = "handle", UNCHANGED <<failed, saved, buffer, took>>,
              Head(pending).does # "save"
       PROVE  Faithful'
  <2> DEFINE rest == Owed(pending')
  <2>1. OwedBy[Head(pending)] = <<>>
    BY <1>04 DEF OwedBy, Left
  <2>2. rest \in Seq(Nat) /\ owed = <<>> \o rest
    BY <1>04, <2>1, OwedIs DEF Left
  <2> HIDE DEF rest
  <2>3. owed = rest
    BY <1>01, <2>2
  <2>4. pc' \notin Over
    BY <1>04 DEF Left
  <2> QED
    BY <1>02, <1>04, <2>3, <2>4 DEF Faithful, rest
<1>1. CASE EngineSends \/ EngineGivesUp
  BY <1>03, <1>1 DEF EngineSends, EngineGivesUp
<1>2. CASE StartRun \/ BuildTurn \/ SkipTurn \/ BuildFails
  <2>1. buffer = <<>>
    BY <1>2 DEF StartRun, BuildTurn, SkipTurn, BuildFails, Typed
  <2> QED
    BY <1>03, <1>2, <2>1 DEF StartRun, BuildTurn, SkipTurn, BuildFails
<1>3. CASE Pull \/ WaitForCapacity \/ NoticeConsumer
  BY <1>03, <1>3 DEF Pull, WaitForCapacity, Waits, NoticeConsumer
<1>4. CASE TakeEvent
  <2> DEFINE e == Head(sink)
  <2>1. /\ e \in Heard /\ took \in Seq(Heard) /\ pending = <<>>
        /\ took' = Append(took, e) /\ pending' = Projection(e) /\ pc' = "handle"
        /\ UNCHANGED <<failed, saved, buffer>>
    BY <1>4 DEF TakeEvent, Typed
  <2> HIDE DEF e
  <2>2. Owed(pending') = ItemOf(e)
    BY <2>1, ProjectionIsSound DEF Sound
  <2>3. ItemsOf(took') = ItemsOf(took) \o ItemOf(e)
    BY <2>1, ItemsAppend
  <2>4. (saved \o buffer) \o owed = saved \o buffer
    <3>1. saved \o buffer \in Seq(Nat) /\ owed = <<>>
      BY <1>0, <2>1
    <3> QED
      BY <1>01, <3>1
  <2> QED
    BY <1>02, <2>1, <2>2, <2>3, <2>4 DEF Faithful
<1>5. CASE BeginTurn
  <2>1. Left
    BY <1>5, NextPendingLeaves DEF BeginTurn, Handles
  <2> QED
    BY <1>04, <1>5, <2>1 DEF BeginTurn, Handles
<1>6. CASE BufferItem
  <2>1. Left
    BY <1>6, NextPendingLeaves DEF BufferItem, Handles
  <2> DEFINE rest == Owed(pending')
             id == Head(pending).id
             item == <<id>>
  <2>2. id \in Nat /\ OwedBy[Head(pending)] = item
    BY <1>6, <2>1 DEF BufferItem, Handles, OwedBy, Left, Steps
  <2>3. rest \in Seq(Nat) /\ owed = item \o rest /\ item \in Seq(Nat)
    BY <2>1, <2>2, OwedIs DEF Left
  <2>4. buffer' = Append(buffer, id) /\ UNCHANGED <<failed, saved, took>> /\ pc' \notin Over
    BY <1>6, <2>1 DEF BufferItem, Left
  <2>5. buffer' = buffer \o item
    BY <1>0, <2>2, <2>4, AppendIsConcat
  <2> HIDE DEF item, rest
  <2>6. (saved \o (buffer \o item)) \o rest = (saved \o buffer) \o (item \o rest)
    <3> DEFINE sb == saved \o buffer
    <3>1. sb \in Seq(Nat)
      BY <1>0
    <3>2. saved \in Seq(Nat) /\ buffer \in Seq(Nat) /\ item \in Seq(Nat) /\ rest \in Seq(Nat)
      BY <1>0, <2>3
    <3> HIDE DEF sb
    <3> DEFINE N == Nat
    <3>5. sb \in Seq(N) /\ item \in Seq(N) /\ rest \in Seq(N)
      BY <3>1, <3>2
    <3>6. saved \in Seq(N) /\ buffer \in Seq(N) /\ item \in Seq(N)
      BY <3>2
    <3> HIDE DEF N
    <3>3. (sb \o item) \o rest = sb \o (item \o rest)
      BY ONLY <3>5, Regroup
    <3>4. (saved \o buffer) \o item = saved \o (buffer \o item)
      BY ONLY <3>6, Regroup
    <3> QED
      BY <3>3, <3>4 DEF sb
  <2> QED
    BY <1>02, <2>3, <2>4, <2>5, <2>6 DEF Faithful, rest
<1>7. CASE FlushTurn
  <2>1. Left
    BY <1>7, NextPendingLeaves DEF FlushTurn, Handles
  <2> DEFINE rest == Owed(pending')
             sb == saved \o buffer
  <2>2. OwedBy[Head(pending)] = <<>>
    BY <1>7, <2>1 DEF FlushTurn, Handles, OwedBy, Left
  <2>3. rest \in Seq(Nat) /\ owed = <<>> \o rest /\ sb \in Seq(Nat)
    BY <1>0, <2>1, <2>2, OwedIs DEF Left
  <2>4. saved' = sb /\ buffer' = <<>> /\ UNCHANGED <<failed, took>> /\ pc' \notin Over
    BY <1>7, <2>1 DEF FlushTurn, Left
  <2>5. ~failed => sb \o owed = ItemsOf(took)
    BY <1>02
  <2> HIDE DEF rest, sb
  <2>6. owed = rest /\ sb \o <<>> = sb
    BY <1>01, <2>3
  <2>7. (saved' \o buffer') \o Owed(pending') = sb \o rest
    BY <2>4, <2>6 DEF rest
  <2> QED
    BY <2>4, <2>5, <2>6, <2>7 DEF Faithful
<1>8. CASE FlushFails
  BY <1>8 DEF FlushFails, Faithful
<1>9. CASE CompleteTurn
  <2>1. pending \in Seq(Steps) /\ pending # <<>> /\ Head(pending).does = "complete"
    BY <1>9 DEF CompleteTurn, Handles, Typed
  <2>2. Head(pending) = pending[1] /\ 1 \in 1 .. Len(pending)
    BY <2>1
  <2>3. Len(pending) = 1
    BY <2>1, <2>2 DEF Typed, Orderly
  <2>4. Tail(pending) = <<>> /\ Head(pending) \in Steps
    <3> DEFINE t == Tail(pending)
    <3>1. t \in Seq(Steps) /\ Len(t) = 0 /\ Head(pending) \in Steps
      BY <2>1, <2>3
    <3> HIDE DEF t
    <3>2. t = <<>>
      BY ONLY <3>1, EmptySeq
    <3> QED
      BY <3>1, <3>2 DEF t
  <2>5. OwedBy[Head(pending)] = <<>>
    BY <2>1, <2>4 DEF OwedBy
  <2>6. Owed(<<>>) = <<>>
    <3>1. <<>> \in Seq(Steps)
      OBVIOUS
    <3> QED
      BY <3>1, OwedIs
  <2>7. <<>> \o <<>> = <<>>
    BY ONLY <1>0, ConcatEmptySeq
  <2>8. owed = <<>>
    BY <2>1, <2>4, <2>5, <2>6, <2>7, OwedIs
  <2>9. pending' = <<>> /\ UNCHANGED <<failed, saved, buffer, took>> /\ pc' = "flush"
    BY <1>9 DEF CompleteTurn
  <2> QED
    BY <1>02, <2>6, <2>8, <2>9 DEF Faithful
<1>10. CASE Show
  <2>1. Left
    BY <1>10, NextPendingLeaves DEF Show, Handles
  <2> QED
    BY <1>04, <1>10, <2>1 DEF Show, Handles
<1>11. CASE FinalFlush
  <2> DEFINE sb == saved \o buffer
  <2>1. saved' = sb /\ buffer' = <<>> /\ UNCHANGED <<failed, took, pending>>
    BY <1>11 DEF FinalFlush
  <2>2. pending = <<>> /\ sb \in Seq(Nat)
    BY <1>0, <1>11 DEF FinalFlush, Typed
  <2>3. (~failed => sb \o owed = ItemsOf(took)) /\ owed = <<>>
    BY <1>0, <1>02, <2>2
  <2> HIDE DEF sb
  <2>4. sb \o <<>> = sb
    BY <1>01, <2>2
  <2>5. (saved' \o buffer') \o Owed(pending') = sb \o owed
    BY <2>1, <2>3, <2>4
  <2> QED
    BY <2>1, <2>3, <2>5 DEF Faithful
<1>12. CASE Finish \/ DropSenderOfRun
  BY <1>03, <1>12 DEF Finish, DropSenderOfRun
<1>13. CASE Receive \/ Abort \/ Leave \/ Gone
  BY <1>03, <1>13 DEF Receive, Consumes, Abort, Leave, Gone
<1>14. CASE UNCHANGED vars
  BY <1>03, <1>14 DEF vars
<1> QED
  BY <1>1, <1>2, <1>3, <1>4, <1>5, <1>6, <1>7, <1>8, <1>9, <1>10, <1>11, <1>12, <1>13,
     <1>14 DEF Next

(* Nothing has been sent.                                                   *)
LEMMA EndingInit == Init => Ending
  BY DEF Init, Ending

(* Every step keeps the engine's last event last.                           *)
LEMMA EndingStep == Typed /\ Ending /\ [Next]_vars => Ending'
<1> SUFFICES ASSUME Typed, Ending, [Next]_vars PROVE Ending'
  OBVIOUS
<1> USE DEF engineVars, loopVars, outboxVars, Goto, Places, Ahead, Over
<1>0. ~Completes(<<>>) /\ NoEnd(<<>>)
  BY DEF Completes, NoEnd
<1>01. ASSUME UNCHANGED <<engine, sink, pending, sinkClosed, failed>>,
              \/ pc' = pc
              \/ pc \in {"started", "build"} /\ pc' \in {"build", "finish"}
              \/ pc \in {"pull", "listen", "recheck", "parked", "select"} /\
                   pc' \in {"pull", "listen", "recheck", "parked", "select"}
              \/ pc \in Over /\ pc' \in Over
       PROVE  Ending'
  BY <1>01 DEF Ending, Typed
<1>02. ASSUME Left, pc = "handle", UNCHANGED <<engine, sink, sinkClosed, failed>>,
              Head(pending).does # "complete"
       PROVE  Ending'
  <2>1. Completes(pending) <=> Completes(pending')
    BY <1>02 DEF Left
  <2>2. Completes(pending') => pc' = "handle"
    BY <1>0, <1>02 DEF Left
  <2>3. pending # <<>> /\ pc' \in Ahead
    BY <1>02 DEF Typed, Left
  <2> QED
    BY <1>02, <2>1, <2>2, <2>3 DEF Ending
<1>1. CASE EngineSends
  <2> DEFINE e == Script[Position]
             n == Len(sink)
             last == Len(Script)
             q == Position
  <2>1. engine = "running" /\ q \in 1 .. last /\ ~sinkClosed
    BY <1>1, PositionIs DEF EngineSends
  <2>2. last \in Nat /\ (e[1] = "agent_end" <=> q = last)
    BY <2>1, ScriptIs
  <2>3. sink \in Seq(Heard) /\ n \in Nat
    BY DEF Typed
  <2>4. /\ engine' = IF q = last THEN "ended" ELSE engine
        /\ UNCHANGED <<pc, pending, failed, sinkClosed>>
    BY <1>1 DEF EngineSends
  <2>5. /\ e \in Heard
        /\ \/ sink' = Append(sink, e)
           \/ e[1] # "agent_end" /\ sink' = sink
    BY <1>1, <2>1, ScriptIs DEF EngineSends, Enters
  <2> HIDE DEF e, q, last
  <2>6. CASE failed
    BY <2>1, <2>4, <2>6 DEF Ending
  <2>7. CASE ~failed
    <3>1. NoEnd(sink) /\ ~Completes(pending) /\ pc \in Ahead
      BY <2>1, <2>7 DEF Ending
    <3>2. CASE sink' = Append(sink, e)
      <4>1. /\ sink' \in Seq(Heard) /\ Len(sink') = n + 1 /\ sink'[n + 1] = e
            /\ \A i \in 1 .. n : sink'[i] = sink[i]
        BY <2>3, <2>5, <3>2
      <4> HIDE DEF n
      <4>2. \A i \in 1 .. n : sink'[i][1] # "agent_end"
        BY <3>1, <4>1 DEF NoEnd, n
      <4>3. CASE q = last
        <5>1. sink' # <<>> /\ \A i \in 1 .. n + 1 : sink'[i][1] = "agent_end" <=> i = n + 1
          BY <2>2, <2>3, <4>1, <4>2, <4>3
        <5>2. EndsWell(sink')
          BY <4>1, <5>1 DEF EndsWell
        <5> QED
          BY <2>4, <3>1, <4>3, <5>2 DEF Ending
      <4>4. CASE q # last
        <5>1. \A i \in 1 .. n + 1 : sink'[i][1] # "agent_end"
          BY <2>2, <2>3, <4>1, <4>2, <4>4
        <5>2. NoEnd(sink')
          BY <4>1, <5>1 DEF NoEnd
        <5> QED
          BY <2>1, <2>4, <3>1, <4>4, <5>2 DEF Ending
      <4> QED
        BY <4>3, <4>4
    <3>3. CASE e[1] # "agent_end" /\ sink' = sink
      BY <2>1, <2>2, <2>4, <3>1, <3>3 DEF Ending
    <3> QED
      BY <2>5, <3>2, <3>3
  <2> QED
    BY <2>6, <2>7
<1>2. CASE EngineGivesUp
  BY <1>2 DEF EngineGivesUp, Ending
<1>3. CASE StartRun \/ SkipTurn \/ BuildFails
  BY <1>01, <1>3 DEF StartRun, SkipTurn, BuildFails
<1>4. CASE BuildTurn
  <2>1. sink = <<>> /\ pending = <<>> /\ pc' = "pull" /\ engine' = "running"
    BY <1>4 DEF BuildTurn, Ending, Typed
  <2>2. UNCHANGED <<sink, pending, failed, sinkClosed>>
    BY <1>4 DEF BuildTurn
  <2>3. ~failed => ~sinkClosed
    BY <1>4 DEF BuildTurn, Ending
  <2> QED
    BY <1>0, <2>1, <2>2, <2>3 DEF Ending
<1>5. CASE Pull \/ WaitForCapacity \/ NoticeConsumer
  BY <1>01, <1>5 DEF Pull, WaitForCapacity, Waits, NoticeConsumer
<1>6. CASE TakeEvent
  <2> DEFINE e == Head(sink)
             t == Tail(sink)
             n == Len(t)
             steps == Projection(e)
  <2>1. /\ sink \in Seq(Heard) /\ sink # <<>> /\ pc = "select" /\ pc' = "handle"
        /\ sink' = t /\ pending' = steps /\ UNCHANGED <<engine, failed, sinkClosed>>
    BY <1>6 DEF TakeEvent, Typed
  <2>2. /\ e \in Heard /\ t \in Seq(Heard) /\ n \in Nat /\ Len(sink) = n + 1
        /\ e = sink[1] /\ \A i \in 1 .. n : t[i] = sink[i + 1]
    BY <2>1
  <2>3. t = <<>> <=> n = 0
    <3> HIDE DEF t
    <3>1. t \in Seq(Heard) /\ n = Len(t)
      BY <2>2
    <3> QED
      BY ONLY <3>1, EmptySeq
  <2> HIDE DEF steps
  <2>4. Completes(steps) <=> e[1] = "agent_end"
    BY <2>2, ProjectionIsSound DEF Sound, steps
  <2> HIDE DEF e, t
  <2>5. CASE engine = "running" /\ ~failed
    <3>1. NoEnd(sink) /\ ~sinkClosed
      BY <2>5 DEF Ending
    <3>2. e[1] # "agent_end"
      BY <2>2, <3>1 DEF NoEnd
    <3>3. \A i \in 1 .. n : t[i][1] # "agent_end"
      <4> SUFFICES ASSUME NEW i \in 1 .. n PROVE t[i][1] # "agent_end"
        OBVIOUS
      <4>1. i + 1 \in 1 .. Len(sink) /\ t[i] = sink[i + 1]
        BY <2>2
      <4> QED
        BY <3>1, <4>1 DEF NoEnd
    <3>4. NoEnd(t)
      BY <3>3 DEF NoEnd
    <3> QED
      BY <2>1, <2>4, <2>5, <3>1, <3>2, <3>4 DEF Ending
  <2>6. CASE engine = "ended" /\ ~failed
    <3>1. EndsWell(sink)
      BY <2>1, <2>6 DEF Ending
    <3>2. CASE n = 0
      <4>1. e[1] = "agent_end"
        BY <2>2, <3>1, <3>2 DEF EndsWell
      <4> QED
        BY <2>1, <2>3, <2>4, <2>6, <3>2, <4>1 DEF Ending
    <3>3. CASE n # 0
      <4>1. e[1] # "agent_end"
        BY <2>2, <3>1, <3>3 DEF EndsWell
      <4>2. \A i \in 1 .. n : t[i][1] = "agent_end" <=> i = n
        <5> SUFFICES ASSUME NEW i \in 1 .. n PROVE t[i][1] = "agent_end" <=> i = n
          OBVIOUS
        <5>1. i + 1 \in 1 .. Len(sink) /\ t[i] = sink[i + 1]
          BY <2>2
        <5>2. sink[i + 1][1] = "agent_end" <=> i + 1 = Len(sink)
          BY <3>1, <5>1 DEF EndsWell
        <5> QED
          BY <2>2, <5>1, <5>2
      <4>3. EndsWell(t)
        BY <2>3, <3>3, <4>2 DEF EndsWell
      <4> QED
        BY <2>1, <2>4, <2>6, <4>1, <4>3 DEF Ending
    <3> QED
      BY <3>2, <3>3
  <2>7. CASE failed \/ engine \notin {"running", "ended"}
    BY <2>1, <2>7 DEF Ending
  <2> QED
    BY <2>5, <2>6, <2>7
<1>7. CASE BeginTurn \/ BufferItem \/ FlushTurn
  <2>1. Left
    BY <1>7, NextPendingLeaves DEF BeginTurn, BufferItem, FlushTurn, Handles
  <2> QED
    BY <1>02, <1>7, <2>1 DEF BeginTurn, BufferItem, FlushTurn, Handles
<1>8. CASE FlushFails
  BY <1>8 DEF FlushFails, Ending, Handles, Typed
<1>9. CASE CompleteTurn
  <2>1. pending \in Seq(Steps) /\ pending # <<>> /\ Head(pending).does = "complete"
    BY <1>9 DEF CompleteTurn, Handles, Typed
  <2>2. Head(pending) = pending[1] /\ 1 \in 1 .. Len(pending)
    BY <2>1
  <2>3. Completes(pending)
    BY <2>1, <2>2 DEF Completes
  <2>4. /\ pending' = <<>> /\ pc = "handle" /\ pc' = "flush"
        /\ UNCHANGED <<engine, sink, failed, sinkClosed>>
    BY <1>9 DEF CompleteTurn, Handles
  <2> QED
    BY <2>3, <2>4 DEF Ending
<1>10. CASE Show
  <2>1. Left
    BY <1>10, NextPendingLeaves DEF Show, Handles
  <2> QED
    BY <1>02, <1>10, <2>1 DEF Show, Handles
<1>11. CASE FinalFlush
  <2>1. /\ pc = "flush" /\ pc' = "finish" /\ pending' = pending
        /\ UNCHANGED <<engine, sink, failed>>
    BY <1>11 DEF FinalFlush
  <2> QED
    BY <2>1 DEF Ending
<1>12. CASE Finish \/ DropSenderOfRun
  BY <1>01, <1>12 DEF Finish, DropSenderOfRun
<1>13. CASE Receive \/ Abort \/ Leave \/ Gone
  BY <1>01, <1>13 DEF Receive, Consumes, Abort, Leave, Gone
<1>14. CASE UNCHANGED vars
  BY <1>01, <1>14 DEF vars
<1> QED
  BY <1>1, <1>2, <1>3, <1>4, <1>5, <1>6, <1>7, <1>8, <1>9, <1>10, <1>11, <1>12, <1>13,
     <1>14 DEF Next

(* What was received and what waits is what was published, and when a run   *)
(* ends, all its engine said is in the transcript, in its order, whoever    *)
(* listened (outbox.rs:118, runtime.rs:446).                                *)
THEOREM ContentIsConservedAlways == Spec => []ContentIsConserved
<1> DEFINE Inv == Typed /\ Exact /\ Bounded /\ Faithful /\ Ending
<1>1. Init => Inv
  BY TypedInit, AccountInit, FaithfulInit, EndingInit
<1>2. Inv /\ [Next]_vars => Inv'
  BY TypedStep, AccountStep, FaithfulStep, EndingStep
<1>3. Inv => ContentIsConserved
  <2> SUFFICES ASSUME Inv PROVE ContentIsConserved
    OBVIOUS
  <2>1. received \o Contents(events) = published
    BY DEF Exact
  <2>2. ASSUME pc \in Over, ~failed
        PROVE  saved = ItemsOf(took) /\ (engine # "off" => sink = <<>> /\ engine = "ended")
    <3> DEFINE owed == Owed(pending)
    <3>1. pending = <<>> /\ buffer = <<>> /\ saved \in Seq(Nat) /\ <<>> \in Seq(Nat)
      BY <2>2 DEF Typed, Faithful, Over
    <3>2. owed = <<>>
      <4>1. pending \in Seq(Steps)
        BY DEF Typed
      <4> QED
        BY <3>1, <4>1, OwedIs
    <3>3. (saved \o buffer) \o owed = ItemsOf(took)
      BY <2>2 DEF Faithful
    <3> HIDE DEF owed
    <3>4. (saved \o <<>>) \o <<>> = saved
      BY ONLY <3>1, ConcatEmptySeq
    <3>5. saved = ItemsOf(took)
      BY <3>1, <3>2, <3>3, <3>4
    <3>6. engine # "off" => sink = <<>> /\ engine = "ended"
      BY <2>2 DEF Ending, Over, Ahead
    <3> QED
      BY <3>5, <3>6
  <2> QED
    BY <2>1, <2>2 DEF ContentIsConserved, NothingUnsaved, Over
<1> HIDE DEF Inv
<1> QED
  BY <1>1, <1>2, <1>3, PTL DEF Spec

=============================================================================
