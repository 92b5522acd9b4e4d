--------------------------- MODULE TranscriptProofs ---------------------------
(***************************************************************************)
(* Any number of sessions write one transcript, and crash as they like: the *)
(* file can be read, each session holds what the file says, a compaction     *)
(* replaces exactly what it covers, and every message is saved once.         *)
(***************************************************************************)
EXTENDS Transcript, FiniteSetTheorems, TLAPS

(***************************************************************************)
(* What a log says, as Transcript defines it for the current one.            *)
(***************************************************************************)
LastOf(l) == IF l = <<>> THEN 0 ELSE l[Len(l)].first + l[Len(l)].size - 1

ControlsOf(l, n) ==
  {i \in {j \in DOMAIN l : l[j].first <= n} : l[i].kind \in {"compact", "clear"}}

BaseOf(l, n) == IF ControlsOf(l, n) = {} THEN 0 ELSE Max(ControlsOf(l, n))

Since(l, n) == {j \in DOMAIN l : l[j].first <= n /\ j > BaseOf(l, n)}

ContextOf(l, n) ==
  (IF BaseOf(l, n) = 0 THEN {} ELSE l[BaseOf(l, n)].covers)
    \cup UNION {l[i].items : i \in Since(l, n)}

SeedOf(l, n) ==
  IF BaseOf(l, n) # 0 /\ l[BaseOf(l, n)].kind = "compact" THEN l[BaseOf(l, n)].first ELSE 0

Saved(l) == UNION {l[i].items : i \in DOMAIN l}

LEMMA SameWords ==
  /\ LastSeq = LastOf(log)
  /\ \A n : Context(n) = ContextOf(log, n)
  /\ \A n : SeedAt(n) = SeedOf(log, n)
  <1>1. LastSeq = LastOf(log)
    BY DEF LastSeq, LastOf
  <1>2. ASSUME NEW n
        PROVE  /\ Controls(n) = ControlsOf(log, n)
               /\ Upto(n) = {j \in DOMAIN log : log[j].first <= n}
    BY DEF Controls, ControlsOf, Upto
  <1>3. ASSUME NEW n PROVE Base(n) = BaseOf(log, n)
    BY <1>2 DEF Base, BaseOf
  <1>4. ASSUME NEW n PROVE {j \in Upto(n) : j > Base(n)} = Since(log, n)
    BY <1>2, <1>3 DEF Since
  <1>5. ASSUME NEW n PROVE Context(n) = ContextOf(log, n)
    BY <1>3, <1>4 DEF Context, ContextOf
  <1>6. ASSUME NEW n PROVE SeedAt(n) = SeedOf(log, n)
    BY <1>3 DEF SeedAt, SeedOf
  <1> QED BY <1>1, <1>5, <1>6

(***************************************************************************)
(* Logs grow at their end.                                                  *)
(***************************************************************************)

\* Sequence numbers rise, and among batches up to a number there is a last
\* control point, if there is one at all.
Ordered(l) ==
  /\ \A i \in DOMAIN l :
       /\ l[i].size > 0
       /\ l[i].first = IF i = 1 THEN 1 ELSE l[i - 1].first + l[i - 1].size
       /\ 1 <= l[i].first /\ l[i].first + l[i].size - 1 <= LastOf(l)
  /\ \A n \in Nat : ControlsOf(l, n) # {} =>
       \E m \in ControlsOf(l, n) : \A k \in ControlsOf(l, n) : m >= k

LEMMA Grown ==
  ASSUME NEW l \in Seq(Batch), NEW b \in Batch
  PROVE  /\ Append(l, b) \in Seq(Batch)
         /\ Len(Append(l, b)) = Len(l) + 1 /\ Len(l) \in Nat
         /\ DOMAIN l = 1 .. Len(l) /\ DOMAIN Append(l, b) = 1 .. Len(l) + 1
         /\ \A i \in DOMAIN l : Append(l, b)[i] = l[i] /\ l[i] \in Batch
         /\ Append(l, b)[Len(l) + 1] = b
         /\ Append(l, b) # <<>>
  OBVIOUS

LEMMA LastOfType ==
  ASSUME NEW l \in Seq(Batch), Ordered(l)
  PROVE  LastOf(l) \in Nat
  <1>1. CASE l = <<>>
    BY <1>1 DEF LastOf
  <1>2. CASE l # <<>>
    <2>1. Len(l) \in DOMAIN l /\ l[Len(l)] \in Batch
      BY <1>2
    <2>2. l[Len(l)].first \in Nat /\ l[Len(l)].size \in Nat /\ l[Len(l)].size > 0
      BY <2>1 DEF Ordered, Batch
    <2> QED BY <1>2, <2>2 DEF LastOf
  <1> QED BY <1>1, <1>2

LEMMA LastOfGrown ==
  ASSUME NEW l \in Seq(Batch), NEW b \in Batch
  PROVE  LastOf(Append(l, b)) = b.first + b.size - 1
  BY Grown DEF LastOf

\* The base is the last control point, when there is one.
LEMMA BaseIsLast ==
  ASSUME NEW l \in Seq(Batch), Ordered(l), NEW n \in Nat
  PROVE  \/ ControlsOf(l, n) = {} /\ BaseOf(l, n) = 0
         \/ /\ BaseOf(l, n) \in ControlsOf(l, n) /\ BaseOf(l, n) \in DOMAIN l
            /\ \A k \in ControlsOf(l, n) : BaseOf(l, n) >= k
  <1>1. CASE ControlsOf(l, n) = {}
    BY <1>1 DEF BaseOf
  <1>2. CASE ControlsOf(l, n) # {}
    <2>1. BaseOf(l, n) = CHOOSE m \in ControlsOf(l, n) : \A k \in ControlsOf(l, n) : m >= k
      BY <1>2 DEF BaseOf, Max
    <2>2. \E m \in ControlsOf(l, n) : \A k \in ControlsOf(l, n) : m >= k
      BY <1>2 DEF Ordered
    <2>3. /\ BaseOf(l, n) \in ControlsOf(l, n)
          /\ \A k \in ControlsOf(l, n) : BaseOf(l, n) >= k
      BY <2>1, <2>2
    <2> QED BY <2>3 DEF ControlsOf
  <1> QED BY <1>1, <1>2

\* The last element of a set of numbers is unique.
LEMMA BaseIsKnown ==
  ASSUME NEW l \in Seq(Batch), NEW n, NEW m \in ControlsOf(l, n),
         \A k \in ControlsOf(l, n) : m >= k
  PROVE  BaseOf(l, n) = m
  <1>1. BaseOf(l, n) = CHOOSE x \in ControlsOf(l, n) : \A k \in ControlsOf(l, n) : x >= k
    BY DEF BaseOf, Max
  <1>2. BaseOf(l, n) \in ControlsOf(l, n) /\ \A k \in ControlsOf(l, n) : BaseOf(l, n) >= k
    BY <1>1
  <1>3. BaseOf(l, n) \in Nat /\ m \in Nat
    BY <1>2 DEF ControlsOf
  <1> QED BY <1>2, <1>3

\* What a batch at the end leaves as it was.
LEMMA OlderContext ==
  ASSUME NEW l \in Seq(Batch), Ordered(l), NEW b \in Batch, b.first = LastOf(l) + 1,
         NEW n \in Nat, n <= LastOf(l)
  PROVE  /\ ControlsOf(Append(l, b), n) = ControlsOf(l, n)
         /\ ContextOf(Append(l, b), n) = ContextOf(l, n)
         /\ SeedOf(Append(l, b), n) = SeedOf(l, n)
  <1> DEFINE g == Append(l, b)
  <1>1. /\ DOMAIN l = 1 .. Len(l) /\ DOMAIN g = 1 .. Len(l) + 1 /\ Len(l) \in Nat
        /\ \A i \in DOMAIN l : g[i] = l[i]
        /\ g[Len(l) + 1] = b
    BY Grown
  <1>2. LastOf(l) \in Nat /\ ~(b.first <= n)
    BY LastOfType
  <1> HIDE DEF g
  <1>3. \A i \in DOMAIN g : g[i].first <= n <=> i \in DOMAIN l /\ l[i].first <= n
    BY <1>1, <1>2
  <1>4. {j \in DOMAIN g : g[j].first <= n} = {j \in DOMAIN l : l[j].first <= n}
    BY <1>1, <1>3
  <1>5. ControlsOf(g, n) = ControlsOf(l, n)
    BY <1>1, <1>4 DEF ControlsOf
  <1>6. BaseOf(g, n) = BaseOf(l, n)
    BY <1>5 DEF BaseOf
  <1>7. Since(g, n) = Since(l, n)
    BY <1>4, <1>6 DEF Since
  <1>8. BaseOf(l, n) # 0 => g[BaseOf(l, n)] = l[BaseOf(l, n)]
    BY <1>1, BaseIsLast
  <1>9. \A i \in Since(l, n) : g[i] = l[i]
    BY <1>1 DEF Since
  <1>10. UNION {g[i].items : i \in Since(g, n)} = UNION {l[i].items : i \in Since(l, n)}
    BY <1>7, <1>9
  <1>11. ContextOf(g, n) = ContextOf(l, n)
    BY <1>6, <1>8, <1>10 DEF ContextOf
  <1>12. SeedOf(g, n) = SeedOf(l, n)
    BY <1>6, <1>8 DEF SeedOf
  <1> QED BY <1>5, <1>11, <1>12 DEF g

\* Up to its end, all of a log counts.
LEMMA AllOfIt ==
  ASSUME NEW l \in Seq(Batch), Ordered(l), NEW n \in Nat, n >= LastOf(l)
  PROVE  {j \in DOMAIN l : l[j].first <= n} = DOMAIN l
  <1>1. \A j \in DOMAIN l : /\ l[j].first \in Nat /\ l[j].size \in Nat /\ l[j].size > 0
                            /\ l[j].first + l[j].size - 1 <= LastOf(l)
    <2> SUFFICES ASSUME NEW j \in DOMAIN l
                 PROVE  /\ l[j].first \in Nat /\ l[j].size \in Nat /\ l[j].size > 0
                        /\ l[j].first + l[j].size - 1 <= LastOf(l)
      OBVIOUS
    <2>1. l[j] \in Batch
      OBVIOUS
    <2>2. l[j].first \in Nat /\ l[j].size \in Nat
      BY <2>1 DEF Batch
    <2> QED BY <2>2 DEF Ordered
  <1>2. LastOf(l) \in Nat
    BY LastOfType
  <1>3. \A j \in DOMAIN l : l[j].first <= n
    BY <1>1, <1>2
  <1> QED BY <1>3

\* A batch at the end becomes part of the context, or replaces it.
LEMMA NewerContext ==
  ASSUME NEW l \in Seq(Batch), Ordered(l), NEW b \in Batch, b.first = LastOf(l) + 1,
         NEW n \in Nat, n >= b.first
  PROVE  /\ b.kind \in {"turn", "stats"} =>
              /\ ControlsOf(Append(l, b), n) = ControlsOf(l, LastOf(l))
              /\ ContextOf(Append(l, b), n) = ContextOf(l, LastOf(l)) \cup b.items
              /\ SeedOf(Append(l, b), n) = SeedOf(l, LastOf(l))
         /\ b.kind \in {"compact", "clear"} =>
              /\ Len(l) + 1 \in ControlsOf(Append(l, b), n)
              /\ \A k \in ControlsOf(Append(l, b), n) : Len(l) + 1 >= k
              /\ ContextOf(Append(l, b), n) = b.covers
              /\ SeedOf(Append(l, b), n) = IF b.kind = "compact" THEN b.first ELSE 0
  <1> DEFINE g == Append(l, b)
             last == LastOf(l)
  <1>1. /\ DOMAIN l = 1 .. Len(l) /\ DOMAIN g = 1 .. Len(l) + 1 /\ Len(l) \in Nat
        /\ \A i \in DOMAIN l : g[i] = l[i]
        /\ g[Len(l) + 1] = b /\ g \in Seq(Batch)
    BY Grown
  <1>2. last \in Nat /\ b.first <= n /\ last <= n
    BY LastOfType
  <1>3. /\ {j \in DOMAIN l : l[j].first <= n} = DOMAIN l
        /\ {j \in DOMAIN l : l[j].first <= last} = DOMAIN l
    <2>1. {j \in DOMAIN l : l[j].first <= n} = DOMAIN l
      BY <1>2, AllOfIt
    <2>2. last >= last
      BY <1>2
    <2>3. {j \in DOMAIN l : l[j].first <= last} = DOMAIN l
      BY <1>2, <2>2, AllOfIt
    <2> QED BY <2>1, <2>3
  <1> HIDE DEF g
  <1>4. \A j \in DOMAIN g : g[j].first <= n
    <2> SUFFICES ASSUME NEW j \in DOMAIN g PROVE g[j].first <= n
      OBVIOUS
    <2>1. CASE j \in DOMAIN l
      BY <2>1, <1>1, <1>3
    <2>2. CASE j = Len(l) + 1
      BY <2>2, <1>1, <1>2
    <2> QED BY <2>1, <2>2, <1>1
  <1>5. {j \in DOMAIN g : g[j].first <= n} = DOMAIN g
    BY <1>4
  <1>6. ControlsOf(g, n) = {i \in DOMAIN g : g[i].kind \in {"compact", "clear"}}
    BY <1>5 DEF ControlsOf
  <1>7. ControlsOf(l, last) = {i \in DOMAIN l : l[i].kind \in {"compact", "clear"}}
    BY <1>3 DEF ControlsOf
  <1> HIDE DEF last
  <1>8. ASSUME b.kind \in {"turn", "stats"}
        PROVE  /\ ControlsOf(g, n) = ControlsOf(l, last)
               /\ ContextOf(g, n) = ContextOf(l, last) \cup b.items
               /\ SeedOf(g, n) = SeedOf(l, last)
    <2>1. ControlsOf(g, n) = ControlsOf(l, last)
      BY <1>1, <1>6, <1>7, <1>8
    <2>2. BaseOf(g, n) = BaseOf(l, last)
      BY <2>1 DEF BaseOf
    <2>3. BaseOf(l, last) = 0 \/ BaseOf(l, last) \in DOMAIN l
      BY <1>2, BaseIsLast
    <2>4. Since(g, n) = Since(l, last) \cup {Len(l) + 1}
      <3>1. Since(g, n) = {j \in DOMAIN g : j > BaseOf(l, last)}
        BY <1>4, <2>2 DEF Since
      <3>2. Since(l, last) = {j \in DOMAIN l : j > BaseOf(l, last)}
        BY <1>3 DEF Since
      <3>3. Len(l) + 1 > BaseOf(l, last)
        BY <1>1, <2>3
      <3> QED BY <1>1, <3>1, <3>2, <3>3
    <2>5. (UNION {g[i].items : i \in Since(g, n)})
            = (UNION {l[i].items : i \in Since(l, last)}) \cup b.items
      <3>1. \A i \in Since(l, last) : g[i] = l[i]
        BY <1>1 DEF Since
      <3>2. UNION {g[i].items : i \in Since(l, last)} = UNION {l[i].items : i \in Since(l, last)}
        BY <3>1
      <3>3. g[Len(l) + 1].items = b.items
        BY <1>1
      <3>4. (UNION {g[i].items : i \in Since(l, last) \cup {Len(l) + 1}})
              = (UNION {g[i].items : i \in Since(l, last)}) \cup g[Len(l) + 1].items
        OBVIOUS
      <3> QED BY <2>4, <3>2, <3>3, <3>4
    <2>6. BaseOf(l, last) # 0 => g[BaseOf(l, last)] = l[BaseOf(l, last)]
      BY <1>1, <2>3
    <2>7. ContextOf(g, n) = ContextOf(l, last) \cup b.items
      <3> DEFINE base == BaseOf(l, last)
                 after == UNION {l[i].items : i \in Since(l, last)}
                 kept == IF base = 0 THEN {} ELSE l[base].covers
      <3>1. ContextOf(l, last) = kept \cup after
        BY DEF ContextOf
      <3>2. ContextOf(g, n) = kept \cup UNION {g[i].items : i \in Since(g, n)}
        BY <2>2, <2>6 DEF ContextOf
      <3> HIDE DEF kept, after
      <3>3. UNION {g[i].items : i \in Since(g, n)} = after \cup b.items
        BY <2>5 DEF after
      <3> QED BY <3>1, <3>2, <3>3
    <2>8. SeedOf(g, n) = SeedOf(l, last)
      BY <2>2, <2>6 DEF SeedOf
    <2> QED BY <2>1, <2>7, <2>8
  <1>9. ASSUME b.kind \in {"compact", "clear"}
        PROVE  /\ Len(l) + 1 \in ControlsOf(g, n)
               /\ \A k \in ControlsOf(g, n) : Len(l) + 1 >= k
               /\ ContextOf(g, n) = b.covers
               /\ SeedOf(g, n) = IF b.kind = "compact" THEN b.first ELSE 0
    <2>1. Len(l) + 1 \in ControlsOf(g, n)
      BY <1>1, <1>6, <1>9
    <2>2. \A k \in ControlsOf(g, n) : Len(l) + 1 >= k
      BY <1>1, <1>6
    <2>3. BaseOf(g, n) = Len(l) + 1
      BY <1>1, <2>1, <2>2, BaseIsKnown
    <2>4. Since(g, n) = {}
      BY <1>1, <2>3 DEF Since
    <2>5. UNION {g[i].items : i \in Since(g, n)} = {}
      BY <2>4
    <2>6. BaseOf(g, n) # 0
      BY <1>1, <2>3
    <2>7. ContextOf(g, n) = b.covers
      BY <1>1, <2>3, <2>5, <2>6 DEF ContextOf
    <2>8. SeedOf(g, n) = IF b.kind = "compact" THEN b.first ELSE 0
      BY <1>1, <2>3, <2>6 DEF SeedOf
    <2> QED BY <2>1, <2>2, <2>7, <2>8
  <1> QED BY <1>8, <1>9 DEF g, last

LEMMA OrderedGrows ==
  ASSUME NEW l \in Seq(Batch), Ordered(l), NEW b \in Batch, b.first = LastOf(l) + 1,
         b.size > 0
  PROVE  Ordered(Append(l, b))
  <1> DEFINE g == Append(l, b)
  <1>1. /\ DOMAIN l = 1 .. Len(l) /\ DOMAIN g = 1 .. Len(l) + 1 /\ Len(l) \in Nat
        /\ \A i \in DOMAIN l : g[i] = l[i] /\ l[i] \in Batch
        /\ g[Len(l) + 1] = b /\ g \in Seq(Batch)
    BY Grown
  <1>2. LastOf(l) \in Nat /\ b.first \in Nat /\ b.size \in Nat
    BY LastOfType DEF Batch
  <1>3. LastOf(g) = LastOf(l) + b.size
    BY <1>2, LastOfGrown
  <1> HIDE DEF g
  <1>4. ASSUME NEW i \in DOMAIN g
        PROVE  /\ g[i].size > 0
               /\ g[i].first = IF i = 1 THEN 1 ELSE g[i - 1].first + g[i - 1].size
               /\ 1 <= g[i].first /\ g[i].first + g[i].size - 1 <= LastOf(g)
    <2>1. CASE i \in DOMAIN l
      <3>1. /\ l[i].first \in Nat /\ l[i].size \in Nat /\ l[i].size > 0
            /\ l[i].first = IF i = 1 THEN 1 ELSE l[i - 1].first + l[i - 1].size
            /\ 1 <= l[i].first /\ l[i].first + l[i].size - 1 <= LastOf(l)
        BY <2>1, <1>1 DEF Ordered, Batch
      <3>2. g[i] = l[i] /\ (i # 1 => g[i - 1] = l[i - 1])
        BY <2>1, <1>1
      <3>3. l[i].first + l[i].size - 1 <= LastOf(g)
        <4>1. LastOf(l) <= LastOf(g)
          BY <1>2, <1>3
        <4>2. l[i].first + l[i].size - 1 \in Int /\ LastOf(g) \in Int /\ LastOf(l) \in Int
          BY <3>1, <1>2, <1>3
        <4> QED BY <3>1, <4>1, <4>2
      <3>4. l[i].first = IF i = 1 THEN 1 ELSE g[i - 1].first + g[i - 1].size
        BY <3>1, <3>2
      <3> QED BY <3>1, <3>2, <3>3, <3>4
    <2>2. CASE i = Len(l) + 1
      <3>1. b.first = IF i = 1 THEN 1 ELSE g[i - 1].first + g[i - 1].size
        <4>1. CASE l = <<>>
          BY <4>1, <2>2, <1>1 DEF LastOf
        <4>2. CASE l # <<>>
          <5>1. Len(l) \in DOMAIN l /\ i # 1 /\ i - 1 = Len(l)
            BY <4>2, <2>2, <1>1
          <5>2. l[Len(l)].first \in Nat /\ l[Len(l)].size \in Nat
            BY <5>1, <1>1 DEF Batch
          <5>3. LastOf(l) = l[Len(l)].first + l[Len(l)].size - 1
            BY <4>2 DEF LastOf
          <5> QED BY <5>1, <5>2, <5>3, <1>1
        <4> QED BY <4>1, <4>2
      <3> QED BY <2>2, <3>1, <1>1, <1>2, <1>3
    <2> QED BY <2>1, <2>2, <1>1
  <1>5. ASSUME NEW n \in Nat, ControlsOf(g, n) # {}
        PROVE  \E m \in ControlsOf(g, n) : \A k \in ControlsOf(g, n) : m >= k
    <2>1. CASE n <= LastOf(l)
      <3>1. ControlsOf(g, n) = ControlsOf(l, n)
        BY <2>1, OlderContext DEF g
      <3> QED BY <1>5, <3>1 DEF Ordered
    <2>2. CASE n >= b.first /\ b.kind \in {"turn", "stats"}
      <3>1. ControlsOf(g, n) = ControlsOf(l, LastOf(l))
        BY <2>2, NewerContext DEF g
      <3> QED BY <1>2, <1>5, <3>1 DEF Ordered
    <2>3. CASE n >= b.first /\ b.kind \in {"compact", "clear"}
      BY <2>3, NewerContext DEF g
    <2>4. n <= LastOf(l) \/ n >= b.first
      BY <1>2
    <2> QED BY <2>1, <2>2, <2>3, <2>4 DEF Batch
  <1>6. Ordered(g)
    BY <1>4, <1>5 DEF Ordered
  <1> QED BY <1>6 DEF g

LEMMA SavedGrows ==
  ASSUME NEW l \in Seq(Batch), NEW b \in Batch
  PROVE  Saved(Append(l, b)) = Saved(l) \cup b.items
  <1>1. /\ DOMAIN Append(l, b) = DOMAIN l \cup {Len(l) + 1}
        /\ \A i \in DOMAIN l : Append(l, b)[i] = l[i]
        /\ Append(l, b)[Len(l) + 1] = b
    BY Grown
  <1> QED BY <1>1 DEF Saved

LEMMA ContextIsSaved ==
  ASSUME NEW l \in Seq(Batch), Ordered(l), NEW n \in Nat,
         \A i \in DOMAIN l : l[i].covers \subseteq Saved(l)
  PROVE  ContextOf(l, n) \subseteq Saved(l)
  <1>1. BaseOf(l, n) # 0 => l[BaseOf(l, n)].covers \subseteq Saved(l)
    BY BaseIsLast
  <1>2. UNION {l[i].items : i \in Since(l, n)} \subseteq Saved(l)
    BY DEF Since, Saved
  <1> QED BY <1>1, <1>2 DEF ContextOf

-----------------------------------------------------------------------------
(***************************************************************************)
(* The invariant.                                                           *)
(***************************************************************************)

FileOK(l, n) ==
  /\ Ordered(l)
  /\ \A i \in DOMAIN l :
       /\ l[i].items \subseteq 1 .. n
       /\ l[i].covers \subseteq Saved(l)
       /\ l[i].kind = "compact" => l[i].covers = ContextOf(l, l[i].first - 1)
  /\ \A i \in DOMAIN l, j \in DOMAIN l : i # j => l[i].items \cap l[j].items = {}

\* What a session holds is what the file says up to its generation.
MemOK(l, m) ==
  m.open => /\ m.next <= LastOf(l)
            /\ m.view = ContextOf(l, m.next)
            /\ m.seed = SeedOf(l, m.next)

\* A commit on its way is its caller's: a turn commits what is pending, a
\* compaction what the run knew at the generation it planned for.
CommitOK(m, o, r) ==
  o.stage # "idle" =>
    /\ m.open
    /\ o.kind = "turn" => /\ o.items = r.pending /\ o.items # {}
                          /\ r.phase \in {"flushing", "precompact", "final"}
    /\ o.kind # "turn" => o.items = {}
    /\ o.kind # "compact" => o.covers = {}
    /\ o.kind = "stats" => r.phase \in {"none", "planned", "done", "failed"}
    /\ o.kind = "clear" => r.phase = "none"
    /\ o.kind = "compact" => /\ o.expected = r.expected /\ o.covers = r.known
                             /\ \/ r.phase = "planned"
                                \/ r.phase = "compacting" /\ ~r.rebased

Engaged == {"planned", "running", "flushing", "precompact", "compacting", "final"}

\* A run knows what is saved and what it has yet to save; as long as nobody
\* wrote between its batches, it knows just what the file says.
RunOK(l, n, r) ==
  /\ r.expected <= LastOf(l)
  /\ r.known \subseteq Saved(l) \cup r.pending
  /\ r.pending \cap Saved(l) = {}
  /\ r.pending \subseteq 1 .. n
  /\ r.phase \notin {"running", "flushing", "precompact", "final"} => r.pending = {}
  /\ r.phase = "planned" => ~r.rebased
  /\ r.phase \in Engaged /\ ~r.rebased =>
       r.known = ContextOf(l, r.expected) \cup r.pending

Apart == \A g \in Handle, h \in Handle : g # h => run[g].pending \cap run[h].pending = {}

Inv ==
  /\ TypeOK
  /\ tail # "buried"
  /\ FileOK(log, made)
  /\ \A h \in Handle : MemOK(log, mem[h]) /\ CommitOK(mem[h], op[h], run[h])
                       /\ RunOK(log, made, run[h])
  /\ Apart

LEMMA Fresh == /\ Closed \in SessionState /\ ~Closed.open
               /\ NoCommit \in Commit /\ NoCommit.stage = "idle"
               /\ NoRun \in Run /\ NoRun.phase = "none" /\ NoRun.known = {}
               /\ NoRun.pending = {} /\ NoRun.expected = 0 /\ NoRun.rebased = FALSE
               /\ [NoRun EXCEPT !.phase = "failed"] \in Run
               /\ [NoRun EXCEPT !.phase = "failed"].phase = "failed"
               /\ [NoRun EXCEPT !.phase = "failed"].known = {}
               /\ [NoRun EXCEPT !.phase = "failed"].pending = {}
               /\ [NoRun EXCEPT !.phase = "failed"].expected = 0
  BY DEF Closed, SessionState, NoCommit, Commit, NoRun, Run, Item

\* A run that is over or failed asks nothing of the file.
LEMMA NoRunIsOK ==
  ASSUME NEW l \in Seq(Batch), Ordered(l), NEW n, NEW r \in Run,
         r.known = {}, r.pending = {}, r.expected = 0, r.phase \notin Engaged
  PROVE  RunOK(l, n, r)
  <1>1. 0 <= LastOf(l)
    BY LastOfType
  <1> QED BY <1>1 DEF RunOK, Engaged

(* Appending a batch leaves the others' knowledge of older generations true. *)
LEMMA MemStays ==
  ASSUME NEW l \in Seq(Batch), Ordered(l), NEW b \in Batch, b.first = LastOf(l) + 1,
         NEW m \in SessionState, MemOK(l, m)
  PROVE  MemOK(Append(l, b), m)
  <1> SUFFICES ASSUME m.open PROVE MemOK(Append(l, b), m)
    BY DEF MemOK
  <1>1. m.next \in Nat /\ LastOf(l) \in Nat /\ b.first \in Nat /\ b.size \in Nat
    BY LastOfType DEF SessionState, Batch
  <1>2. m.next <= LastOf(l) /\ m.view = ContextOf(l, m.next) /\ m.seed = SeedOf(l, m.next)
    BY DEF MemOK
  <1>3. /\ ContextOf(Append(l, b), m.next) = ContextOf(l, m.next)
        /\ SeedOf(Append(l, b), m.next) = SeedOf(l, m.next)
    BY <1>1, <1>2, OlderContext
  <1>4. LastOf(Append(l, b)) = LastOf(l) + b.size
    BY <1>1, LastOfGrown
  <1>5. m.next <= LastOf(Append(l, b))
    BY <1>1, <1>2, <1>4
  <1> QED BY <1>2, <1>3, <1>5 DEF MemOK

LEMMA RunStays ==
  ASSUME NEW l \in Seq(Batch), Ordered(l), NEW b \in Batch, b.first = LastOf(l) + 1,
         NEW n, NEW r \in Run, RunOK(l, n, r), b.items \cap r.pending = {}
  PROVE  RunOK(Append(l, b), n, r)
  <1>1. r.expected \in Nat /\ LastOf(l) \in Nat /\ b.first \in Nat /\ b.size \in Nat
    BY LastOfType DEF Run, Batch
  <1>2. r.expected <= LastOf(l)
    BY DEF RunOK
  <1>3. ContextOf(Append(l, b), r.expected) = ContextOf(l, r.expected)
    BY <1>1, <1>2, OlderContext
  <1>4. LastOf(Append(l, b)) = LastOf(l) + b.size
    BY <1>1, LastOfGrown
  <1>5. r.expected <= LastOf(Append(l, b))
    BY <1>1, <1>2, <1>4
  <1>6. Saved(Append(l, b)) = Saved(l) \cup b.items
    BY SavedGrows
  <1>7. /\ r.known \subseteq Saved(Append(l, b)) \cup r.pending
        /\ r.pending \cap Saved(Append(l, b)) = {}
    BY <1>6 DEF RunOK
  <1> QED BY <1>3, <1>5, <1>7 DEF RunOK

LEMMA FileGrows ==
  ASSUME NEW l \in Seq(Batch), NEW n \in Nat, FileOK(l, n), NEW b \in Batch,
         b.first = LastOf(l) + 1, b.size > 0,
         b.items \subseteq 1 .. n, b.items \cap Saved(l) = {}, b.covers \subseteq Saved(l),
         b.kind = "compact" => b.covers = ContextOf(l, LastOf(l))
  PROVE  FileOK(Append(l, b), n)
  <1> DEFINE g == Append(l, b)
  <1>1. /\ DOMAIN l = 1 .. Len(l) /\ DOMAIN g = 1 .. Len(l) + 1 /\ Len(l) \in Nat
        /\ \A i \in DOMAIN l : g[i] = l[i] /\ l[i] \in Batch
        /\ g[Len(l) + 1] = b /\ g \in Seq(Batch)
    BY Grown
  <1>2. Ordered(l) /\ Ordered(g)
    BY OrderedGrows DEF FileOK
  <1>3. Saved(g) = Saved(l) \cup b.items
    BY SavedGrows
  <1>4. LastOf(l) \in Nat /\ b.first - 1 = LastOf(l)
    BY <1>2, LastOfType
  <1>5. ASSUME NEW k \in Nat, k <= LastOf(l) PROVE ContextOf(g, k) = ContextOf(l, k)
    BY <1>2, <1>5, OlderContext
  <1>6. ContextOf(g, LastOf(l)) = ContextOf(l, LastOf(l))
    BY <1>4, <1>5
  <1> HIDE DEF g
  <1>7. ASSUME NEW i \in DOMAIN g
        PROVE  /\ g[i].items \subseteq 1 .. n
               /\ g[i].covers \subseteq Saved(g)
               /\ g[i].kind = "compact" => g[i].covers = ContextOf(g, g[i].first - 1)
    <2>1. CASE i \in DOMAIN l
      <3>1. /\ g[i] = l[i] /\ l[i].items \subseteq 1 .. n /\ l[i].covers \subseteq Saved(l)
            /\ l[i].kind = "compact" => l[i].covers = ContextOf(l, l[i].first - 1)
        BY <2>1, <1>1 DEF FileOK
      <3>2. l[i].first - 1 \in Nat /\ l[i].first - 1 <= LastOf(l)
        <4>1. /\ l[i].first \in Nat /\ l[i].size \in Nat
          BY <2>1, <1>1 DEF Batch
        <4>2. l[i].size > 0 /\ 1 <= l[i].first /\ l[i].first + l[i].size - 1 <= LastOf(l)
          BY <2>1, <1>2 DEF Ordered
        <4> QED BY <4>1, <4>2, <1>4
      <3>3. ContextOf(g, l[i].first - 1) = ContextOf(l, l[i].first - 1)
        BY <3>2, <1>5
      <3> QED BY <3>1, <3>3, <1>3
    <2>2. CASE i = Len(l) + 1
      BY <2>2, <1>1, <1>3, <1>4, <1>6
    <2> QED BY <2>1, <2>2, <1>1
  <1>8. ASSUME NEW i \in DOMAIN g, NEW j \in DOMAIN g, i # j
        PROVE  g[i].items \cap g[j].items = {}
    <2>1. \A k \in DOMAIN l : l[k].items \subseteq Saved(l)
      BY DEF Saved
    <2>2. CASE i \in DOMAIN l /\ j \in DOMAIN l
      BY <2>2, <1>1, <1>8 DEF FileOK
    <2>3. CASE i \in DOMAIN l /\ j = Len(l) + 1
      BY <2>1, <2>3, <1>1
    <2>4. CASE i = Len(l) + 1 /\ j \in DOMAIN l
      BY <2>1, <2>4, <1>1
    <2> QED BY <2>2, <2>3, <2>4, <1>1, <1>8
  <1>9. FileOK(g, n)
    BY <1>2, <1>7, <1>8 DEF FileOK
  <1> QED BY <1>9 DEF g

-----------------------------------------------------------------------------
(***************************************************************************)
(* Steps that leave the file alone.                                         *)
(***************************************************************************)

LEMMA InitInv == Init => Inv
  <1> SUFFICES ASSUME Init PROVE Inv
    OBVIOUS
  <1>1. /\ log = <<>> /\ tail = "whole" /\ made = 0
        /\ \A h \in Handle : mem[h] = Closed /\ op[h] = NoCommit /\ run[h] = NoRun
    BY DEF Init
  <1>2. TypeOK
    <2>1. mem \in [Handle -> SessionState] /\ op \in [Handle -> Commit] /\ run \in [Handle -> Run]
      BY Fresh DEF Init
    <2> QED BY <1>1, <2>1 DEF TypeOK
  <1>3. Ordered(log)
    <2>1. DOMAIN log = {}
      BY <1>1
    <2> QED BY <2>1 DEF Ordered, ControlsOf
  <1>4. FileOK(log, made)
    <2>1. DOMAIN log = {}
      BY <1>1
    <2> QED BY <2>1, <1>3 DEF FileOK
  <1>5. \A h \in Handle : MemOK(log, mem[h]) /\ CommitOK(mem[h], op[h], run[h])
    BY <1>1, Fresh DEF MemOK, CommitOK
  <1>6. \A h \in Handle : RunOK(log, made, run[h])
    <2>1. NoRun.phase \notin Engaged /\ log \in Seq(Batch)
      BY <1>2, Fresh DEF Engaged, TypeOK
    <2>2. RunOK(log, made, NoRun)
      BY <2>1, <1>3, Fresh, NoRunIsOK
    <2> QED BY <1>1, <2>2
  <1>7. Apart
    BY <1>1, Fresh DEF Apart
  <1> QED BY <1>1, <1>2, <1>4, <1>5, <1>6, <1>7 DEF Inv

\* A step of one session that leaves the batches alone keeps the invariant if
\* the session's own part of it holds and what becomes pending is new.
LEMMA LocalStep ==
  ASSUME Inv, NEW h \in Handle,
         log' = log, tail' \in {"whole", "torn"}, made' \in Nat, made <= made',
         mem' \in [Handle -> SessionState], op' \in [Handle -> Commit],
         run' \in [Handle -> Run],
         \A g \in Handle : g # h => mem'[g] = mem[g] /\ op'[g] = op[g] /\ run'[g] = run[g],
         MemOK(log, mem'[h]), CommitOK(mem'[h], op'[h], run'[h]),
         RunOK(log, made', run'[h]),
         \A x \in run'[h].pending : x \in run[h].pending \/ x \notin 1 .. made
  PROVE  Inv'
  <1>1. made \in Nat /\ log \in Seq(Batch)
    BY DEF Inv, TypeOK
  <1>2. TypeOK'
    BY <1>1 DEF TypeOK
  <1>3. 1 .. made \subseteq 1 .. made'
    BY <1>1
  <1>4. FileOK(log', made')
    <2>1. FileOK(log, made)
      BY DEF Inv
    <2> QED BY <1>3, <2>1 DEF FileOK
  <1>5. ASSUME NEW g \in Handle
        PROVE  /\ MemOK(log', mem'[g]) /\ CommitOK(mem'[g], op'[g], run'[g])
               /\ RunOK(log', made', run'[g])
    <2>1. CASE g = h
      BY <2>1
    <2>2. CASE g # h
      <3>1. /\ MemOK(log, mem[g]) /\ CommitOK(mem[g], op[g], run[g])
            /\ RunOK(log, made, run[g])
        BY DEF Inv
      <3>2. RunOK(log, made', run[g])
        BY <1>3, <3>1 DEF RunOK
      <3> QED BY <2>2, <3>1, <3>2
    <2> QED BY <2>1, <2>2
  <1>6. Apart'
    <2> SUFFICES ASSUME NEW g \in Handle, NEW k \in Handle, g # k
                 PROVE  run'[g].pending \cap run'[k].pending = {}
      BY DEF Apart
    <2>1. \A k1 \in Handle : run[k1].pending \subseteq 1 .. made
      BY DEF Inv, RunOK
    <2>3. run[g].pending \cap run[k].pending = {}
      BY DEF Inv, Apart
    <2>4. CASE g = h
      BY <2>1, <2>3, <2>4
    <2>5. CASE k = h
      BY <2>1, <2>3, <2>5
    <2>6. CASE g # h /\ k # h
      BY <2>3, <2>6
    <2> QED BY <2>4, <2>5, <2>6
  <1>7. tail' # "buried"
    OBVIOUS
  <1> QED BY <1>2, <1>4, <1>5, <1>6, <1>7 DEF Inv

\* The same for a step that produces nothing.
LEMMA QuietStep ==
  ASSUME Inv, NEW h \in Handle,
         log' = log, made' = made, tail' \in {"whole", "torn"},
         mem' \in [Handle -> SessionState], op' \in [Handle -> Commit],
         run' \in [Handle -> Run],
         \A g \in Handle : g # h => mem'[g] = mem[g] /\ op'[g] = op[g] /\ run'[g] = run[g],
         MemOK(log, mem'[h]), CommitOK(mem'[h], op'[h], run'[h]),
         RunOK(log, made, run'[h]), run'[h].pending \subseteq run[h].pending
  PROVE  Inv'
  <1>1. made' \in Nat /\ made <= made'
    BY DEF Inv, TypeOK
  <1>2. \A x \in run'[h].pending : x \in run[h].pending
    OBVIOUS
  <1>3. RunOK(log, made', run'[h])
    OBVIOUS
  <1> QED BY <1>1, <1>2, <1>3, LocalStep

LEMMA RepairedType == Inv => Repaired \in {"whole", "torn"} /\ tail \in {"whole", "torn"}
  BY DEF Inv, TypeOK, Repaired

\* What a session reads from the file is right.
LEMMA ReadIsOK ==
  ASSUME Inv, NEW m \in SessionState, m.next = LastSeq, m.view = Context(LastSeq),
         m.seed = SeedAt(LastSeq)
  PROVE  MemOK(log, m)
  <1>1. LastOf(log) \in Nat
    BY LastOfType DEF Inv, TypeOK, FileOK
  <1> QED BY <1>1, SameWords DEF MemOK

\* The types of what is read.
LEMMA ReadType ==
  ASSUME Inv
  PROVE  LastSeq \in Nat /\ Context(LastSeq) \in SUBSET Item /\ SeedAt(LastSeq) \in Nat
  <1>1. log \in Seq(Batch) /\ Ordered(log) /\ LastOf(log) \in Nat
    BY LastOfType DEF Inv, TypeOK, FileOK
  <1>2. ContextOf(log, LastOf(log)) \subseteq Saved(log)
    BY <1>1, ContextIsSaved DEF Inv, FileOK
  <1>3. \A i \in DOMAIN log : log[i].items \subseteq Item /\ log[i].first \in Nat
    <2>1. \A i \in DOMAIN log : log[i] \in Batch
      BY <1>1
    <2> QED BY <2>1 DEF Batch
  <1>4. Saved(log) \subseteq Item
    BY <1>3 DEF Saved
  <1>5. SeedOf(log, LastOf(log)) \in Nat
    BY <1>1, <1>3, BaseIsLast DEF SeedOf
  <1> QED BY <1>1, <1>2, <1>4, <1>5, SameWords

LEMMA OpenIsSafe ==
  ASSUME Inv, NEW h \in Handle, Open(h)
  PROVE  Inv'
  <1> DEFINE m == [open |-> TRUE, next |-> LastSeq, view |-> Context(LastSeq),
                   seed |-> SeedAt(LastSeq), hash |-> NoCall]
  <1>1. /\ ~mem[h].open /\ tail' = Repaired /\ mem' = [mem EXCEPT ![h] = m]
        /\ UNCHANGED <<log, op, run, made>>
    BY DEF Open
  <1>2. m \in SessionState /\ MemOK(log, m)
    <2>1. m \in SessionState
      BY ReadType DEF SessionState
    <2> QED BY <2>1, ReadIsOK
  <1> HIDE DEF m
  <1>3. mem \in [Handle -> SessionState] /\ op \in [Handle -> Commit] /\ run \in [Handle -> Run]
        /\ made \in Nat
    BY DEF Inv, TypeOK
  <1>4. mem' \in [Handle -> SessionState] /\ mem'[h] = m
        /\ \A g \in Handle : g # h => mem'[g] = mem[g]
    BY <1>1, <1>2, <1>3
  <1>5. op[h].stage = "idle" /\ RunOK(log, made, run[h])
    BY <1>1 DEF Inv, CommitOK
  <1>6. CommitOK(m, op[h], run[h])
    BY <1>5 DEF CommitOK
  <1>7. /\ log' = log /\ made' = made /\ op' = op /\ run' = run /\ made <= made' /\ made' \in Nat
        /\ tail' \in {"whole", "torn"}
    BY <1>1, <1>3, RepairedType
  <1>8. /\ MemOK(log, mem'[h]) /\ CommitOK(mem'[h], op'[h], run'[h])
        /\ RunOK(log, made', run'[h])
    BY <1>2, <1>4, <1>5, <1>6, <1>7
  <1>9. /\ op' \in [Handle -> Commit] /\ run' \in [Handle -> Run]
        /\ \A g \in Handle : g # h => mem'[g] = mem[g] /\ op'[g] = op[g] /\ run'[g] = run[g]
        /\ run'[h].pending = run[h].pending
    BY <1>3, <1>4, <1>7
  <1> QED BY <1>2, <1>4, <1>6, <1>7, <1>8, <1>9, QuietStep

LEMMA CrashIsSafe ==
  ASSUME Inv, NEW h \in Handle, Crash(h)
  PROVE  Inv'
  <1>1. /\ mem' = [mem EXCEPT ![h] = Closed] /\ op' = [op EXCEPT ![h] = NoCommit]
        /\ run' = [run EXCEPT ![h] = NoRun] /\ tail' \in {tail, "torn"}
        /\ UNCHANGED <<log, made>>
    BY DEF Crash
  <1>2. /\ mem \in [Handle -> SessionState] /\ op \in [Handle -> Commit]
        /\ run \in [Handle -> Run] /\ made \in Nat /\ log \in Seq(Batch) /\ Ordered(log)
    BY DEF Inv, TypeOK, FileOK
  <1>3. /\ mem' \in [Handle -> SessionState] /\ op' \in [Handle -> Commit]
        /\ run' \in [Handle -> Run]
        /\ mem'[h] = Closed /\ op'[h] = NoCommit /\ run'[h] = NoRun
        /\ \A g \in Handle : g # h => mem'[g] = mem[g] /\ op'[g] = op[g] /\ run'[g] = run[g]
    BY <1>1, <1>2, Fresh
  <1>4. MemOK(log, Closed) /\ CommitOK(Closed, NoCommit, NoRun)
    BY Fresh DEF MemOK, CommitOK
  <1>5. RunOK(log, made, NoRun)
    <2>1. NoRun.phase \notin Engaged
      BY Fresh DEF Engaged
    <2> QED BY <1>2, <2>1, Fresh, NoRunIsOK
  <1>6. run'[h].pending = {}
    BY <1>3, Fresh
  <1>7. /\ log' = log /\ made' = made /\ made <= made' /\ made' \in Nat
        /\ tail' \in {"whole", "torn"}
    BY <1>1, <1>2, RepairedType
  <1>8. /\ MemOK(log, mem'[h]) /\ CommitOK(mem'[h], op'[h], run'[h])
        /\ RunOK(log, made', run'[h])
    BY <1>3, <1>4, <1>5, <1>7
  <1> QED BY <1>3, <1>6, <1>7, <1>8, QuietStep

\* A refused commit is forgotten, and its run fails, ends or goes on planning.
LEMMA RefusalIsSafe ==
  ASSUME Inv, NEW h \in Handle, Refuse(h), UNCHANGED <<log, mem, made>>,
         tail' \in {"whole", "torn"}
  PROVE  Inv'
  <1> DEFINE Failed == [NoRun EXCEPT !.phase = "failed"]
  <1>1. /\ mem \in [Handle -> SessionState] /\ op \in [Handle -> Commit]
        /\ run \in [Handle -> Run] /\ made \in Nat /\ log \in Seq(Batch) /\ Ordered(log)
        /\ MemOK(log, mem[h]) /\ RunOK(log, made, run[h])
    BY DEF Inv, TypeOK, FileOK
  <1>2. Failed \in Run /\ Failed.phase = "failed" /\ Failed.known = {} /\ Failed.pending = {}
        /\ Failed.expected = 0
    BY Fresh
  <1> HIDE DEF Failed
  <1>3. /\ op' = [op EXCEPT ![h] = NoCommit]
        /\ \E r \in {Failed, NoRun, run[h]} : run' = [run EXCEPT ![h] = r]
    <2>1. op' = [op EXCEPT ![h] = NoCommit]
      BY DEF Refuse
    <2>2. CASE run[h].phase \in {"flushing", "precompact", "compacting", "final"}
      <3>1. run' = [run EXCEPT ![h] = Failed]
        BY <2>2 DEF Refuse, Failed
      <3> QED BY <2>1, <3>1
    <2>3. CASE /\ run[h].phase \notin {"flushing", "precompact", "compacting", "final"}
               /\ op[h].kind = "stats" /\ run[h].phase = "planned"
      <3>1. run' = [run EXCEPT ![h] = run[h]]
        BY <2>3 DEF Refuse
      <3> QED BY <2>1, <3>1
    <2>4. CASE /\ run[h].phase \notin {"flushing", "precompact", "compacting", "final"}
               /\ ~(op[h].kind = "stats" /\ run[h].phase = "planned")
      <3>1. run' = [run EXCEPT ![h] = NoRun]
        BY <2>4 DEF Refuse
      <3> QED BY <2>1, <3>1
    <2> QED BY <2>2, <2>3, <2>4
  <1>4. PICK r \in {Failed, NoRun, run[h]} : run' = [run EXCEPT ![h] = r]
    BY <1>3
  <1>5. r \in Run /\ RunOK(log, made, r) /\ r.pending \subseteq run[h].pending
    <2>1. CASE r = run[h]
      BY <2>1, <1>1
    <2>2. CASE r = NoRun
      <3>1. NoRun.phase \notin Engaged
        BY Fresh DEF Engaged
      <3> QED BY <2>2, <3>1, <1>1, Fresh, NoRunIsOK
    <2>3. CASE r = Failed
      <3>1. Failed.phase \notin Engaged
        BY <1>2 DEF Engaged
      <3> QED BY <2>3, <3>1, <1>1, <1>2, NoRunIsOK
    <2> QED BY <2>1, <2>2, <2>3
  <1>6. /\ op' \in [Handle -> Commit] /\ run' \in [Handle -> Run]
        /\ mem' \in [Handle -> SessionState]
        /\ mem'[h] = mem[h] /\ op'[h] = NoCommit /\ run'[h] = r
        /\ \A g \in Handle : g # h => mem'[g] = mem[g] /\ op'[g] = op[g] /\ run'[g] = run[g]
    BY <1>1, <1>3, <1>4, <1>5, Fresh
  <1>7. CommitOK(mem'[h], op'[h], run'[h])
    BY <1>6, Fresh DEF CommitOK
  <1>8. log' = log /\ made' = made
    OBVIOUS
  <1> QED BY <1>1, <1>5, <1>6, <1>7, <1>8, QuietStep

LEMMA ConflictIsSafe ==
  ASSUME Inv, NEW h \in Handle, CommitConflicts(h)
  PROVE  Inv'
  <1>1. /\ op[h].stage = "append" /\ op' = [op EXCEPT ![h].stage = "reload"]
        /\ tail' = Repaired /\ UNCHANGED <<log, mem, run, made>>
    BY DEF CommitConflicts
  <1>2. /\ mem \in [Handle -> SessionState] /\ op \in [Handle -> Commit]
        /\ run \in [Handle -> Run]
        /\ MemOK(log, mem[h]) /\ RunOK(log, made, run[h]) /\ CommitOK(mem[h], op[h], run[h])
    BY DEF Inv, TypeOK
  <1>3. /\ op' \in [Handle -> Commit] /\ \A g \in Handle : g # h => op'[g] = op[g]
        /\ op'[h].kind = op[h].kind /\ op'[h].items = op[h].items
        /\ op'[h].covers = op[h].covers /\ op'[h].expected = op[h].expected
    BY <1>1, <1>2 DEF Commit
  <1>4. CommitOK(mem[h], op'[h], run[h])
    BY <1>1, <1>2, <1>3 DEF CommitOK
  <1>5. /\ log' = log /\ made' = made /\ mem' = mem /\ run' = run
        /\ tail' \in {"whole", "torn"}
    BY <1>1, RepairedType
  <1> QED BY <1>2, <1>3, <1>4, <1>5, QuietStep

LEMMA RebaseIsSafe ==
  ASSUME Inv, NEW h \in Handle, CommitRebases(h)
  PROVE  Inv'
  <1>1. /\ op[h].stage = "reload"
        /\ op' = [op EXCEPT ![h].stage = "append", ![h].tries = @ + 1]
        /\ mem' = [mem EXCEPT ![h] = Reloaded(h)]
        /\ tail' = Repaired /\ UNCHANGED <<log, run, made>>
    BY DEF CommitRebases
  <1>2. /\ mem \in [Handle -> SessionState] /\ op \in [Handle -> Commit]
        /\ run \in [Handle -> Run]
        /\ RunOK(log, made, run[h]) /\ CommitOK(mem[h], op[h], run[h])
    BY DEF Inv, TypeOK
  <1>3. /\ op' \in [Handle -> Commit] /\ \A g \in Handle : g # h => op'[g] = op[g]
        /\ op'[h].kind = op[h].kind /\ op'[h].items = op[h].items
        /\ op'[h].covers = op[h].covers /\ op'[h].expected = op[h].expected
    BY <1>1, <1>2 DEF Commit
  <1>4. /\ Reloaded(h) \in SessionState /\ Reloaded(h).open = mem[h].open
        /\ Reloaded(h).next = LastSeq /\ Reloaded(h).view = Context(LastSeq)
        /\ Reloaded(h).seed = SeedAt(LastSeq)
    <2>1. mem[h] \in SessionState
      BY <1>2
    <2> QED BY <2>1, ReadType DEF Reloaded, SessionState
  <1>5. MemOK(log, Reloaded(h))
    BY <1>4, ReadIsOK
  <1>6. /\ mem' \in [Handle -> SessionState] /\ mem'[h] = Reloaded(h)
        /\ \A g \in Handle : g # h => mem'[g] = mem[g]
    BY <1>1, <1>2, <1>4
  <1>7. CommitOK(mem'[h], op'[h], run[h])
    BY <1>1, <1>2, <1>3, <1>4, <1>6 DEF CommitOK
  <1>8. /\ log' = log /\ made' = made /\ run' = run /\ tail' \in {"whole", "torn"}
    BY <1>1, RepairedType
  <1> QED BY <1>2, <1>3, <1>5, <1>6, <1>7, <1>8, QuietStep

LEMMA RefusalsAreSafe ==
  ASSUME Inv, NEW h \in Handle, CommitIsStale(h) \/ CommitFails(h) \/ CommitGivesUp(h)
  PROVE  Inv'
  <1>1. Refuse(h) /\ UNCHANGED <<log, mem, made>>
    BY DEF CommitIsStale, CommitFails, CommitGivesUp
  <1>2. tail' \in {"whole", "torn"}
    BY RepairedType DEF CommitIsStale, CommitFails, CommitGivesUp
  <1> QED BY <1>1, <1>2, RefusalIsSafe

(***************************************************************************)
(* The writers.                                                             *)
(***************************************************************************)

\* A commit that begins keeps the invariant if it is its caller's.
LEMMA BeginIsSafe ==
  ASSUME Inv, NEW h \in Handle, NEW kind \in {"turn", "stats", "compact", "clear"},
         NEW items \in SUBSET Item, NEW covers \in SUBSET Item, NEW expected \in Nat,
         NEW payload \in Payload \cup {NoCall},
         Begin(h, kind, items, covers, expected, payload),
         UNCHANGED <<log, tail, mem, made>>,
         run' \in [Handle -> Run], \A g \in Handle : g # h => run'[g] = run[g],
         RunOK(log, made, run'[h]), run'[h].pending = run[h].pending,
         \A o \in Commit :
           o.kind = kind /\ o.items = items /\ o.covers = covers /\ o.expected = expected
             => CommitOK(mem[h], o, run'[h])
  PROVE  Inv'
  <1>1. /\ op' \in [Handle -> Commit] /\ \A g \in Handle : g # h => op'[g] = op[g]
        /\ op'[h].kind = kind /\ op'[h].items = items
        /\ op'[h].covers = covers /\ op'[h].expected = expected
    <2> DEFINE o == [stage |-> "append", kind |-> kind, items |-> items, covers |-> covers,
                     call |-> IF Stripped(h, payload) THEN Same ELSE payload, sent |-> payload,
                     expected |-> expected, tries |-> 0]
    <2>1. op' = [op EXCEPT ![h] = o]
      BY DEF Begin
    <2>2. o \in Commit /\ o.kind = kind /\ o.items = items /\ o.covers = covers
          /\ o.expected = expected
      BY DEF Commit
    <2> HIDE DEF o
    <2>3. op \in [Handle -> Commit]
      BY DEF Inv, TypeOK
    <2> QED BY <2>1, <2>2, <2>3
  <1>2. CommitOK(mem[h], op'[h], run'[h])
    BY <1>1
  <1>3. /\ mem \in [Handle -> SessionState] /\ MemOK(log, mem[h])
        /\ tail \in {"whole", "torn"}
    BY RepairedType DEF Inv, TypeOK
  <1>4. mem' = mem /\ log' = log /\ made' = made /\ tail' = tail
    OBVIOUS
  <1> QED BY <1>1, <1>2, <1>3, <1>4, QuietStep

LEMMA StatsIsSafe ==
  ASSUME Inv, NEW h \in Handle, WriteStats(h)
  PROVE  Inv'
  <1>1. /\ run[h].phase \in {"none", "planned", "done", "failed"}
        /\ Begin(h, "stats", {}, {}, 0, NoCall) /\ UNCHANGED <<log, tail, mem, run, made>>
    BY DEF WriteStats
  <1>2. mem[h].open
    BY <1>1 DEF Begin
  <1>3. ASSUME NEW o \in Commit, o.kind = "stats", o.items = {}, o.covers = {}
        PROVE  CommitOK(mem[h], o, run[h])
    BY <1>1, <1>2, <1>3 DEF CommitOK
  <1>4. run \in [Handle -> Run] /\ RunOK(log, made, run[h]) /\ run' = run
    BY <1>1 DEF Inv, TypeOK
  <1>5. {} \in SUBSET Item /\ 0 \in Nat /\ NoCall \in Payload \cup {NoCall}
    OBVIOUS
  <1> QED BY <1>1, <1>3, <1>4, <1>5, BeginIsSafe

LEMMA ClearIsSafe ==
  ASSUME Inv, NEW h \in Handle, WriteClear(h)
  PROVE  Inv'
  <1>1. /\ run[h].phase = "none"
        /\ Begin(h, "clear", {}, {}, 0, NoCall) /\ UNCHANGED <<log, tail, mem, run, made>>
    BY DEF WriteClear
  <1>2. mem[h].open
    BY <1>1 DEF Begin
  <1>3. ASSUME NEW o \in Commit, o.kind = "clear", o.items = {}, o.covers = {}
        PROVE  CommitOK(mem[h], o, run[h])
    BY <1>1, <1>2, <1>3 DEF CommitOK
  <1>4. run \in [Handle -> Run] /\ RunOK(log, made, run[h]) /\ run' = run
    BY <1>1 DEF Inv, TypeOK
  <1>5. {} \in SUBSET Item /\ 0 \in Nat /\ NoCall \in Payload \cup {NoCall}
    OBVIOUS
  <1> QED BY <1>1, <1>3, <1>4, <1>5, BeginIsSafe

\* A marker is written from a plan, or from a run between whose batches nobody
\* else has written.
LEMMA MarkerIsSafe ==
  ASSUME Inv, NEW h \in Handle, WriteCompaction(h) \/ RunWritesCompaction(h)
  PROVE  Inv'
  <1>1. /\ \/ run[h].phase = "planned"
           \/ run[h].phase = "compacting" /\ ~run[h].rebased
        /\ Begin(h, "compact", {}, run[h].known, run[h].expected, NoCall)
        /\ UNCHANGED <<log, tail, mem, run, made>>
    <2>1. CASE WriteCompaction(h)
      BY <2>1 DEF WriteCompaction
    <2>2. CASE RunWritesCompaction(h)
      BY <2>2 DEF RunWritesCompaction
    <2> QED BY <2>1, <2>2
  <1>2. mem[h].open
    BY <1>1 DEF Begin
  <1>3. ASSUME NEW o \in Commit, o.kind = "compact", o.items = {}, o.covers = run[h].known,
               o.expected = run[h].expected
        PROVE  CommitOK(mem[h], o, run[h])
    BY <1>1, <1>2, <1>3 DEF CommitOK
  <1>4. run \in [Handle -> Run] /\ RunOK(log, made, run[h]) /\ run' = run
    BY <1>1 DEF Inv, TypeOK
  <1>5. /\ {} \in SUBSET Item /\ NoCall \in Payload \cup {NoCall}
        /\ run[h].known \in SUBSET Item /\ run[h].expected \in Nat
    BY <1>4 DEF Run
  <1> QED BY <1>1, <1>3, <1>4, <1>5, BeginIsSafe

\* A step of the caller alone, with no commit on its way.
LEMMA CallerStep ==
  ASSUME Inv, NEW h \in Handle, op[h].stage = "idle", NEW r \in Run,
         run' = [run EXCEPT ![h] = r], UNCHANGED <<log, tail, mem, op, made>>,
         RunOK(log, made, r), r.pending \subseteq run[h].pending
  PROVE  Inv'
  <1>1. /\ mem \in [Handle -> SessionState] /\ op \in [Handle -> Commit]
        /\ run \in [Handle -> Run] /\ MemOK(log, mem[h]) /\ tail \in {"whole", "torn"}
    BY RepairedType DEF Inv, TypeOK
  <1>2. /\ run' \in [Handle -> Run] /\ run'[h] = r
        /\ \A g \in Handle : g # h => run'[g] = run[g]
    BY <1>1
  <1>3. CommitOK(mem[h], op[h], r)
    BY DEF CommitOK
  <1>4. mem' = mem /\ op' = op /\ log' = log /\ made' = made /\ tail' = tail
    OBVIOUS
  <1> QED BY <1>1, <1>2, <1>3, <1>4, QuietStep

LEMMA PlanDroppedIsSafe ==
  ASSUME Inv, NEW h \in Handle, PlanDropped(h)
  PROVE  Inv'
  <1>1. /\ op[h].stage = "idle" /\ run' = [run EXCEPT ![h] = NoRun]
        /\ UNCHANGED <<log, tail, mem, op, made>>
    BY DEF PlanDropped
  <1>2. RunOK(log, made, NoRun)
    <2>1. NoRun.phase \notin Engaged
      BY Fresh DEF Engaged
    <2> QED BY <2>1, Fresh, NoRunIsOK DEF Inv, TypeOK, FileOK
  <1> QED BY <1>1, <1>2, Fresh, CallerStep

\* context_snapshot: a plan or a run begins with what the file says.
LEMMA SnapshotIsSafe ==
  ASSUME Inv, NEW h \in Handle, PlanCompaction(h) \/ RunStarts(h)
  PROVE  Inv'
  <1>1. /\ mem[h].open /\ op[h].stage = "idle" /\ UNCHANGED <<log, tail, mem, op, made>>
        /\ \E p \in {"planned", "running"} :
             run' = [run EXCEPT ![h] = [phase |-> p, known |-> mem[h].view,
                                        expected |-> mem[h].next, rebased |-> FALSE,
                                        pending |-> {}]]
    BY DEF PlanCompaction, RunStarts, NoRun
  <1>2. PICK p \in {"planned", "running"} :
          run' = [run EXCEPT ![h] = [phase |-> p, known |-> mem[h].view,
                                     expected |-> mem[h].next, rebased |-> FALSE,
                                     pending |-> {}]]
    BY <1>1
  <1> DEFINE r == [phase |-> p, known |-> mem[h].view, expected |-> mem[h].next,
                   rebased |-> FALSE, pending |-> {}]
  <1>3. /\ mem[h] \in SessionState /\ MemOK(log, mem[h]) /\ FileOK(log, made)
        /\ log \in Seq(Batch)
    BY DEF Inv, TypeOK
  <1>4. /\ r \in Run /\ r.phase = p /\ r.known = mem[h].view /\ r.expected = mem[h].next
        /\ r.rebased = FALSE /\ r.pending = {}
    BY <1>3 DEF Run, SessionState
  <1>5. run' = [run EXCEPT ![h] = r]
    BY <1>2
  <1> HIDE DEF r
  <1>6. /\ mem[h].next \in Nat /\ mem[h].next <= LastOf(log)
        /\ mem[h].view = ContextOf(log, mem[h].next)
    BY <1>1, <1>3 DEF MemOK, SessionState
  <1>7. ContextOf(log, mem[h].next) \subseteq Saved(log)
    BY <1>3, <1>6, ContextIsSaved DEF FileOK
  <1>8. RunOK(log, made, r)
    BY <1>4, <1>6, <1>7 DEF RunOK
  <1>9. r.pending \subseteq run[h].pending
    BY <1>4
  <1> QED BY <1>1, <1>4, <1>5, <1>8, <1>9, CallerStep

LEMMA SkipIsSafe ==
  ASSUME Inv, NEW h \in Handle, RunSkipsCompaction(h)
  PROVE  Inv'
  <1>1. /\ run[h].phase = "compacting" /\ run[h].rebased
        /\ run' = [run EXCEPT ![h].phase = "running"]
        /\ UNCHANGED <<log, tail, mem, op, made>>
    BY DEF RunSkipsCompaction
  <1>2. /\ run \in [Handle -> Run] /\ RunOK(log, made, run[h])
        /\ CommitOK(mem[h], op[h], run[h]) /\ op[h] \in Commit
    BY DEF Inv, TypeOK
  <1>3. op[h].stage = "idle"
    BY <1>1, <1>2 DEF CommitOK, Commit
  <1> DEFINE r == [run[h] EXCEPT !.phase = "running"]
  <1>4. /\ r \in Run /\ r.phase = "running" /\ r.known = run[h].known
        /\ r.expected = run[h].expected /\ r.rebased = run[h].rebased
        /\ r.pending = run[h].pending
    BY <1>2 DEF Run
  <1>5. run' = [run EXCEPT ![h] = r]
    BY <1>1, <1>2
  <1> HIDE DEF r
  <1>6. RunOK(log, made, r)
    BY <1>1, <1>2, <1>4 DEF RunOK
  <1> QED BY <1>1, <1>3, <1>4, <1>5, <1>6, CallerStep

LEMMA ProduceIsSafe ==
  ASSUME Inv, NEW h \in Handle, RunProduces(h)
  PROVE  Inv'
  <1>1. /\ run[h].phase = "running" /\ made' = made + 1
        /\ run' = [run EXCEPT ![h].known = @ \cup {made'}, ![h].pending = @ \cup {made'}]
        /\ UNCHANGED <<log, tail, mem, op>>
    BY DEF RunProduces
  <1>2. /\ run \in [Handle -> Run] /\ RunOK(log, made, run[h]) /\ made \in Nat
        /\ mem \in [Handle -> SessionState] /\ op \in [Handle -> Commit]
        /\ MemOK(log, mem[h]) /\ CommitOK(mem[h], op[h], run[h]) /\ op[h] \in Commit
        /\ tail \in {"whole", "torn"}
    BY RepairedType DEF Inv, TypeOK
  <1>3. op[h].stage = "idle"
    BY <1>1, <1>2 DEF CommitOK, Commit
  <1>0. PICK x \in Nat : x = made'
    BY <1>1, <1>2
  <1> DEFINE r == [run[h] EXCEPT !.known = @ \cup {x}, !.pending = @ \cup {x}]
  <1>4. run' = [run EXCEPT ![h] = r]
    BY <1>0, <1>1, <1>2
  <1>5. /\ r \in Run /\ r.phase = "running" /\ r.known = run[h].known \cup {made'}
        /\ r.expected = run[h].expected /\ r.rebased = run[h].rebased
        /\ r.pending = run[h].pending \cup {made'}
    <2>1. run[h] \in Run
      BY <1>2
    <2>2. /\ r \in Run /\ r.phase = run[h].phase /\ r.known = run[h].known \cup {x}
          /\ r.expected = run[h].expected /\ r.rebased = run[h].rebased
          /\ r.pending = run[h].pending \cup {x}
      BY <2>1 DEF Run, Item
    <2> QED BY <2>2, <1>0, <1>1
  <1> HIDE DEF r
  <1>6. made' \notin 1 .. made /\ made' \in 1 .. made' /\ 1 .. made \subseteq 1 .. made'
        /\ made <= made' /\ made' \in Nat
    BY <1>1, <1>2
  <1>7. made' \notin Saved(log)
    BY <1>6 DEF Inv, FileOK, Saved
  <1>8. RunOK(log, made', r)
    <2>1. r.pending \subseteq 1 .. made'
      BY <1>2, <1>5, <1>6 DEF RunOK
    <2>2. r.pending \cap Saved(log) = {} /\ r.known \subseteq Saved(log) \cup r.pending
      BY <1>2, <1>5, <1>7 DEF RunOK
    <2>3. ~r.rebased => r.known = ContextOf(log, r.expected) \cup r.pending
      BY <1>1, <1>2, <1>5 DEF RunOK, Engaged
    <2>4. r.expected <= LastOf(log)
      BY <1>2, <1>5 DEF RunOK
    <2> QED BY <1>5, <2>1, <2>2, <2>3, <2>4 DEF RunOK
  <1>9. /\ run' \in [Handle -> Run] /\ run'[h] = r
        /\ \A g \in Handle : g # h => run'[g] = run[g]
    BY <1>2, <1>4, <1>5
  <1>10. \A y \in run'[h].pending : y \in run[h].pending \/ y \notin 1 .. made
    BY <1>5, <1>6, <1>9
  <1>11. CommitOK(mem'[h], op'[h], run'[h]) /\ MemOK(log, mem'[h]) /\ RunOK(log, made', run'[h])
    BY <1>1, <1>2, <1>3, <1>8, <1>9 DEF CommitOK
  <1>12. /\ mem' \in [Handle -> SessionState] /\ op' \in [Handle -> Commit]
         /\ log' = log /\ tail' \in {"whole", "torn"}
         /\ \A g \in Handle : g # h => mem'[g] = mem[g] /\ op'[g] = op[g] /\ run'[g] = run[g]
    BY <1>1, <1>2, <1>9
  <1> QED BY <1>6, <1>9, <1>10, <1>11, <1>12, LocalStep

\* A flush commits all that is pending; with nothing pending the run goes on.
LEMMA FlushIsSafe ==
  ASSUME Inv, NEW h \in Handle, NEW phase \in {"flushing", "precompact", "final"},
         NEW otherwise \in {"running", "compacting", "done"}, Flush(h, phase, otherwise)
  PROVE  Inv'
  <1>1. /\ run \in [Handle -> Run] /\ RunOK(log, made, run[h])
        /\ CommitOK(mem[h], op[h], run[h]) /\ op[h] \in Commit
        /\ run[h].phase = "running" /\ UNCHANGED <<log, tail, mem, made>>
    BY DEF Inv, TypeOK, Flush
  <1>2. op[h].stage = "idle"
    BY <1>1 DEF CommitOK, Commit
  <1>3. ASSUME NEW p \in {"flushing", "precompact", "final", "running", "compacting", "done"},
               p \in {"running", "compacting", "done"} => run[h].pending = {}
        PROVE  /\ [run[h] EXCEPT !.phase = p] \in Run
               /\ [run[h] EXCEPT !.phase = p].phase = p
               /\ [run[h] EXCEPT !.phase = p].pending = run[h].pending
               /\ RunOK(log, made, [run[h] EXCEPT !.phase = p])
    <2> DEFINE r == [run[h] EXCEPT !.phase = p]
    <2>1. /\ r \in Run /\ r.phase = p /\ r.known = run[h].known
          /\ r.expected = run[h].expected /\ r.rebased = run[h].rebased
          /\ r.pending = run[h].pending
      BY <1>1 DEF Run
    <2> HIDE DEF r
    <2>2. RunOK(log, made, r)
      BY <1>1, <1>3, <2>1 DEF RunOK, Engaged
    <2> QED BY <2>1, <2>2 DEF r
  <1>4. CASE run[h].pending = {}
    <2> DEFINE r == [run[h] EXCEPT !.phase = otherwise]
    <2>1. /\ run' = [run EXCEPT ![h] = r] /\ op' = op
      BY <1>1, <1>4 DEF Flush
    <2>2. r \in Run /\ r.pending = run[h].pending /\ RunOK(log, made, r)
      BY <1>3, <1>4
    <2> HIDE DEF r
    <2>3. UNCHANGED <<log, tail, mem, op, made>> /\ r.pending \subseteq run[h].pending
      BY <1>1, <2>1, <2>2
    <2> QED BY <1>2, <2>1, <2>2, <2>3, CallerStep
  <1>5. CASE run[h].pending # {}
    <2> DEFINE r == [run[h] EXCEPT !.phase = phase]
    <2>1. PICK payload \in Payload \cup {NoCall} :
            Begin(h, "turn", run[h].pending, {}, 0, payload)
      BY <1>5 DEF Flush
    <2>2. run' = [run EXCEPT ![h] = r]
      BY <1>1, <1>5 DEF Flush
    <2>3. /\ r \in Run /\ r.phase = phase /\ r.pending = run[h].pending
          /\ RunOK(log, made, r)
      BY <1>3, <1>5
    <2> HIDE DEF r
    <2>4. /\ run' \in [Handle -> Run] /\ run'[h] = r
          /\ \A g \in Handle : g # h => run'[g] = run[g]
      BY <1>1, <2>2, <2>3
    <2>5. mem[h].open
      BY <2>1 DEF Begin
    <2>6. ASSUME NEW o \in Commit, o.kind = "turn", o.items = run[h].pending, o.covers = {}
          PROVE  CommitOK(mem[h], o, run'[h])
      BY <1>5, <2>3, <2>4, <2>5, <2>6 DEF CommitOK
    <2>7. {} \in SUBSET Item /\ 0 \in Nat /\ run[h].pending \in SUBSET Item
      BY <1>1 DEF Run
    <2>8. RunOK(log, made, run'[h]) /\ run'[h].pending = run[h].pending
      BY <2>3, <2>4
    <2> QED BY <1>1, <2>1, <2>4, <2>6, <2>7, <2>8, BeginIsSafe
  <1> QED BY <1>4, <1>5

LEMMA FlushesAreSafe ==
  ASSUME Inv, NEW h \in Handle, RunEndsTurn(h) \/ RunCompacts(h) \/ RunEnds(h)
  PROVE  Inv'
  <1>1. \E phase \in {"flushing", "precompact", "final"},
           otherwise \in {"running", "compacting", "done"} : Flush(h, phase, otherwise)
    BY DEF RunEndsTurn, RunCompacts, RunEnds
  <1> QED BY <1>1, FlushIsSafe

-----------------------------------------------------------------------------
(***************************************************************************)
(* An accepted batch.                                                       *)
(***************************************************************************)

\* What a commit adds to the file.
LEMMA NewBatchIs ==
  ASSUME Inv, NEW h \in Handle, op[h].stage = "append", Accepted(h)
  PROVE  /\ NewBatch(h) \in Batch /\ NewBatch(h).size \in Nat
         /\ NewBatch(h).first = LastOf(log) + 1 /\ NewBatch(h).size > 0
         /\ LastOf(log) = mem[h].next /\ LastOf(log) \in Nat
         /\ NewBatch(h).kind = op[h].kind /\ NewBatch(h).items = op[h].items
         /\ NewBatch(h).covers = op[h].covers /\ NewBatch(h).sent = op[h].sent
         /\ op[h].kind # "turn" => NewBatch(h).size = 1
  <1>1. /\ op[h] \in Commit /\ mem[h] \in SessionState
        /\ CommitOK(mem[h], op[h], run[h]) /\ RunOK(log, made, run[h]) /\ made \in Nat
    BY DEF Inv, TypeOK
  <1>2. LastOf(log) = mem[h].next /\ LastOf(log) \in Nat
    BY LastOfType, SameWords DEF Inv, TypeOK, FileOK, Accepted
  <1>3. ASSUME op[h].kind = "turn"
        PROVE  Cardinality(op[h].items) \in Nat /\ Cardinality(op[h].items) > 0
    <2>1. op[h].items # {} /\ op[h].items \in SUBSET (1 .. made)
      BY <1>1, <1>3 DEF CommitOK, RunOK
    <2>2. IsFiniteSet(1 .. made)
      BY <1>1, FS_Interval
    <2>3. IsFiniteSet(op[h].items)
      BY <2>1, <2>2, FS_Subset
    <2>4. Cardinality(op[h].items) \in Nat /\ Cardinality(op[h].items) # 0
      BY <2>1, <2>3, FS_CardinalityType, FS_EmptySet
    <2> QED BY <2>4
  <1> DEFINE size == IF op[h].kind = "turn" THEN Cardinality(op[h].items) ELSE 1
  <1>4. size \in Nat /\ size > 0 /\ (op[h].kind # "turn" => size = 1)
    BY <1>3
  <1>5. NewBatch(h) = [by |-> h, first |-> mem[h].next + 1, size |-> size,
                       kind |-> op[h].kind, items |-> op[h].items, covers |-> op[h].covers,
                       call |-> op[h].call, sent |-> op[h].sent]
    BY DEF NewBatch
  <1> HIDE DEF size
  <1>6. mem[h].next + 1 \in Nat
    BY <1>1 DEF SessionState
  <1> QED BY <1>1, <1>2, <1>4, <1>5, <1>6 DEF Batch, Commit

\* What the session holds afterwards is what the file says.
LEMMA PublishedIsOK ==
  ASSUME Inv, NEW h \in Handle, op[h].stage = "append", Accepted(h)
  PROVE  /\ Published(h) \in SessionState
         /\ MemOK(Append(log, NewBatch(h)), Published(h))
  <1> DEFINE b == NewBatch(h)
             m == mem[h]
             p == Published(h)
  <1>1. /\ b \in Batch /\ b.size \in Nat /\ b.size > 0
        /\ b.first = LastOf(log) + 1 /\ LastOf(log) = m.next /\ LastOf(log) \in Nat
        /\ b.kind = op[h].kind
    BY NewBatchIs
  <1>2. /\ m \in SessionState /\ m.open /\ MemOK(log, m) /\ log \in Seq(Batch)
        /\ Ordered(log)
    BY DEF Inv, TypeOK, FileOK, CommitOK
  <1>3. p = [m EXCEPT !.next = @ + b.size,
                      !.view = IF b.kind \in {"compact", "clear"} THEN b.covers
                                                                  ELSE @ \cup b.items,
                      !.seed = IF b.kind = "compact" THEN b.first
                               ELSE IF b.kind = "clear" THEN 0 ELSE @,
                      !.hash = IF b.sent = NoCall THEN @ ELSE b.sent]
    BY DEF Published
  <1> HIDE DEF b, m, p
  <1>4. /\ b.first \in Nat /\ b.items \in SUBSET Item /\ b.covers \in SUBSET Item
        /\ b.sent \in Payload \cup {NoCall} /\ b.kind \in {"turn", "stats", "compact", "clear"}
    BY <1>1 DEF Batch
  <1>5. /\ m.next \in Nat /\ m.view \in SUBSET Item /\ m.seed \in Nat
    BY <1>2 DEF SessionState
  <1>6. /\ p.open = m.open /\ p.next = m.next + b.size
        /\ p.view = IF b.kind \in {"compact", "clear"} THEN b.covers ELSE m.view \cup b.items
        /\ p.seed = IF b.kind = "compact" THEN b.first
                    ELSE IF b.kind = "clear" THEN 0 ELSE m.seed
    BY <1>2, <1>3 DEF SessionState
  <1>7. p \in SessionState
    <2> DEFINE next == m.next + b.size
               view == IF b.kind \in {"compact", "clear"} THEN b.covers ELSE m.view \cup b.items
               seed == IF b.kind = "compact" THEN b.first
                       ELSE IF b.kind = "clear" THEN 0 ELSE m.seed
               hash == IF b.sent = NoCall THEN m.hash ELSE b.sent
    <2>1. next \in Nat
      BY <1>1, <1>5
    <2>2. view \in SUBSET Item
      BY <1>4, <1>5
    <2>3. seed \in Nat
      BY <1>4, <1>5
    <2>4. hash \in Payload \cup {NoCall}
      BY <1>2, <1>4 DEF SessionState
    <2>5. p = [m EXCEPT !.next = next, !.view = view, !.seed = seed, !.hash = hash]
      BY <1>3
    <2> HIDE DEF next, view, seed, hash
    <2> QED BY <1>2, <2>1, <2>2, <2>3, <2>4, <2>5 DEF SessionState
  <1>8. MemOK(Append(log, b), p)
    <2>1. p.next \in Nat /\ p.next >= b.first /\ p.next = LastOf(Append(log, b))
      <3>1. LastOf(Append(log, b)) = b.first + b.size - 1
        BY <1>1, <1>2, LastOfGrown
      <3>2. b.first = m.next + 1 /\ p.next = m.next + b.size
        BY <1>1, <1>6
      <3>3. m.next \in Nat /\ b.size \in Nat /\ b.size > 0
        BY <1>1, <1>5
      <3> QED BY <3>1, <3>2, <3>3
    <2>2. m.view = ContextOf(log, LastOf(log)) /\ m.seed = SeedOf(log, LastOf(log))
      BY <1>1, <1>2 DEF MemOK
    <2>3. CASE b.kind \in {"turn", "stats"}
      <3>1. /\ ContextOf(Append(log, b), p.next) = ContextOf(log, LastOf(log)) \cup b.items
            /\ SeedOf(Append(log, b), p.next) = SeedOf(log, LastOf(log))
        BY <1>1, <1>2, <2>1, <2>3, NewerContext
      <3>2. p.view = m.view \cup b.items /\ p.seed = m.seed
        BY <1>6, <2>3
      <3> QED BY <2>1, <2>2, <3>1, <3>2 DEF MemOK
    <2>4. CASE b.kind \in {"compact", "clear"}
      <3>1. /\ ContextOf(Append(log, b), p.next) = b.covers
            /\ SeedOf(Append(log, b), p.next) = IF b.kind = "compact" THEN b.first ELSE 0
        BY <1>1, <1>2, <2>1, <2>4, NewerContext
      <3>2. p.view = b.covers /\ p.seed = IF b.kind = "compact" THEN b.first ELSE 0
        BY <1>6, <2>4
      <3> QED BY <2>1, <3>1, <3>2 DEF MemOK
    <2> QED BY <1>4, <2>3, <2>4
  <1> QED BY <1>7, <1>8 DEF b, p

\* What the caller makes of it.
LEMMA AcceptIs ==
  ASSUME Inv, NEW h \in Handle, Accept(h)
  PROVE  \E r : run' = [run EXCEPT ![h] = r] /\
    \/ /\ NewBatch(h).kind = "turn"
       /\ \E phase \in {"compacting", "done", "running"} :
            r = [run[h] EXCEPT
                   !.rebased = run[h].rebased \/ mem[h].next + NewBatch(h).size
                                                   # run[h].expected + NewBatch(h).size,
                   !.expected = mem[h].next + NewBatch(h).size,
                   !.pending = run[h].pending \ op[h].items,
                   !.phase = phase]
    \/ /\ NewBatch(h).kind = "compact" /\ run[h].phase = "compacting"
       /\ r = [run[h] EXCEPT !.expected = run[h].expected + 1, !.phase = "running"]
    \/ NewBatch(h).kind = "stats" /\ run[h].phase = "planned" /\ r = run[h]
    \/ r = NoRun
  <1> DEFINE b == NewBatch(h)
             next == mem[h].next + b.size
             after == CASE run[h].phase = "precompact" -> "compacting"
                        [] run[h].phase = "final" -> "done"
                        [] OTHER -> "running"
             turned == [run[h] EXCEPT !.rebased = Rebased(h, next, b.size), !.expected = next,
                                      !.pending = StillPending(h), !.phase = after]
             marked == [run[h] EXCEPT !.expected = run[h].expected + 1, !.phase = "running"]
  <1>1. run' = [run EXCEPT ![h] =
                  CASE b.kind = "turn" -> turned
                    [] b.kind = "compact" /\ run[h].phase = "compacting" -> marked
                    [] b.kind = "stats" /\ run[h].phase = "planned" -> run[h]
                    [] OTHER -> NoRun]
    BY DEF Accept
  <1>2. CASE b.kind = "turn"
    <2>1. run' = [run EXCEPT ![h] = turned]
      <3> HIDE DEF turned, marked, b
      <3> QED BY <1>1, <1>2
    <2>2. after \in {"compacting", "done", "running"}
      OBVIOUS
    <2>3. turned = [run[h] EXCEPT
                   !.rebased = run[h].rebased \/ next # run[h].expected + b.size,
                   !.expected = next,
                   !.pending = run[h].pending \ op[h].items,
                   !.phase = after]
      BY DEF Rebased, StillPending
    <2> QED BY <1>2, <2>1, <2>2, <2>3
  <1>3. CASE b.kind = "compact" /\ run[h].phase = "compacting"
    <2>1. run' = [run EXCEPT ![h] = marked]
      <3> HIDE DEF turned, marked, b
      <3> QED BY <1>1, <1>3
    <2> QED BY <1>3, <2>1
  <1>4. CASE b.kind = "stats" /\ run[h].phase = "planned"
    <2>1. run' = [run EXCEPT ![h] = run[h]]
      <3> HIDE DEF turned, marked, b
      <3> QED BY <1>1, <1>4
    <2> QED BY <1>4, <2>1
  <1>5. CASE /\ b.kind # "turn" /\ ~(b.kind = "compact" /\ run[h].phase = "compacting")
             /\ ~(b.kind = "stats" /\ run[h].phase = "planned")
    <2>1. run' = [run EXCEPT ![h] = NoRun]
      <3> HIDE DEF turned, marked, b
      <3> QED BY <1>1, <1>5
    <2> QED BY <2>1
  <1> QED BY <1>2, <1>3, <1>4, <1>5

\* The run goes on from what it has just saved: when nobody else wrote before
\* it, it still knows what the file says.
LEMMA AcceptedIsOK ==
  ASSUME Inv, NEW h \in Handle, op[h].stage = "append", ~Stale(h), Accepted(h), Accept(h)
  PROVE  /\ run' \in [Handle -> Run] /\ \A g \in Handle : g # h => run'[g] = run[g]
         /\ RunOK(Append(log, NewBatch(h)), made, run'[h])
         /\ run'[h].pending \subseteq run[h].pending
  <1> DEFINE b == NewBatch(h)
             o == op[h]
             l == Append(log, b)
             last == LastOf(log)
  <1>1. /\ b \in Batch /\ b.size \in Nat /\ b.size > 0
        /\ b.first = last + 1 /\ last = mem[h].next /\ last \in Nat
        /\ b.kind = o.kind /\ b.items = o.items /\ b.covers = o.covers
        /\ o.kind # "turn" => b.size = 1
    BY NewBatchIs
  <1>2. /\ run \in [Handle -> Run] /\ run[h] \in Run /\ log \in Seq(Batch) /\ Ordered(log)
        /\ CommitOK(mem[h], o, run[h]) /\ RunOK(log, made, run[h]) /\ o \in Commit
    BY DEF Inv, TypeOK, FileOK
  <1>3. o.kind = "compact" => mem[h].next = o.expected
    BY DEF Stale
  <1>4. PICK r : run' = [run EXCEPT ![h] = r] /\
          \/ /\ b.kind = "turn"
             /\ \E phase \in {"compacting", "done", "running"} :
                  r = [run[h] EXCEPT
                         !.rebased = run[h].rebased \/ mem[h].next + b.size
                                                         # run[h].expected + b.size,
                         !.expected = mem[h].next + b.size,
                         !.pending = run[h].pending \ o.items,
                         !.phase = phase]
          \/ /\ b.kind = "compact" /\ run[h].phase = "compacting"
             /\ r = [run[h] EXCEPT !.expected = run[h].expected + 1, !.phase = "running"]
          \/ b.kind = "stats" /\ run[h].phase = "planned" /\ r = run[h]
          \/ r = NoRun
    BY AcceptIs
  <1>5. /\ l \in Seq(Batch) /\ Ordered(l) /\ LastOf(l) = last + b.size
        /\ Saved(l) = Saved(log) \cup b.items
    BY <1>1, <1>2, Grown, OrderedGrows, LastOfGrown, SavedGrows
  <1>6. last + b.size \in Nat /\ last + b.size >= b.first
    BY <1>1
  <1>7. o.stage # "idle"
    OBVIOUS
  <1> HIDE DEF b, o, l, last
  <1>8. /\ b.kind \in {"turn", "stats"} =>
             ContextOf(l, last + b.size) = ContextOf(log, last) \cup b.items
        /\ b.kind = "compact" => ContextOf(l, last + b.size) = b.covers
    BY <1>1, <1>2, <1>6, NewerContext DEF l, last
  <1>9. r \in Run /\ RunOK(l, made, r) /\ r.pending \subseteq run[h].pending
    <2>1. CASE b.kind = "turn" /\ r # NoRun
      <3>1. PICK phase \in {"compacting", "done", "running"} :
              r = [run[h] EXCEPT
                     !.rebased = run[h].rebased \/ mem[h].next + b.size
                                                     # run[h].expected + b.size,
                     !.expected = mem[h].next + b.size,
                     !.pending = run[h].pending \ o.items,
                     !.phase = phase]
        BY <1>4, <2>1
      <3>2. /\ o.items = run[h].pending /\ o.covers = {}
            /\ run[h].phase \in {"flushing", "precompact", "final"}
        BY <1>1, <1>2, <1>7, <2>1 DEF CommitOK
      <3>3. mem[h].next + b.size = last + b.size
        BY <1>1
      <3> DEFINE rebased == run[h].rebased \/ last + b.size # run[h].expected + b.size
                 next == last + b.size
      <3>4. r = [run[h] EXCEPT !.rebased = rebased, !.expected = next, !.pending = {},
                               !.phase = phase]
        <4>1. run[h].pending \ o.items = {}
          BY <3>2
        <4> QED BY <3>1, <3>3, <4>1
      <3>5. rebased \in BOOLEAN /\ next \in Nat
        BY <1>2, <1>6 DEF Run
      <3>6. ~rebased => ~run[h].rebased /\ run[h].expected = last
        <4>1. run[h].expected \in Nat
          BY <1>2 DEF Run
        <4> QED BY <4>1, <1>1
      <3> HIDE DEF rebased, next
      <3>7. /\ r \in Run /\ r.phase = phase /\ r.known = run[h].known /\ r.expected = next
            /\ r.rebased = rebased /\ r.pending = {}
        BY <1>2, <3>4, <3>5 DEF Run
      <3>8. r.known \subseteq Saved(l)
        BY <1>1, <1>2, <1>5, <3>2, <3>7 DEF RunOK
      <3>9. ~r.rebased => r.known = ContextOf(l, r.expected)
        <4> SUFFICES ASSUME ~rebased PROVE run[h].known = ContextOf(l, next)
          BY <3>7
        <4>1. run[h].known = ContextOf(log, last) \cup run[h].pending
          BY <1>2, <3>2, <3>6 DEF RunOK, Engaged
        <4> QED BY <1>1, <1>8, <2>1, <3>2, <4>1 DEF next
      <3>10. r.expected <= LastOf(l)
        BY <1>5, <1>6, <3>7 DEF next
      <3> QED BY <3>7, <3>8, <3>9, <3>10 DEF RunOK
    <2>2. CASE b.kind = "compact" /\ run[h].phase = "compacting" /\ r # NoRun
      <3>1. r = [run[h] EXCEPT !.expected = run[h].expected + 1, !.phase = "running"]
        BY <1>4, <2>2
      <3>2. /\ o.expected = run[h].expected /\ o.covers = run[h].known /\ o.items = {}
            /\ ~run[h].rebased /\ b.size = 1
        BY <1>1, <1>2, <1>7, <2>2 DEF CommitOK
      <3>3. run[h].expected = last /\ run[h].expected + 1 = last + b.size
        BY <1>1, <1>3, <2>2, <3>2
      <3>4. run[h].expected + 1 \in Nat
        BY <1>6, <3>3
      <3>5. /\ r \in Run /\ r.phase = "running" /\ r.known = run[h].known
            /\ r.expected = run[h].expected + 1 /\ r.rebased = run[h].rebased
            /\ r.pending = run[h].pending
        BY <1>2, <3>1, <3>4 DEF Run
      <3>6. run[h].pending = {}
        BY <1>2, <2>2 DEF RunOK
      <3>7. r.known = ContextOf(l, r.expected)
        BY <1>1, <1>8, <2>2, <3>2, <3>3, <3>5
      <3>8. r.known \subseteq Saved(l)
        BY <1>2, <1>5, <3>5, <3>6 DEF RunOK
      <3>9. r.expected <= LastOf(l)
        BY <1>5, <1>6, <3>3, <3>5
      <3> QED BY <3>5, <3>6, <3>7, <3>8, <3>9 DEF RunOK
    <2>3. CASE b.kind = "stats" /\ run[h].phase = "planned" /\ r = run[h]
      <3>1. b.items \cap run[h].pending = {}
        BY <1>1, <1>2, <1>7, <2>3 DEF CommitOK
      <3>2. RunOK(l, made, run[h])
        BY <1>1, <1>2, <3>1, RunStays DEF l, last
      <3> QED BY <1>2, <2>3, <3>2
    <2>4. CASE r = NoRun
      <3>1. NoRun.phase \notin Engaged
        BY Fresh DEF Engaged
      <3>2. RunOK(l, made, NoRun)
        BY <1>5, <3>1, Fresh, NoRunIsOK
      <3> QED BY <2>4, <3>2, Fresh
    <2> QED BY <1>4, <2>1, <2>2, <2>3, <2>4
  <1>10. /\ run' \in [Handle -> Run] /\ run'[h] = r
         /\ \A g \in Handle : g # h => run'[g] = run[g]
    BY <1>2, <1>4, <1>9
  <1> QED BY <1>9, <1>10 DEF l, b

LEMMA AppendIsSafe ==
  ASSUME Inv, NEW h \in Handle, CommitAppends(h)
  PROVE  Inv'
  <1> DEFINE b == NewBatch(h)
             p == Published(h)
             l == Append(log, b)
  <1>1. /\ op[h].stage = "append" /\ ~Stale(h) /\ Accepted(h) /\ Accept(h)
        /\ tail' = IF Repaired = "torn" THEN "buried" ELSE Repaired
        /\ log' = l /\ mem' = [mem EXCEPT ![h] = p] /\ op' = [op EXCEPT ![h] = NoCommit]
        /\ made' = made
    BY DEF CommitAppends
  <1>2. /\ mem \in [Handle -> SessionState] /\ op \in [Handle -> Commit]
        /\ run \in [Handle -> Run] /\ made \in Nat /\ log \in Seq(Batch) /\ FileOK(log, made)
        /\ Ordered(log)
    BY DEF Inv, TypeOK, FileOK
  <1>3. tail' = "whole"
    BY <1>1 DEF Repaired, Inv, TypeOK
  <1>4. /\ b \in Batch /\ b.size \in Nat /\ b.size > 0 /\ b.first = LastOf(log) + 1
        /\ LastOf(log) = mem[h].next
        /\ b.kind = op[h].kind /\ b.items = op[h].items /\ b.covers = op[h].covers
    BY <1>1, NewBatchIs
  <1>5. p \in SessionState /\ MemOK(l, p)
    BY <1>1, PublishedIsOK
  <1>6. /\ run' \in [Handle -> Run] /\ \A g \in Handle : g # h => run'[g] = run[g]
        /\ RunOK(l, made, run'[h]) /\ run'[h].pending \subseteq run[h].pending
    BY <1>1, AcceptedIsOK
  <1>7. /\ CommitOK(mem[h], op[h], run[h]) /\ RunOK(log, made, run[h]) /\ op[h] \in Commit
    BY <1>2 DEF Inv
  <1>8. op[h].kind = "compact" => mem[h].next = op[h].expected
    BY <1>1 DEF Stale
  <1> HIDE DEF b, p, l
  <1>9. b.items \subseteq run[h].pending
    BY <1>1, <1>4, <1>7 DEF CommitOK
  <1>10. /\ b.items \subseteq 1 .. made /\ b.items \cap Saved(log) = {}
    BY <1>7, <1>9 DEF RunOK
  <1>11. /\ b.covers \subseteq Saved(log)
         /\ b.kind = "compact" => b.covers = ContextOf(log, LastOf(log))
    <2>1. CASE op[h].kind # "compact"
      BY <2>1, <1>1, <1>4, <1>7 DEF CommitOK
    <2>2. CASE op[h].kind = "compact"
      <3>1. /\ op[h].expected = run[h].expected /\ op[h].covers = run[h].known
            /\ \/ run[h].phase = "planned"
               \/ run[h].phase = "compacting" /\ ~run[h].rebased
        BY <2>2, <1>1, <1>7 DEF CommitOK
      <3>2. run[h].pending = {} /\ ~run[h].rebased /\ run[h].phase \in Engaged
        BY <1>7, <3>1 DEF RunOK, Engaged
      <3>3. run[h].known = ContextOf(log, run[h].expected) /\ run[h].known \subseteq Saved(log)
        BY <1>7, <3>2 DEF RunOK
      <3> QED BY <2>2, <1>4, <1>8, <3>1, <3>3
    <2> QED BY <2>1, <2>2
  <1>12. FileOK(l, made)
    BY <1>2, <1>4, <1>10, <1>11, FileGrows DEF l
  <1>13. /\ mem' \in [Handle -> SessionState] /\ mem'[h] = p
         /\ op' \in [Handle -> Commit] /\ op'[h] = NoCommit
         /\ \A g \in Handle : g # h => mem'[g] = mem[g] /\ op'[g] = op[g]
    BY <1>1, <1>2, <1>5, Fresh
  <1>14. TypeOK'
    <2>1. l \in Seq(Batch)
      BY <1>2, <1>4, Grown DEF l
    <2> QED BY <1>1, <1>2, <1>3, <1>6, <1>13, <2>1 DEF TypeOK
  <1>15. ASSUME NEW g \in Handle
         PROVE  /\ MemOK(l, mem'[g]) /\ CommitOK(mem'[g], op'[g], run'[g])
                /\ RunOK(l, made, run'[g])
    <2>1. CASE g = h
      <3>1. CommitOK(mem'[h], op'[h], run'[h])
        BY <1>13, Fresh DEF CommitOK
      <3> QED BY <2>1, <3>1, <1>5, <1>6, <1>13
    <2>2. CASE g # h
      <3>1. /\ MemOK(log, mem[g]) /\ CommitOK(mem[g], op[g], run[g])
            /\ RunOK(log, made, run[g]) /\ mem[g] \in SessionState /\ run[g] \in Run
        BY <1>2 DEF Inv
      <3>2. b.items \cap run[g].pending = {}
        BY <2>2, <1>9 DEF Inv, Apart
      <3>3. MemOK(l, mem[g])
        BY <1>2, <1>4, <3>1, MemStays DEF l
      <3>4. RunOK(l, made, run[g])
        BY <1>2, <1>4, <3>1, <3>2, RunStays DEF l
      <3> QED BY <2>2, <1>6, <1>13, <3>1, <3>3, <3>4
    <2> QED BY <2>1, <2>2
  <1>16. Apart'
    <2>1. \A g \in Handle : run'[g].pending \subseteq run[g].pending
      BY <1>6
    <2> QED BY <2>1 DEF Inv, Apart
  <1>17. tail' # "buried" /\ FileOK(log', made')
    BY <1>1, <1>3, <1>12
  <1>18. \A g \in Handle : MemOK(log', mem'[g]) /\ CommitOK(mem'[g], op'[g], run'[g])
                           /\ RunOK(log', made', run'[g])
    BY <1>1, <1>15
  <1> QED BY <1>14, <1>16, <1>17, <1>18 DEF Inv

-----------------------------------------------------------------------------
LEMMA StepInv == Inv /\ [Next]_vars => Inv'
  <1> SUFFICES ASSUME Inv, [Next]_vars PROVE Inv'
    OBVIOUS
  <1>1. CASE UNCHANGED vars
    <2>1. /\ log' = log /\ tail' = tail /\ mem' = mem /\ op' = op /\ run' = run
          /\ made' = made
      BY <1>1 DEF vars
    <2>2. TypeOK' /\ tail' # "buried" /\ FileOK(log', made') /\ Apart'
      BY <2>1 DEF Inv, TypeOK, Apart
    <2> QED BY <2>1, <2>2 DEF Inv
  <1>2. CASE Next
    <2>1. PICK h \in Handle : Open(h) \/ Crash(h) \/ CommitStep(h) \/ Writer(h) \/ RunStep(h)
      BY <1>2 DEF Next
    <2>2. CASE Open(h) \/ Crash(h)
      BY <2>2, OpenIsSafe, CrashIsSafe
    <2>3. CASE CommitStep(h)
      BY <2>3, AppendIsSafe, ConflictIsSafe, RefusalsAreSafe, RebaseIsSafe DEF CommitStep
    <2>4. CASE Writer(h)
      BY <2>4, StatsIsSafe, ClearIsSafe, SnapshotIsSafe, MarkerIsSafe, PlanDroppedIsSafe
         DEF Writer
    <2>5. CASE RunStep(h)
      BY <2>5, SnapshotIsSafe, ProduceIsSafe, FlushesAreSafe, MarkerIsSafe, SkipIsSafe
         DEF RunStep
    <2> QED BY <2>1, <2>2, <2>3, <2>4, <2>5
  <1> QED BY <1>1, <1>2

LEMMA AlwaysInv == Spec => []Inv
  BY InitInv, StepInv, PTL DEF Spec

(* Whatever crashes, fails or races: the file can be read again, and every    *)
(* message that was to be saved is in it once (storage.rs, append and          *)
(* truncate_incomplete_tail).                                                 *)
THEOREM FileStaysSound == Spec => []FileIsSound
  <1>1. Inv => FileIsSound
    <2> SUFFICES ASSUME Inv PROVE FileIsSound
      OBVIOUS
    <2>1. Readable
      BY DEF Inv, FileOK, Ordered, Readable
    <2>2. \A i, j \in DOMAIN log : i # j => log[i].items \cap log[j].items = {}
      BY DEF Inv, FileOK
    <2>3. ASSUME NEW h \in Handle, run[h].phase = "done"
          PROVE  run[h].known \subseteq UNION {log[i].items : i \in DOMAIN log}
      <3>1. RunOK(log, made, run[h])
        BY DEF Inv
      <3> QED BY <2>3, <3>1 DEF RunOK, Saved
    <2> QED BY <2>1, <2>2, <2>3 DEF FileIsSound, SavedOnce
  <1> QED BY <1>1, AlwaysInv, PTL

(* A live session holds what reopening the file at its generation would give, *)
(* through conflicts, rebases, compactions and clears (session.rs,             *)
(* commit_items).                                                             *)
THEOREM SessionsAgreeWithFile == Spec => []MemoryMatchesFile
  <1>1. Inv => MemoryMatchesFile
    BY SameWords DEF Inv, MemOK, MemoryMatchesFile
  <1> QED BY <1>1, AlwaysInv, PTL

(* A compact marker covers exactly the context before it: no message of       *)
(* another writer is dropped, none that was cleared comes back (session.rs,   *)
(* runtime.rs).                                                              *)
THEOREM CompactionsAreExact == Spec => []CompactionIsExact
  <1>1. Inv => CompactionIsExact
    BY SameWords DEF Inv, FileOK, CompactionIsExact
  <1> QED BY <1>1, AlwaysInv, PTL
===============================================================================
