-------------------------- MODULE InputPathProofs ---------------------------
(***************************************************************************)
(* Theorems about InputPath.tla, for every size of the buffers, every      *)
(* alphabet and every number of bytes: however the terminal cuts what is   *)
(* typed, the server gets it without the focus reports; what it gets       *)
(* reaches the application whole and in order, whatever the reader writes  *)
(* in between; and answers are kept in order.                              *)
(***************************************************************************)
EXTENDS InputPath, WellFoundedInduction, SequenceTheorems, FiniteSetTheorems, TLAPS

-----------------------------------------------------------------------------
(* Recursion over a sequence. *)

\* The natural numbers are well ordered by <.
LEMMA LeastNat ==
  ASSUME NEW T, T \subseteq Nat, T # {}
  PROVE  \E x \in T : \A y \in T : x <= y
<1>1. IsWellFoundedOn(OpToRel(<, Nat), Nat)
  BY NatLessThanWellFounded
<1>2. \E x \in T : \A y \in T : ~(<<y, x>> \in OpToRel(<, Nat))
  BY <1>1, WFMin
<1>3. ASSUME NEW x \in T, NEW y \in T, ~(<<y, x>> \in OpToRel(<, Nat))
      PROVE  x <= y
  BY <1>3 DEF OpToRel
<1>. QED  BY <1>2, <1>3

\* Induction over a range, with a set for the hypothesis.
LEMMA Induction ==
  ASSUME NEW n \in Nat, NEW G, 0 \in G, \A i \in 0..n - 1 : i \in G => i + 1 \in G
  PROVE  0..n \subseteq G
<1>. DEFINE T == (0..n) \ G
<1>1. SUFFICES ASSUME T # {} PROVE FALSE
  OBVIOUS
<1>2. T \subseteq Nat
  OBVIOUS
<1>3. PICK x \in T : \A y \in T : x <= y
  BY <1>1, <1>2, LeastNat
<1>4. x \in 1..n
  BY <1>3
<1>5. x - 1 \in 0..n - 1 /\ x - 1 \notin T /\ (x - 1) + 1 = x
  BY <1>3, <1>4
<1>6. x - 1 \in G
  BY <1>5
<1>. QED  BY <1>3, <1>5, <1>6

\* f starts with base and goes on by step.
Follows(f, n, S, base, step) ==
  f \in [0..n -> S] /\ f[0] = base /\ \A i \in 1..n : f[i] = step[i][f[i - 1]]

\* There is such a function.
LEMMA Recursion ==
  ASSUME NEW n \in Nat, NEW S, NEW base \in S, NEW step \in [1..n -> [S -> S]]
  PROVE  \E f : Follows(f, n, S, base, step)
<1>. DEFINE Upto(f, k) == f[0] = base /\ \A i \in 1..k : f[i] = step[i][f[i - 1]]
            G == {k \in 0..n : \E f \in [0..n -> S] : Upto(f, k)}
<1>1. 0 \in G
  <2>. DEFINE f == [i \in 0..n |-> base]
  <2>1. f \in [0..n -> S] /\ Upto(f, 0) /\ 0 \in 0..n
    OBVIOUS
  <2>. HIDE DEF f, Upto
  <2>. QED  BY <2>1
<1>2. ASSUME NEW k \in 0..n - 1, k \in G PROVE k + 1 \in G
  <2>1. PICK f \in [0..n -> S] : Upto(f, k)
    BY <1>2
  <2>2. k + 1 \in 1..n /\ k \in 0..n /\ step[k + 1] \in [S -> S] /\ f[k] \in S
    OBVIOUS
  <2>. DEFINE g == [f EXCEPT ![k + 1] = step[k + 1][f[k]]]
  <2>3. g \in [0..n -> S] /\ g[k + 1] = step[k + 1][f[k]]
    BY <2>2
  <2>4. \A i \in 0..k : g[i] = f[i]
    BY <2>2
  <2>. HIDE DEF g
  <2>5. ASSUME NEW i \in 1..k + 1 PROVE g[i] = step[i][g[i - 1]]
    <3>1. CASE i = k + 1
      BY <2>2, <2>3, <2>4, <3>1
    <3>2. CASE i # k + 1
      <4>1. i \in 1..k /\ i \in 0..k /\ i - 1 \in 0..k
        BY <2>2, <3>2
      <4>. QED  BY <2>1, <2>4, <4>1
    <3>. QED  BY <3>1, <3>2
  <2>6. g[0] = base
    BY <2>1, <2>2, <2>4
  <2>7. k + 1 \in 0..n
    BY <2>2
  <2>. QED  BY <2>3, <2>5, <2>6, <2>7
<1>3. n \in G
  <2>. HIDE DEF G
  <2>1. 0..n \subseteq G
    BY <1>1, <1>2, Induction
  <2>. QED  BY <2>1
<1>4. PICK f \in [0..n -> S] : Upto(f, n)
  BY <1>3
<1>. QED  BY <1>4 DEF Follows

-----------------------------------------------------------------------------
(* Select *)

\* f is Select up to every position of s.
IsSelection(f, s, positions) ==
  f = [n \in 0..Len(s) |->
         IF n = 0 THEN <<>>
         ELSE IF n \in positions THEN Append(f[n - 1], s[n]) ELSE f[n - 1]]

Selection(s, positions) == CHOOSE f : IsSelection(f, s, positions)

LEMMA SelectionExists ==
  ASSUME NEW T, NEW s \in Seq(T), NEW P
  PROVE  \E f : IsSelection(f, s, P)
<1>. DEFINE step == [n \in 1..Len(s) |-> [t \in Seq(T) |-> IF n \in P THEN Append(t, s[n]) ELSE t]]
<1>1. step \in [1..Len(s) -> [Seq(T) -> Seq(T)]]
  OBVIOUS
<1>2. \A n \in 1..Len(s), t \in Seq(T) : step[n][t] = IF n \in P THEN Append(t, s[n]) ELSE t
  OBVIOUS
<1>. HIDE DEF step
<1>3. <<>> \in Seq(T) /\ Len(s) \in Nat
  OBVIOUS
<1>4. PICK f : Follows(f, Len(s), Seq(T), <<>>, step)
  BY <1>1, <1>3, Recursion
<1>5. ASSUME NEW n \in 1..Len(s)
      PROVE  f[n] = IF n \in P THEN Append(f[n - 1], s[n]) ELSE f[n - 1]
  <2>1. f[n - 1] \in Seq(T)
    BY <1>3, <1>4 DEF Follows
  <2>. QED  BY <1>2, <1>4, <2>1 DEF Follows
<1>6. ASSUME NEW n \in 0..Len(s)
      PROVE  f[n] = IF n = 0 THEN <<>>
                    ELSE IF n \in P THEN Append(f[n - 1], s[n]) ELSE f[n - 1]
  <2>1. CASE n = 0
    BY <1>4, <2>1 DEF Follows
  <2>2. CASE n # 0
    <3>1. n \in 1..Len(s)
      BY <1>3, <2>2
    <3>. QED  BY <1>5, <2>2, <3>1
  <2>. QED  BY <2>1, <2>2
<1>7. IsSelection(f, s, P)
  <2>1. f = [n \in 0..Len(s) |-> f[n]]
    BY <1>4 DEF Follows
  <2>. QED  BY <1>6, <2>1 DEF IsSelection
<1>. QED  BY <1>7

LEMMA SelectionSteps ==
  ASSUME NEW T, NEW s \in Seq(T), NEW P
  PROVE  /\ Selection(s, P)[0] = <<>>
         /\ \A n \in 1..Len(s) :
              Selection(s, P)[n] = IF n \in P THEN Append(Selection(s, P)[n - 1], s[n])
                                             ELSE Selection(s, P)[n - 1]
<1>. DEFINE f == Selection(s, P)
<1>1. IsSelection(f, s, P)
  BY SelectionExists DEF Selection
<1>. HIDE DEF f
<1>2. \A n \in 0..Len(s) :
        f[n] = IF n = 0 THEN <<>> ELSE IF n \in P THEN Append(f[n - 1], s[n]) ELSE f[n - 1]
  BY <1>1 DEF IsSelection
<1>3. Len(s) \in Nat
  OBVIOUS
<1>4. 0 \in 0..Len(s) /\ \A n \in 1..Len(s) : n \in 0..Len(s) /\ n # 0
  BY <1>3
<1>. QED  BY <1>2, <1>4 DEF f

LEMMA SelectionType ==
  ASSUME NEW T, NEW s \in Seq(T), NEW P, NEW n \in 0..Len(s)
  PROVE  Selection(s, P)[n] \in Seq(T)
<1>. DEFINE f == Selection(s, P)
            G == {k \in 0..Len(s) : f[k] \in Seq(T)}
<1>1. /\ f[0] = <<>>
      /\ \A k \in 1..Len(s) : f[k] = IF k \in P THEN Append(f[k - 1], s[k]) ELSE f[k - 1]
  BY SelectionSteps
<1>. HIDE DEF f
<1>2. Len(s) \in Nat
  OBVIOUS
<1>3. 0 \in G
  <2>1. 0 \in 0..Len(s) /\ f[0] \in Seq(T)
    BY <1>1, <1>2
  <2>. QED  BY <2>1
<1>4. ASSUME NEW k \in 0..Len(s) - 1, k \in G PROVE k + 1 \in G
  <2>1. k + 1 \in 1..Len(s) /\ k + 1 \in 0..Len(s) /\ (k + 1) - 1 = k /\ f[k] \in Seq(T)
    BY <1>2, <1>4
  <2>2. s[k + 1] \in T
    BY <2>1
  <2>3. f[k + 1] = IF k + 1 \in P THEN Append(f[k], s[k + 1]) ELSE f[k]
    BY <1>1, <2>1
  <2>4. f[k + 1] \in Seq(T)
    BY <2>1, <2>2, <2>3
  <2>. QED  BY <2>1, <2>4
<1>5. 0..Len(s) \subseteq G
  <2>. HIDE DEF G
  <2>. QED  BY <1>2, <1>3, <1>4, Induction
<1>. QED  BY <1>5 DEF f

LEMMA SelectIs == ASSUME NEW s, NEW P PROVE Select(s, P) = Selection(s, P)[Len(s)]
BY Zenon DEF Select, Selection, IsSelection

\* Two sequences that agree up to n have the same selection up to n.
LEMMA SelectionAgrees ==
  ASSUME NEW T, NEW s \in Seq(T), NEW t \in Seq(T), NEW P, NEW Q, NEW n \in 0..Len(s),
         n <= Len(t), \A i \in 1..n : s[i] = t[i] /\ (i \in P <=> i \in Q)
  PROVE  Selection(s, P)[n] = Selection(t, Q)[n]
<1>. DEFINE f == Selection(s, P)
            g == Selection(t, Q)
            G == {k \in 0..n : f[k] = g[k]}
<1>1. /\ f[0] = <<>>
      /\ \A k \in 1..Len(s) : f[k] = IF k \in P THEN Append(f[k - 1], s[k]) ELSE f[k - 1]
  BY SelectionSteps
<1>2. /\ g[0] = <<>>
      /\ \A k \in 1..Len(t) : g[k] = IF k \in Q THEN Append(g[k - 1], t[k]) ELSE g[k - 1]
  BY SelectionSteps
<1>. HIDE DEF f, g
<1>3. 0 \in G
  BY <1>1, <1>2
<1>4. ASSUME NEW k \in 0..n - 1, k \in G PROVE k + 1 \in G
  <2>1. k + 1 \in 1..n /\ k + 1 \in 1..Len(s) /\ k + 1 \in 1..Len(t) /\ (k + 1) - 1 = k /\ f[k] = g[k]
    BY <1>4
  <2>2. f[k + 1] = IF k + 1 \in P THEN Append(f[k], s[k + 1]) ELSE f[k]
    BY <1>1, <2>1
  <2>3. g[k + 1] = IF k + 1 \in Q THEN Append(g[k], t[k + 1]) ELSE g[k]
    BY <1>2, <2>1
  <2>4. f[k + 1] = g[k + 1]
    BY <2>1, <2>2, <2>3
  <2>. QED  BY <2>1, <2>4
<1>5. n \in Nat
  OBVIOUS
<1>6. 0..n \subseteq G
  <2>. HIDE DEF G
  <2>. QED  BY <1>3, <1>4, <1>5, Induction
<1>. QED  BY <1>5, <1>6 DEF f, g

LEMMA SelectType ==
  ASSUME NEW T, NEW s \in Seq(T), NEW P
  PROVE  Select(s, P) \in Seq(T)
<1>1. Len(s) \in 0..Len(s)
  OBVIOUS
<1>. QED  BY <1>1, SelectIs, SelectionType

LEMMA SelectEmpty ==
  ASSUME NEW P
  PROVE  Select(<<>>, P) = <<>>
<1>. DEFINE T == {}
            s == <<>>
<1>1. s \in Seq(T) /\ Len(s) = 0
  OBVIOUS
<1>. HIDE DEF T, s
<1>2. Selection(s, P)[0] = <<>>
  BY <1>1, SelectionSteps
<1>. QED  BY <1>1, <1>2, SelectIs DEF s

\* Only the positions in s count.
LEMMA SelectSame ==
  ASSUME NEW T, NEW s \in Seq(T), NEW P, NEW Q, \A i \in 1..Len(s) : i \in P <=> i \in Q
  PROVE  Select(s, P) = Select(s, Q)
<1>. DEFINE n == Len(s)
            t == s
<1>1. /\ t \in Seq(T) /\ n \in 0..Len(s) /\ n <= Len(t)
      /\ \A i \in 1..n : s[i] = t[i] /\ (i \in P <=> i \in Q)
  OBVIOUS
<1>2. Selection(s, P)[n] = Selection(t, Q)[n]
  <2>. HIDE DEF n, t
  <2>. QED  BY <1>1, SelectionAgrees
<1>. QED  BY <1>2, SelectIs

\* One element more is selected last, or not at all.
LEMMA SelectAppend ==
  ASSUME NEW T, NEW s \in Seq(T), NEW e \in T, NEW P
  PROVE  Select(Append(s, e), P) =
           IF Len(s) + 1 \in P THEN Append(Select(s, P), e) ELSE Select(s, P)
<1>. DEFINE n == Len(s)
            t == Append(s, e)
<1>1. n \in Nat /\ t \in Seq(T) /\ Len(t) = n + 1 /\ t[n + 1] = e /\ \A i \in 1..n : t[i] = s[i]
  OBVIOUS
<1>2. Select(t, P) = Selection(t, P)[n + 1] /\ Select(s, P) = Selection(s, P)[n]
  BY <1>1, SelectIs
<1>. HIDE DEF t
<1>3. Selection(t, P)[n] = Selection(s, P)[n]
  <2>1. n \in 0..Len(t) /\ n <= Len(s)
    BY <1>1
  <2>. QED  BY <1>1, <2>1, SelectionAgrees
<1>4. n + 1 \in 1..Len(t) /\ (n + 1) - 1 = n
  BY <1>1
<1>5. Selection(t, P)[n + 1] =
        IF n + 1 \in P THEN Append(Selection(t, P)[(n + 1) - 1], t[n + 1])
        ELSE Selection(t, P)[(n + 1) - 1]
  BY <1>1, <1>4, SelectionSteps
<1>. QED  BY <1>1, <1>2, <1>3, <1>4, <1>5 DEF t

\* Induction over sequences, with a set for the hypothesis.
LEMMA SequenceInduction ==
  ASSUME NEW T, NEW G, <<>> \in G,
         \A s \in Seq(T), e \in T : s \in G => Append(s, e) \in G
  PROVE  Seq(T) \subseteq G
<1>. SUFFICES ASSUME NEW s \in Seq(T) PROVE s \in G
  OBVIOUS
<1>. DEFINE H == {n \in 0..Len(s) : SubSeq(s, 1, n) \in G}
<1>1. Len(s) \in Nat /\ \A n \in 0..Len(s) : SubSeq(s, 1, n) \in Seq(T)
  OBVIOUS
<1>2. 0 \in H
  <2>1. SubSeq(s, 1, 0) = <<>> /\ 0 \in 0..Len(s)
    OBVIOUS
  <2>. QED  BY <1>1, <2>1
<1>3. ASSUME NEW n \in 0..Len(s) - 1, n \in H PROVE n + 1 \in H
  <2>1. n + 1 \in 0..Len(s) /\ n \in 0..Len(s) /\ s[n + 1] \in T
    BY <1>1
  <2>2. SubSeq(s, 1, n + 1) = Append(SubSeq(s, 1, n), s[n + 1])
    BY <1>1, <2>1
  <2>. QED  BY <1>1, <1>3, <2>1, <2>2
<1>4. 0..Len(s) \subseteq H
  <2>. HIDE DEF H
  <2>. QED  BY <1>1, <1>2, <1>3, Induction
<1>5. SubSeq(s, 1, Len(s)) = s /\ Len(s) \in 0..Len(s)
  OBVIOUS
<1>. QED  BY <1>4, <1>5

LEMMA ConcatAppend ==
  ASSUME NEW T, NEW s \in Seq(T), NEW t \in Seq(T), NEW e \in T
  PROVE  s \o Append(t, e) = Append(s \o t, e)
OBVIOUS

LEMMA ConcatHead ==
  ASSUME NEW T, NEW s \in Seq(T), NEW t \in Seq(T), t # <<>>
  PROVE  /\ Append(s, Head(t)) \o Tail(t) = s \o t
         /\ Head(t) \in T /\ Tail(t) \in Seq(T) /\ t = <<Head(t)>> \o Tail(t)
OBVIOUS

-----------------------------------------------------------------------------
(* Data *)

LEMMA MessageData == \A m \in Message : m.data \in Seq(Key)
<1>. SUFFICES ASSUME NEW m \in Message PROVE m.data \in Seq(Key)
  OBVIOUS
<1>1. CASE m \in [kind : {"input"}, data : Seq(Key)]
  BY <1>1
<1>2. <<>> \in Seq(Key)
  OBVIOUS
<1>3. CASE m \in {Refresh, Detach}
  <2>1. Refresh.data = <<>> /\ Detach.data = <<>>
    BY DEF Refresh, Detach
  <2>. QED  BY <1>2, <1>3, <2>1
<1>. QED  BY <1>1, <1>3 DEF Message

IsData(f, ms) ==
  f = [n \in 0..Len(ms) |-> IF n = 0 THEN <<>> ELSE f[n - 1] \o ms[n].data]

DataUpto(ms) == CHOOSE f : IsData(f, ms)

LEMMA DataExists ==
  ASSUME NEW ms \in Seq(Message)
  PROVE  \E f : IsData(f, ms)
<1>. DEFINE step == [n \in 1..Len(ms) |-> [t \in Seq(Key) |-> t \o ms[n].data]]
<1>1. ASSUME NEW n \in 1..Len(ms) PROVE ms[n].data \in Seq(Key)
  <2>1. ms[n] \in Message
    OBVIOUS
  <2>. QED  BY <2>1, MessageData
<1>2. \A n \in 1..Len(ms), t \in Seq(Key) : t \o ms[n].data \in Seq(Key)
  BY <1>1
<1>3. step \in [1..Len(ms) -> [Seq(Key) -> Seq(Key)]]
  BY <1>2
<1>4. \A n \in 1..Len(ms), t \in Seq(Key) : step[n][t] = t \o ms[n].data
  OBVIOUS
<1>. HIDE DEF step
<1>5. <<>> \in Seq(Key) /\ Len(ms) \in Nat
  OBVIOUS
<1>6. PICK f : Follows(f, Len(ms), Seq(Key), <<>>, step)
  BY <1>3, <1>5, Recursion
<1>7. ASSUME NEW n \in 0..Len(ms)
      PROVE  f[n] = IF n = 0 THEN <<>> ELSE f[n - 1] \o ms[n].data
  <2>1. CASE n = 0
    BY <1>6, <2>1 DEF Follows
  <2>2. CASE n # 0
    <3>1. n \in 1..Len(ms) /\ n - 1 \in 0..Len(ms)
      BY <1>5, <2>2
    <3>2. f[n - 1] \in Seq(Key) /\ f[n] = step[n][f[n - 1]]
      BY <1>6, <3>1 DEF Follows
    <3>. QED  BY <1>4, <2>2, <3>1, <3>2
  <2>. QED  BY <2>1, <2>2
<1>8. IsData(f, ms)
  <2>1. f = [n \in 0..Len(ms) |-> f[n]]
    BY <1>6 DEF Follows
  <2>. QED  BY <1>7, <2>1 DEF IsData
<1>. QED  BY <1>8

LEMMA DataSteps ==
  ASSUME NEW ms \in Seq(Message)
  PROVE  /\ DataUpto(ms)[0] = <<>>
         /\ \A n \in 1..Len(ms) : DataUpto(ms)[n] = DataUpto(ms)[n - 1] \o ms[n].data
<1>. DEFINE f == DataUpto(ms)
<1>1. IsData(f, ms)
  BY DataExists DEF DataUpto
<1>. HIDE DEF f
<1>2. \A n \in 0..Len(ms) : f[n] = IF n = 0 THEN <<>> ELSE f[n - 1] \o ms[n].data
  BY <1>1 DEF IsData
<1>3. Len(ms) \in Nat
  OBVIOUS
<1>4. 0 \in 0..Len(ms) /\ \A n \in 1..Len(ms) : n \in 0..Len(ms) /\ n # 0
  BY <1>3
<1>. QED  BY <1>2, <1>4 DEF f

LEMMA DataIs == ASSUME NEW ms PROVE Data(ms) = DataUpto(ms)[Len(ms)]
BY Zenon DEF Data, DataUpto, IsData

LEMMA DataEmpty == Data(<<>>) = <<>>
<1>1. <<>> \in Seq(Message) /\ Len(<<>>) = 0
  OBVIOUS
<1>2. DataUpto(<<>>)[0] = <<>>
  BY <1>1, DataSteps
<1>. QED  BY <1>1, <1>2, DataIs

\* One message more adds its data.
LEMMA DataAppend ==
  ASSUME NEW ms \in Seq(Message), NEW m \in Message
  PROVE  Data(Append(ms, m)) = Data(ms) \o m.data
<1>. DEFINE n == Len(ms)
            more == Append(ms, m)
            f == DataUpto(ms)
            g == DataUpto(more)
            G == {k \in 0..n : f[k] = g[k]}
<1>1. /\ n \in Nat /\ more \in Seq(Message) /\ Len(more) = n + 1 /\ more[n + 1] = m
      /\ \A i \in 1..n : more[i] = ms[i]
  OBVIOUS
<1>. HIDE DEF more
<1>2. f[0] = <<>> /\ \A k \in 1..n : f[k] = f[k - 1] \o ms[k].data
  BY DataSteps
<1>3. g[0] = <<>> /\ \A k \in 1..n + 1 : g[k] = g[k - 1] \o more[k].data
  BY <1>1, DataSteps
<1>4. Data(ms) = f[n] /\ Data(more) = g[n + 1]
  BY <1>1, DataIs
<1>. HIDE DEF f, g
<1>5. 0 \in G
  BY <1>1, <1>2, <1>3
<1>6. ASSUME NEW k \in 0..n - 1, k \in G PROVE k + 1 \in G
  <2>1. k + 1 \in 1..n /\ k + 1 \in 1..n + 1 /\ k + 1 \in 0..n /\ (k + 1) - 1 = k /\ f[k] = g[k]
    BY <1>1, <1>6
  <2>2. f[k + 1] = f[k] \o ms[k + 1].data
    BY <1>2, <2>1
  <2>3. g[k + 1] = g[k] \o more[k + 1].data
    BY <1>3, <2>1
  <2>4. f[k + 1] = g[k + 1]
    BY <1>1, <2>1, <2>2, <2>3
  <2>. QED  BY <2>1, <2>4
<1>7. f[n] = g[n]
  <2>1. 0..n \subseteq G
    <3>. HIDE DEF G, n
    <3>. QED  BY <1>1, <1>5, <1>6, Induction
  <2>. QED  BY <1>1, <2>1
<1>8. n + 1 \in 1..n + 1 /\ (n + 1) - 1 = n
  BY <1>1
<1>9. g[n + 1] = g[n] \o m.data
  BY <1>1, <1>3, <1>8
<1>. QED  BY <1>4, <1>7, <1>9 DEF more

LEMMA DataType == \A ms \in Seq(Message) : Data(ms) \in Seq(Key)
<1>. DEFINE G == {ms \in Seq(Message) : Data(ms) \in Seq(Key)}
<1>1. <<>> \in G
  <2>1. <<>> \in Seq(Message) /\ <<>> \in Seq(Key)
    OBVIOUS
  <2>. QED  BY <2>1, DataEmpty
<1>2. ASSUME NEW ms \in Seq(Message), NEW m \in Message, ms \in G
      PROVE  Append(ms, m) \in G
  <2>1. m.data \in Seq(Key)
    BY MessageData
  <2>2. Data(Append(ms, m)) = Data(ms) \o m.data
    BY DataAppend
  <2>3. Data(Append(ms, m)) \in Seq(Key)
    BY <1>2, <2>1, <2>2
  <2>. QED  BY <2>3
<1>. HIDE DEF G
<1>3. Seq(Message) \subseteq G
  BY <1>1, <1>2, SequenceInduction
<1>. QED  BY <1>3 DEF G

LEMMA DataConcat ==
  ASSUME NEW ms \in Seq(Message)
  PROVE  \A ns \in Seq(Message) : Data(ms \o ns) = Data(ms) \o Data(ns)
<1>. DEFINE G == {ns \in Seq(Message) : Data(ms \o ns) = Data(ms) \o Data(ns)}
<1>1. <<>> \in G
  <2>1. Data(ms) \in Seq(Key) /\ <<>> \in Seq(Message)
    BY DataType
  <2>2. ms \o <<>> = ms /\ Data(ms) \o <<>> = Data(ms)
    BY <2>1, ConcatEmptySeq
  <2>. QED  BY <2>1, <2>2, DataEmpty
<1>2. ASSUME NEW ns \in Seq(Message), NEW m \in Message, ns \in G
      PROVE  Append(ns, m) \in G
  <2>1. m.data \in Seq(Key) /\ Data(ms) \in Seq(Key) /\ Data(ns) \in Seq(Key)
    BY DataType, MessageData
  <2>2. ms \o Append(ns, m) = Append(ms \o ns, m) /\ ms \o ns \in Seq(Message)
    BY ConcatAppend
  <2>3. Data(ms \o Append(ns, m)) = (Data(ms) \o Data(ns)) \o m.data
    BY <1>2, <2>2, DataAppend
  <2>4. Data(ms) \o Data(Append(ns, m)) = Data(ms) \o (Data(ns) \o m.data)
    BY DataAppend
  <2>5. Data(ms \o Append(ns, m)) = Data(ms) \o Data(Append(ns, m))
    <3>1. (Data(ms) \o Data(ns)) \o m.data = Data(ms) \o (Data(ns) \o m.data)
      <4>. DEFINE a == Data(ms)
                  b == Data(ns)
                  c == m.data
      <4>1. a \in Seq(Key) /\ b \in Seq(Key) /\ c \in Seq(Key)
        BY <2>1
      <4>. HIDE DEF a, b, c
      <4>2. (a \o b) \o c = a \o (b \o c)
        BY <4>1, ConcatAssociative, SMTT(30)
      <4>. QED  BY <4>2 DEF a, b, c
    <3>. QED  BY <2>3, <2>4, <3>1
  <2>. QED  BY <2>5
<1>. HIDE DEF G
<1>3. Seq(Message) \subseteq G
  BY <1>1, <1>2, SequenceInduction
<1>. QED  BY <1>3 DEF G

LEMMA DataOne ==
  ASSUME NEW m \in Message
  PROVE  Data(<<m>>) = m.data
<1>1. m.data \in Seq(Key) /\ <<>> \in Seq(Message) /\ <<m>> = Append(<<>>, m)
  BY MessageData
<1>2. Data(<<m>>) = <<>> \o m.data
  BY <1>1, DataAppend, DataEmpty
<1>. QED  BY <1>1, <1>2, ConcatEmptySeq

-----------------------------------------------------------------------------
(* What was typed and what was answered, in a stream of bytes *)

LEMMA TypedAppend ==
  ASSUME NEW s \in Seq(Byte), NEW b \in Byte
  PROVE  Typed(Append(s, b)) = IF b.by > 0 THEN Append(Typed(s), b) ELSE Typed(s)
<1>. DEFINE t == Append(s, b)
            P == {i \in 1..Len(t) : t[i].by > 0}
            Q == {i \in 1..Len(s) : s[i].by > 0}
<1>1. /\ Len(t) = Len(s) + 1 /\ t[Len(s) + 1] = b /\ Len(s) + 1 \in 1..Len(t) /\ Len(s) \in Nat
      /\ \A i \in 1..Len(s) : t[i] = s[i] /\ i \in 1..Len(t)
  OBVIOUS
<1>2. Select(t, P) = IF Len(s) + 1 \in P THEN Append(Select(s, P), b) ELSE Select(s, P)
  <2>. HIDE DEF P
  <2>. QED  BY SelectAppend
<1>. HIDE DEF t
<1>3. Select(s, P) = Select(s, Q)
  <2>1. \A i \in 1..Len(s) : i \in P <=> i \in Q
    BY <1>1
  <2>. HIDE DEF P, Q
  <2>. QED  BY <2>1, SelectSame
<1>4. Len(s) + 1 \in P <=> b.by > 0
  BY <1>1
<1>. HIDE DEF P, Q
<1>. QED  BY <1>2, <1>3, <1>4 DEF Typed, P, Q, t

LEMMA TypedEmpty == Typed(<<>>) = <<>>
BY SelectEmpty DEF Typed

LEMMA TypedType == ASSUME NEW s \in Seq(Byte) PROVE Typed(s) \in Seq(Byte)
BY SelectType DEF Typed

AllTyped(s) == \A i \in 1..Len(s) : s[i].by > 0
NoneTyped(s) == \A i \in 1..Len(s) : ~(s[i].by > 0)

LEMMA TypedBlock ==
  ASSUME NEW s \in Seq(Byte)
  PROVE  \A t \in Seq(Byte) : /\ AllTyped(t) => Typed(s \o t) = Typed(s) \o t
                              /\ NoneTyped(t) => Typed(s \o t) = Typed(s)
<1>. DEFINE G == {t \in Seq(Byte) : /\ AllTyped(t) => Typed(s \o t) = Typed(s) \o t
                                    /\ NoneTyped(t) => Typed(s \o t) = Typed(s)}
<1>1. <<>> \in G
  <2>1. Typed(s) \in Seq(Byte) /\ <<>> \in Seq(Byte)
    BY TypedType
  <2>2. s \o <<>> = s /\ Typed(s) \o <<>> = Typed(s)
    BY <2>1, ConcatEmptySeq
  <2>. QED  BY <2>1, <2>2
<1>2. ASSUME NEW t \in Seq(Byte), NEW b \in Byte, t \in G
      PROVE  Append(t, b) \in G
  <2>0. Append(t, b) \in Seq(Byte)
    OBVIOUS
  <2>1. s \o Append(t, b) = Append(s \o t, b) /\ s \o t \in Seq(Byte) /\ Typed(s) \in Seq(Byte)
    BY ConcatAppend, TypedType
  <2>2. Typed(s \o Append(t, b)) = IF b.by > 0 THEN Append(Typed(s \o t), b) ELSE Typed(s \o t)
    BY <2>1, TypedAppend
  <2>3. /\ Len(Append(t, b)) = Len(t) + 1 /\ Append(t, b)[Len(t) + 1] = b /\ Len(t) \in Nat
        /\ \A i \in 1..Len(t) : Append(t, b)[i] = t[i]
    OBVIOUS
  <2>4. CASE AllTyped(Append(t, b))
    <3>1. AllTyped(t) /\ b.by > 0
      BY <2>3, <2>4 DEF AllTyped
    <3>2. Typed(s \o Append(t, b)) = Append(Typed(s) \o t, b)
      BY <1>2, <2>2, <3>1
    <3>3. Append(Typed(s) \o t, b) = Typed(s) \o Append(t, b)
      <4>. DEFINE u == Typed(s)
      <4>1. u \in Seq(Byte)
        BY <2>1
      <4>. HIDE DEF u
      <4>2. u \o Append(t, b) = Append(u \o t, b)
        BY <4>1, ConcatAppend
      <4>. QED  BY <4>2 DEF u
    <3>4. ~NoneTyped(Append(t, b))
      BY <2>3, <3>1 DEF NoneTyped
    <3>. QED  BY <2>0, <3>2, <3>3, <3>4
  <2>5. CASE NoneTyped(Append(t, b))
    <3>1. NoneTyped(t) /\ ~(b.by > 0)
      BY <2>3, <2>5 DEF NoneTyped
    <3>2. Typed(s \o Append(t, b)) = Typed(s)
      BY <1>2, <2>2, <3>1
    <3>3. ~AllTyped(Append(t, b))
      BY <2>3, <3>1 DEF AllTyped
    <3>. QED  BY <2>0, <3>2, <3>3
  <2>6. CASE ~AllTyped(Append(t, b)) /\ ~NoneTyped(Append(t, b))
    BY <2>0, <2>6
  <2>. QED  BY <2>4, <2>5, <2>6
<1>. HIDE DEF G
<1>3. Seq(Byte) \subseteq G
  BY <1>1, <1>2, SequenceInduction
<1>. QED  BY <1>3 DEF G

LEMMA KeysConcat ==
  ASSUME NEW s \in Seq(Byte), NEW t \in Seq(Byte)
  PROVE  Keys(s \o t) = Keys(s) \o Keys(t) /\ Keys(s) \in Seq(Char)
<1>1. ASSUME NEW i \in 1..Len(s) PROVE s[i].key \in Char
  <2>1. s[i] \in Byte
    OBVIOUS
  <2>. QED  BY <2>1 DEF Byte
<1>2. Keys(s) \in Seq(Char) /\ Len(Keys(s)) = Len(s)
  BY <1>1 DEF Keys
<1>. QED  BY <1>2 DEF Keys

-----------------------------------------------------------------------------
(* Where focus reports begin *)

\* An ESC begins a sequence unless the ESC before it does.
LEMMA BeginsEsc ==
  ASSUME NEW s \in Seq(Key), NEW i \in Int, Begins(s, i)
  PROVE  i >= 1 /\ s[i] = "esc"
BY DEF Begins

LEMMA BeginsAfter ==
  ASSUME NEW s \in Seq(Key), NEW i \in 1..Len(s), s[i] = "esc", ~Begins(s, i - 1)
  PROVE  Begins(s, i)
<1>. DEFINE Run == {first \in 1..i : \A j \in first..i : s[j] = "esc"}
<1>1. i \in Run /\ Run \subseteq Nat
  OBVIOUS
<1>2. PICK first \in Run : \A other \in Run : first <= other
  <2>. HIDE DEF Run
  <2>. QED  BY <1>1, LeastNat
<1>3. first \in 1..i /\ \A j \in first..i : s[j] = "esc"
  OBVIOUS
<1>4. first = 1 \/ s[first - 1] # "esc"
  <2>. SUFFICES ASSUME first # 1, s[first - 1] = "esc" PROVE FALSE
    OBVIOUS
  <2>1. first - 1 \in 1..i
    BY <1>3
  <2>2. \A j \in first - 1..i : j = first - 1 \/ j \in first..i
    BY <1>3
  <2>3. first - 1 \in Run
    BY <1>3, <2>1, <2>2
  <2>. QED  BY <1>2, <1>3, <2>3
<1>5. CASE (i - first) % 2 = 0
  BY <1>3, <1>4, <1>5 DEF Begins
<1>6. CASE (i - first) % 2 # 0
  <2>1. first # i
    BY <1>3, <1>6
  <2>2. first \in 1..i - 1 /\ (i - 1 - first) % 2 = 0
    BY <1>3, <1>6, <2>1
  <2>3. \A j \in first..i - 1 : s[j] = "esc"
    BY <1>3
  <2>. QED  BY <1>4, <2>2, <2>3 DEF Begins
<1>. QED  BY <1>5, <1>6

LEMMA BeginsOnce ==
  ASSUME NEW s \in Seq(Key), NEW i \in Int, Begins(s, i - 1)
  PROVE  ~Begins(s, i)
<1>. SUFFICES ASSUME Begins(s, i) PROVE FALSE
  OBVIOUS
<1>1. PICK a \in 1..i - 1 : /\ \A j \in a..i - 1 : s[j] = "esc"
                            /\ a = 1 \/ s[a - 1] # "esc"
                            /\ (i - 1 - a) % 2 = 0
  BY DEF Begins
<1>2. PICK b \in 1..i : /\ \A j \in b..i : s[j] = "esc"
                        /\ b = 1 \/ s[b - 1] # "esc"
                        /\ (i - b) % 2 = 0
  BY DEF Begins
<1>3. ~(a < b)
  <2>. SUFFICES ASSUME a < b PROVE FALSE
    OBVIOUS
  <2>1. b - 1 \in a..i - 1 /\ b # 1
    BY <1>1, <1>2
  <2>. QED  BY <1>1, <1>2, <2>1
<1>4. ~(b < a)
  <2>. SUFFICES ASSUME b < a PROVE FALSE
    OBVIOUS
  <2>1. a - 1 \in b..i /\ a # 1
    BY <1>1, <1>2
  <2>. QED  BY <1>1, <1>2, <2>1
<1>5. a = b
  BY <1>1, <1>2, <1>3, <1>4
<1>. QED  BY <1>1, <1>2, <1>5

\* s goes on as t.
Prefix(s, t) == Len(s) <= Len(t) /\ \A j \in 1..Len(s) : s[j] = t[j]

LEMMA BeginsPrefix ==
  ASSUME NEW s \in Seq(Key), NEW t \in Seq(Key), Prefix(s, t), NEW i \in Int, i <= Len(s)
  PROVE  Begins(s, i) <=> Begins(t, i)
<1>1. ASSUME NEW first \in 1..i
      PROVE  /\ (\A j \in first..i : s[j] = "esc") <=> (\A j \in first..i : t[j] = "esc")
             /\ first # 1 => s[first - 1] = t[first - 1]
  BY DEF Prefix
<1>. QED  BY <1>1 DEF Begins

\* The loop of InputFilter::process may stop behind position c: no focus
\* report goes on there, whatever follows s.
Clean(s, c) ==
  /\ Begins(s, c) => c + 2 <= Len(s) /\ s[c + 1] = "[" /\ ~IsFocus(s[c + 2])
  /\ Begins(s, c - 1) /\ s[c] = "[" => c + 1 <= Len(s) /\ ~IsFocus(s[c + 1])

LEMMA CleanPrefix ==
  ASSUME NEW s \in Seq(Key), NEW t \in Seq(Key), Prefix(s, t), NEW c \in 0..Len(s), Clean(s, c)
  PROVE  Clean(t, c)
<1>1. /\ Begins(t, c) => Begins(s, c)
      /\ Begins(t, c - 1) => Begins(s, c - 1)
  BY BeginsPrefix
<1>2. CASE Begins(t, c)
  <2>1. c >= 1 /\ c + 2 <= Len(s) /\ s[c + 1] = "[" /\ ~IsFocus(s[c + 2])
    BY <1>1, <1>2, BeginsEsc DEF Clean
  <2>2. s[c + 1] = t[c + 1] /\ s[c + 2] = t[c + 2] /\ Len(s) <= Len(t)
    BY <2>1 DEF Prefix
  <2>3. ~Begins(t, c - 1)
    BY <1>2, BeginsOnce
  <2>. QED  BY <2>1, <2>2, <2>3 DEF Clean
<1>3. CASE ~Begins(t, c) /\ Begins(t, c - 1)
  <2>1. c >= 1 /\ s[c] = t[c] /\ Len(s) <= Len(t)
    BY <1>3, BeginsEsc DEF Prefix
  <2>2. CASE s[c] = "["
    <3>1. c + 1 <= Len(s) /\ ~IsFocus(s[c + 1])
      BY <1>1, <1>3, <2>2 DEF Clean
    <3>2. s[c + 1] = t[c + 1]
      BY <2>1, <3>1 DEF Prefix
    <3>. QED  BY <1>3, <2>1, <3>1, <3>2 DEF Clean
  <2>. QED  BY <1>3, <2>1, <2>2 DEF Clean
<1>4. CASE ~Begins(t, c) /\ ~Begins(t, c - 1)
  BY <1>4 DEF Clean
<1>. QED  BY <1>2, <1>3, <1>4

\* No focus report lies across a clean position.
LEMMA CleanReports ==
  ASSUME NEW s \in Seq(Key), NEW c \in 0..Len(s), Clean(s, c)
  PROVE  /\ ~Report(s, c) /\ ~Report(s, c - 1)
         /\ \A i \in 1..c : Report(s, i) => i + 2 <= c
         /\ Reported(s, c + 1) <=> Report(s, c + 1)
<1>1. ~Report(s, c) /\ ~Report(s, c - 1)
  BY DEF Clean, Report
<1>2. ASSUME NEW i \in 1..c, Report(s, i) PROVE i + 2 <= c
  <2>1. i # c /\ i # c - 1
    BY <1>1, <1>2
  <2>. QED  BY <2>1
<1>3. ASSUME NEW i \in 1..c + 1, c + 1 <= i + 2, Report(s, i) PROVE i = c + 1
  BY <1>1, <1>3
<1>4. Report(s, c + 1) => c + 1 \in 1..c + 1 /\ c + 1 <= c + 1 + 2
  OBVIOUS
<1>. QED  BY <1>1, <1>2, <1>3, <1>4 DEF Reported

\* A report of s is one of what s goes on as, and the other way round as long
\* as it lies in s.
LEMMA ReportPrefix ==
  ASSUME NEW s \in Seq(Key), NEW t \in Seq(Key), Prefix(s, t), NEW i \in Nat \ {0}, i + 2 <= Len(s)
  PROVE  Report(s, i) <=> Report(t, i)
<1>1. i + 2 <= Len(t) /\ s[i + 1] = t[i + 1] /\ s[i + 2] = t[i + 2]
  <2>1. i + 1 \in 1..Len(s) /\ i + 2 \in 1..Len(s) /\ Len(s) \in Nat /\ Len(t) \in Nat
    OBVIOUS
  <2>. QED  BY <2>1 DEF Prefix
<1>. QED  BY <1>1, BeginsPrefix DEF Report

-----------------------------------------------------------------------------
(* What the filter keeps of the first c bytes *)

KeptTo(s, c) == Select(SubSeq(s, 1, c), {n \in 1..c : ~Reported(s, n)})
FocusInsTo(s, c) == Cardinality({i \in 1..c : Report(s, i) /\ s[i + 2] = "I"})

LEMMA KeptAll ==
  ASSUME NEW s \in Seq(Key)
  PROVE  Kept(s) = KeptTo(s, Len(s)) /\ FocusIns(s) = FocusInsTo(s, Len(s))
<1>1. SubSeq(s, 1, Len(s)) = s
  OBVIOUS
<1>. QED  BY <1>1 DEF Kept, KeptTo, FocusIns, FocusInsTo

LEMMA KeptNone ==
  ASSUME NEW s \in Seq(Key)
  PROVE  KeptTo(s, 0) = <<>> /\ FocusInsTo(s, 0) = 0
<1>1. SubSeq(s, 1, 0) = <<>>
  OBVIOUS
<1>2. {i \in 1..0 : Report(s, i) /\ s[i + 2] = "I"} = {}
  OBVIOUS
<1>. QED  BY <1>1, <1>2, SelectEmpty, FS_EmptySet DEF KeptTo, FocusInsTo

LEMMA KeptType ==
  ASSUME NEW s \in Seq(Key), NEW c \in 0..Len(s)
  PROVE  KeptTo(s, c) \in Seq(Key) /\ FocusInsTo(s, c) \in Nat
<1>1. SubSeq(s, 1, c) \in Seq(Key)
  OBVIOUS
<1>2. IsFiniteSet(1..c) /\ {i \in 1..c : Report(s, i) /\ s[i + 2] = "I"} \subseteq 1..c
  BY FS_Interval
<1>3. IsFiniteSet({i \in 1..c : Report(s, i) /\ s[i + 2] = "I"})
  BY <1>2, FS_Subset
<1>. QED  BY <1>1, <1>3, SelectType, FS_CardinalityType DEF KeptTo, FocusInsTo

\* One byte more.
LEMMA KeptNext ==
  ASSUME NEW s \in Seq(Key), NEW c \in 0..Len(s) - 1
  PROVE  /\ KeptTo(s, c + 1) = IF Reported(s, c + 1) THEN KeptTo(s, c)
                                                      ELSE Append(KeptTo(s, c), s[c + 1])
         /\ FocusInsTo(s, c + 1) = IF Report(s, c + 1) /\ s[c + 3] = "I"
                                     THEN FocusInsTo(s, c) + 1 ELSE FocusInsTo(s, c)
<1>1. /\ SubSeq(s, 1, c) \in Seq(Key) /\ Len(SubSeq(s, 1, c)) = c /\ s[c + 1] \in Key
      /\ SubSeq(s, 1, c + 1) = Append(SubSeq(s, 1, c), s[c + 1])
      /\ c \in Nat
  OBVIOUS
<1>. DEFINE P == {n \in 1..c + 1 : ~Reported(s, n)}
            Q == {n \in 1..c : ~Reported(s, n)}
            first == SubSeq(s, 1, c)
<1>2. Select(Append(first, s[c + 1]), P) =
        IF Len(first) + 1 \in P THEN Append(Select(first, P), s[c + 1]) ELSE Select(first, P)
  <2>. DEFINE e == s[c + 1]
  <2>1. first \in Seq(Key) /\ e \in Key
    BY <1>1
  <2>. HIDE DEF P, first, e
  <2>2. Select(Append(first, e), P) =
          IF Len(first) + 1 \in P THEN Append(Select(first, P), e) ELSE Select(first, P)
    BY <2>1, SelectAppend
  <2>. QED  BY <2>2 DEF e
<1>3. Select(first, P) = Select(first, Q)
  <2>1. \A i \in 1..Len(first) : i \in P <=> i \in Q
    BY <1>1
  <2>. HIDE DEF P, Q
  <2>. QED  BY <1>1, <2>1, SelectSame
<1>4. c + 1 \in P <=> ~Reported(s, c + 1)
  BY <1>1
<1>5. KeptTo(s, c + 1) = IF Reported(s, c + 1) THEN KeptTo(s, c) ELSE Append(KeptTo(s, c), s[c + 1])
  BY <1>1, <1>2, <1>3, <1>4 DEF KeptTo
<1>. DEFINE Now == {i \in 1..c : Report(s, i) /\ s[i + 2] = "I"}
            Then == {i \in 1..c + 1 : Report(s, i) /\ s[i + 2] = "I"}
<1>6. IsFiniteSet(Now) /\ c + 1 \notin Now
  <2>1. Now \subseteq 1..c
    OBVIOUS
  <2>2. IsFiniteSet(Now)
    <3>. HIDE DEF Now
    <3>1. 1 \in Int /\ c \in Int
      BY <1>1
    <3>2. IsFiniteSet(1..c)
      BY <3>1, FS_Interval
    <3>. QED  BY <2>1, <3>2, FS_Subset
  <2>. QED  BY <1>1, <2>2
<1>7. /\ Report(s, c + 1) /\ s[c + 3] = "I" => Then = Now \cup {c + 1}
      /\ ~(Report(s, c + 1) /\ s[c + 3] = "I") => Then = Now
  <2>1. c + 1 + 2 = c + 3 /\ 1..c + 1 = (1..c) \cup {c + 1}
    BY <1>1
  <2>. QED  BY <2>1
<1>8. Cardinality(Now \cup {c + 1}) = Cardinality(Now) + 1
  <2>. HIDE DEF Now
  <2>. QED  BY <1>6, FS_AddElement
<1>9. FocusInsTo(s, c + 1) = IF Report(s, c + 1) /\ s[c + 3] = "I"
                               THEN FocusInsTo(s, c) + 1 ELSE FocusInsTo(s, c)
  BY <1>7, <1>8 DEF FocusInsTo
<1>. QED  BY <1>5, <1>9

\* What is kept of the first c bytes is settled where c is clean.
LEMMA KeptPrefix ==
  ASSUME NEW s \in Seq(Key), NEW t \in Seq(Key), Prefix(s, t), NEW c \in 0..Len(s), Clean(s, c)
  PROVE  KeptTo(s, c) = KeptTo(t, c) /\ FocusInsTo(s, c) = FocusInsTo(t, c)
<1>1. Clean(t, c) /\ c \in 0..Len(t)
  BY CleanPrefix DEF Prefix
<1>2. ASSUME NEW i \in 1..c PROVE Report(s, i) <=> Report(t, i)
  <2>1. CASE i + 2 <= c
    BY <2>1, ReportPrefix
  <2>2. CASE i + 2 > c
    <3>1. i = c \/ i = c - 1
      BY <2>2
    <3>. QED  BY <1>1, <3>1, CleanReports
  <2>. QED  BY <2>1, <2>2
<1>3. ASSUME NEW n \in 1..c PROVE Reported(s, n) <=> Reported(t, n)
  <2>1. \A i \in 1..n : i \in 1..c
    OBVIOUS
  <2>. QED  BY <1>2, <2>1 DEF Reported
<1>4. SubSeq(s, 1, c) = SubSeq(t, 1, c)
  BY <1>1 DEF Prefix
<1>5. {n \in 1..c : ~Reported(s, n)} = {n \in 1..c : ~Reported(t, n)}
  BY <1>3
<1>6. ASSUME NEW i \in 1..c, Report(s, i) PROVE s[i + 2] = t[i + 2]
  BY <1>6 DEF Report, Prefix
<1>7. {i \in 1..c : Report(s, i) /\ s[i + 2] = "I"} = {i \in 1..c : Report(t, i) /\ t[i + 2] = "I"}
  BY <1>2, <1>6
<1>. QED  BY <1>4, <1>5, <1>7 DEF KeptTo, FocusInsTo

-----------------------------------------------------------------------------
(* InputFilter::process: what each branch of the loop does at a clean position *)

\* An ESC behind a clean position begins a sequence.
LEMMA CleanBegins ==
  ASSUME NEW s \in Seq(Key), NEW p \in 0..Len(s) - 1, Clean(s, p), s[p + 1] = "esc"
  PROVE  Begins(s, p + 1)
<1>1. ~Begins(s, p)
  BY DEF Clean
<1>2. p + 1 \in 1..Len(s) /\ (p + 1) - 1 = p
  OBVIOUS
<1>. QED  BY <1>1, <1>2, BeginsAfter

LEMMA PlainByte ==
  ASSUME NEW s \in Seq(Key), NEW p \in 0..Len(s) - 1, Clean(s, p), s[p + 1] # "esc"
  PROVE  Clean(s, p + 1) /\ ~Report(s, p + 1) /\ ~Reported(s, p + 1)
<1>1. ~Begins(s, p + 1)
  <2>1. p + 1 \in Int
    OBVIOUS
  <2>. QED  BY <2>1, BeginsEsc
<1>2. ~Report(s, p + 1)
  BY <1>1 DEF Report
<1>3. ~Reported(s, p + 1)
  BY <1>2, CleanReports
<1>4. Begins(s, p) /\ s[p + 1] = "[" => p + 2 <= Len(s) /\ ~IsFocus(s[p + 2])
  BY DEF Clean
<1>5. (p + 1) - 1 = p /\ (p + 1) + 1 = p + 2
  OBVIOUS
<1>. QED  BY <1>1, <1>2, <1>3, <1>4, <1>5 DEF Clean

LEMMA EscapedByte ==
  ASSUME NEW s \in Seq(Key), NEW p \in 0..Len(s) - 2, Clean(s, p),
         s[p + 1] = "esc", s[p + 2] # "["
  PROVE  /\ Clean(s, p + 2)
         /\ ~Report(s, p + 1) /\ ~Report(s, p + 2)
         /\ ~Reported(s, p + 1) /\ ~Reported(s, p + 2)
<1>1. p \in 0..Len(s) - 1 /\ (p + 2) - 1 = p + 1 /\ (p + 1) + 1 = p + 2 /\ p + 2 \in Int
  OBVIOUS
<1>2. Begins(s, p + 1)
  BY <1>1, CleanBegins
<1>3. ~Begins(s, p + 2)
  BY <1>1, <1>2, BeginsOnce
<1>4. Clean(s, p + 2)
  BY <1>1, <1>3 DEF Clean
<1>5. ~Report(s, p + 1) /\ ~Report(s, p + 2)
  BY <1>1, <1>3 DEF Report
<1>6. ~Reported(s, p + 1)
  BY <1>1, <1>5, CleanReports
<1>7. ~Reported(s, p + 2)
  <2>. SUFFICES ASSUME NEW i \in 1..p + 2, p + 2 <= i + 2, Report(s, i) PROVE FALSE
    BY DEF Reported
  <2>1. ~Report(s, p)
    BY <1>1, CleanReports
  <2>2. i = p \/ i = p + 1 \/ i = p + 2
    OBVIOUS
  <2>. QED  BY <1>5, <2>1, <2>2
<1>. QED  BY <1>4, <1>5, <1>6, <1>7

LEMMA FocusReport ==
  ASSUME NEW s \in Seq(Key), NEW p \in 0..Len(s) - 3, Clean(s, p),
         s[p + 1] = "esc", s[p + 2] = "[", IsFocus(s[p + 3])
  PROVE  /\ Clean(s, p + 3)
         /\ Report(s, p + 1) /\ ~Report(s, p + 2) /\ ~Report(s, p + 3)
         /\ Reported(s, p + 1) /\ Reported(s, p + 2) /\ Reported(s, p + 3)
<1>1. /\ p \in 0..Len(s) - 1 /\ (p + 3) - 1 = p + 2 /\ (p + 1) + 1 = p + 2 /\ (p + 1) + 2 = p + 3
      /\ p + 2 \in Int /\ p + 3 \in Int /\ (p + 1) + 2 <= Len(s) /\ p + 1 >= 1
  OBVIOUS
<1>2. Begins(s, p + 1)
  BY <1>1, CleanBegins
<1>3. Report(s, p + 1)
  BY <1>1, <1>2 DEF Report
<1>4. s[p + 3] # "esc" /\ s[p + 2] # "esc"
  BY DEF IsFocus
<1>5. ~Begins(s, p + 2) /\ ~Begins(s, p + 3)
  BY <1>1, <1>4, BeginsEsc
<1>6. ~Report(s, p + 2) /\ ~Report(s, p + 3)
  BY <1>5 DEF Report
<1>7. Clean(s, p + 3)
  BY <1>1, <1>5 DEF Clean
<1>8. \A n \in p + 1..p + 3 : p + 1 \in 1..n /\ n <= (p + 1) + 2
  OBVIOUS
<1>9. Reported(s, p + 1) /\ Reported(s, p + 2) /\ Reported(s, p + 3)
  <2>1. \A n \in p + 1..p + 3 : Reported(s, n)
    BY <1>3, <1>8 DEF Reported
  <2>. QED  BY <2>1
<1>. QED  BY <1>3, <1>6, <1>7, <1>9

LEMMA OtherSequence ==
  ASSUME NEW s \in Seq(Key), NEW p \in 0..Len(s) - 3, Clean(s, p),
         s[p + 1] = "esc", s[p + 2] = "[", ~IsFocus(s[p + 3])
  PROVE  Clean(s, p + 1) /\ ~Report(s, p + 1) /\ ~Reported(s, p + 1)
<1>1. /\ p \in 0..Len(s) - 1 /\ (p + 1) - 1 = p /\ (p + 1) + 1 = p + 2 /\ (p + 1) + 2 = p + 3
      /\ p + 3 <= Len(s)
  OBVIOUS
<1>2. ~Report(s, p + 1)
  BY <1>1 DEF Report
<1>3. ~Reported(s, p + 1)
  BY <1>1, <1>2, CleanReports
<1>4. Clean(s, p + 1)
  BY <1>1 DEF Clean
<1>. QED  BY <1>2, <1>3, <1>4

-----------------------------------------------------------------------------
(* The loop *)

Sent == Message \ {Detach}

LEMMA SentMessages ==
  /\ Seq(Sent) \subseteq Seq(Message)
  /\ \A data \in Seq(Key) : Input(data) \in Sent /\ Input(data).data = data /\ Input(data).kind = "input"
  /\ Refresh \in Sent /\ Refresh.data = <<>> /\ Refresh.kind = "refresh"
<1>1. Sent \subseteq Message
  BY DEF Sent
<1>2. <<>> \in Seq(Key)
  OBVIOUS
<1>3. Seq(Sent) \subseteq Seq(Message)
  BY <1>1
<1>4. ASSUME NEW data \in Seq(Key)
      PROVE  Input(data) \in Sent /\ Input(data).data = data /\ Input(data).kind = "input"
  <2>1. Input(data) \in [kind : {"input"}, data : Seq(Key)]
    BY DEF Input
  <2>2. Input(data).kind = "input" /\ Input(data).data = data /\ Detach.kind # "input"
    BY DEF Input, Detach
  <2>3. Input(data) # Detach
    BY <2>2
  <2>. QED  BY <2>1, <2>2, <2>3 DEF Sent, Message
<1>5. Refresh \in Sent /\ Refresh.data = <<>> /\ Refresh.kind = "refresh"
  <2>1. Refresh.data = <<>> /\ Refresh.kind = "refresh" /\ Detach.kind # "refresh"
    BY DEF Refresh, Detach
  <2>2. Refresh # Detach
    BY <2>1
  <2>. QED  BY <2>1, <2>2 DEF Sent, Message
<1>. QED  BY <1>3, <1>4, <1>5

LEMMA RefreshesAppend ==
  ASSUME NEW ms \in Seq(Message), NEW m \in Message
  PROVE  /\ Refreshes(ms) \in Nat
         /\ Refreshes(Append(ms, m)) = IF m.kind = "refresh" THEN Refreshes(ms) + 1 ELSE Refreshes(ms)
<1>. DEFINE n == Len(ms)
            more == Append(ms, m)
            Now == {i \in 1..n : ms[i].kind = "refresh"}
            Then == {i \in 1..n + 1 : more[i].kind = "refresh"}
<1>1. /\ n \in Nat /\ Len(more) = n + 1 /\ more[n + 1] = m /\ \A i \in 1..n : more[i] = ms[i]
      /\ 1..n + 1 = (1..n) \cup {n + 1} /\ n + 1 \notin 1..n
  OBVIOUS
<1>2. IsFiniteSet(Now) /\ n + 1 \notin Now
  <2>1. Now \subseteq 1..n
    OBVIOUS
  <2>2. 1 \in Int /\ n \in Int
    BY <1>1
  <2>. HIDE DEF Now, n
  <2>3. IsFiniteSet(1..n)
    BY <2>2, FS_Interval
  <2>. QED  BY <1>1, <2>1, <2>3, FS_Subset
<1>. HIDE DEF more
<1>3. Then = IF m.kind = "refresh" THEN Now \cup {n + 1} ELSE Now
  BY <1>1
<1>4. Cardinality(Now \cup {n + 1}) = Cardinality(Now) + 1 /\ Cardinality(Now) \in Nat
  <2>. HIDE DEF Now
  <2>. QED  BY <1>2, FS_AddElement, FS_CardinalityType
<1>5. Refreshes(ms) = Cardinality(Now) /\ Refreshes(more) = Cardinality(Then)
  BY <1>1 DEF Refreshes
<1>. HIDE DEF Now, Then, n
<1>. QED  BY <1>3, <1>4, <1>5 DEF more

LEMMA RefreshesNone == Refreshes(<<>>) = 0
<1>1. {i \in 1..Len(<<>>) : <<>>[i].kind = "refresh"} = {}
  OBVIOUS
<1>. QED  BY <1>1, FS_EmptySet DEF Refreshes

Loop(raw) == [at : 1..Len(raw) + 1, filtered : Seq(Key), messages : Seq(Sent)]

Stopped(raw, loop) ==
  SubSeq(raw, loop.at, Len(raw)) = <<>> \/ Withheld(SubSeq(raw, loop.at, Len(raw)))

\* The loop over what follows position c of t, at a round: it stands at a clean
\* position and has let through what is kept before it.
LoopOK(t, c, raw, loop) ==
  /\ loop \in Loop(raw)
  /\ Clean(t, c + loop.at - 1)
  /\ (KeptTo(t, c) \o Data(loop.messages)) \o loop.filtered = KeptTo(t, c + loop.at - 1)
  /\ FocusInsTo(t, c) + Refreshes(loop.messages) = FocusInsTo(t, c + loop.at - 1)

LEMMA FlushedOK ==
  ASSUME NEW raw, NEW loop \in Loop(raw)
  PROVE  /\ Flushed(loop) \in Seq(Sent)
         /\ Data(Flushed(loop)) = Data(loop.messages) \o loop.filtered
         /\ Refreshes(Flushed(loop)) = Refreshes(loop.messages)
<1>. DEFINE ms == loop.messages
            fs == loop.filtered
<1>1. ms \in Seq(Sent) /\ ms \in Seq(Message) /\ fs \in Seq(Key)
  BY SentMessages DEF Loop
<1>. HIDE DEF ms, fs
<1>2. Data(ms) \in Seq(Key)
  BY <1>1, DataType
<1>3. CASE fs = <<>>
  <2>1. Flushed(loop) = ms
    BY <1>3 DEF Flushed, fs, ms
  <2>2. Data(ms) \o <<>> = Data(ms)
    BY <1>2, ConcatEmptySeq
  <2>. QED  BY <1>1, <1>3, <2>1, <2>2 DEF fs, ms
<1>4. CASE fs # <<>>
  <2>1. Flushed(loop) = Append(ms, Input(fs))
    BY <1>4 DEF Flushed, fs, ms
  <2>2. /\ Input(fs) \in Sent /\ Input(fs) \in Message
        /\ Input(fs).data = fs /\ Input(fs).kind # "refresh"
    BY <1>1, SentMessages DEF Sent
  <2>3. Data(Append(ms, Input(fs))) = Data(ms) \o fs
    BY <1>1, <2>2, DataAppend
  <2>4. Refreshes(Append(ms, Input(fs))) = Refreshes(ms)
    BY <1>1, <2>2, RefreshesAppend
  <2>. QED  BY <1>1, <2>1, <2>2, <2>3, <2>4 DEF fs, ms
<1>. QED  BY <1>3, <1>4

-----------------------------------------------------------------------------
(* Sequences of bytes *)

LEMMA Suffix ==
  ASSUME NEW T, NEW s \in Seq(T), NEW c \in 0..Len(s)
  PROVE  /\ SubSeq(s, c + 1, Len(s)) \in Seq(T)
         /\ Len(SubSeq(s, c + 1, Len(s))) = Len(s) - c
         /\ \A k \in 1..Len(s) - c : SubSeq(s, c + 1, Len(s))[k] = s[c + k]
<1>1. /\ SubSeq(s, c + 1, Len(s)) = [k \in 1..Len(s) - c |-> s[c + k]]
      /\ Len(s) \in Nat /\ Len(s) - c \in Nat /\ c \in Nat
  OBVIOUS
<1>2. \A k \in 1..Len(s) - c : s[c + k] \in T
  BY <1>1
<1>. QED  BY <1>1, <1>2

LEMMA Beginning ==
  ASSUME NEW T, NEW s \in Seq(T)
  PROVE  /\ s = <<>> <=> Len(s) = 0
         /\ Len(s) = 1 => s = <<s[1]>>
         /\ Len(s) = 2 => s = <<s[1], s[2]>>
         /\ Len(s) >= 1 => SubSeq(s, 1, 1) = <<s[1]>> /\ s[1] \in T
         /\ Len(s) >= 2 => SubSeq(s, 1, 2) = <<s[1], s[2]>> /\ s[2] \in T
<1>1. Len(s) \in Nat /\ \A i \in 1..Len(s) : s[i] \in T
  OBVIOUS
<1>2. s = <<>> <=> Len(s) = 0
  OBVIOUS
<1>3. SubSeq(s, 1, Len(s)) = s
  OBVIOUS
<1>4. ASSUME Len(s) >= 1 PROVE SubSeq(s, 1, 1) = <<s[1]>>
  <2>. DEFINE x == s[1]
              one == SubSeq(s, 1, 1)
  <2>1. 1 \in 1..Len(s) /\ x \in T /\ \A i \in 1..1 : s[i] \in T
    BY <1>1, <1>4
  <2>2. one \in Seq(T) /\ Len(one) = 1 /\ one[1] = x
    BY <1>4, <2>1
  <2>. HIDE DEF x, one
  <2>3. <<x>> \in Seq(T) /\ Len(<<x>>) = 1 /\ <<x>>[1] = x
    BY <2>1
  <2>4. one = <<x>>
    BY <2>2, <2>3, SeqEqual
  <2>. QED  BY <2>4 DEF x, one
<1>5. ASSUME Len(s) >= 2 PROVE SubSeq(s, 1, 2) = <<s[1], s[2]>>
  <2>. DEFINE x == s[1]
              y == s[2]
              two == SubSeq(s, 1, 2)
  <2>1. x \in T /\ y \in T /\ \A i \in 1..2 : s[i] \in T
    BY <1>1, <1>5
  <2>2. two \in Seq(T) /\ Len(two) = 2 /\ two[1] = x /\ two[2] = y
    BY <1>5, <2>1
  <2>. HIDE DEF x, y, two
  <2>3. <<x, y>> \in Seq(T) /\ Len(<<x, y>>) = 2 /\ <<x, y>>[1] = x /\ <<x, y>>[2] = y
    BY <2>1
  <2>4. two = <<x, y>>
    BY <2>2, <2>3, SeqEqual
  <2>. QED  BY <2>4 DEF x, y, two
<1>6. (Len(s) >= 1 => s[1] \in T) /\ (Len(s) >= 2 => s[2] \in T)
  BY <1>1
<1>7. (Len(s) = 1 => s = <<s[1]>>) /\ (Len(s) = 2 => s = <<s[1], s[2]>>)
  BY <1>3, <1>4, <1>5
<1>. QED  BY <1>2, <1>4, <1>5, <1>6, <1>7

LEMMA ConcatOne ==
  ASSUME NEW T, NEW s \in Seq(T), NEW t \in Seq(T), NEW x \in T
  PROVE  s \o (t \o <<x>>) = Append(s \o t, x)
OBVIOUS

LEMMA ConcatTwo ==
  ASSUME NEW T, NEW s \in Seq(T), NEW t \in Seq(T), NEW x \in T, NEW y \in T
  PROVE  s \o (t \o <<x, y>>) = Append(Append(s \o t, x), y)
OBVIOUS

-----------------------------------------------------------------------------
(* The rounds of the loop *)

\* What a round finds and does, when it stands at a clean position p of t.
LEMMA RoundStops ==
  ASSUME NEW raw \in Seq(Key), NEW loop \in Loop(raw), NEW rest \in Seq(Key),
         rest = SubSeq(raw, loop.at, Len(raw))
  PROVE  IF Stopped(raw, loop)
         THEN Round(raw, loop) = loop
         ELSE /\ Len(rest) >= 1
              /\ rest[1] = "esc" => Len(rest) >= 2
              /\ rest[1] = "esc" /\ rest[2] = "[" => Len(rest) >= 3
<1>1. CASE Stopped(raw, loop)
  BY <1>1 DEF Stopped, Round
<1>2. CASE ~Stopped(raw, loop)
  <2>1. rest # <<>> /\ rest # <<"esc">> /\ rest # <<"esc", "[">>
    BY <1>2 DEF Stopped, Withheld
  <2>2. Len(rest) # 0 /\ Len(rest) \in Nat
    BY <2>1, Beginning
  <2>3. Len(rest) = 1 => rest = <<rest[1]>>
    BY Beginning
  <2>4. Len(rest) = 2 => rest = <<rest[1], rest[2]>>
    BY Beginning
  <2>5. rest[1] = "esc" => Len(rest) # 1
    BY <2>1, <2>3
  <2>6. rest[1] = "esc" /\ rest[2] = "[" => Len(rest) # 2
    BY <2>1, <2>4
  <2>7. Len(rest) >= 1
    BY <2>2
  <2>8. rest[1] = "esc" => Len(rest) >= 2
    BY <2>2, <2>5
  <2>9. rest[1] = "esc" /\ rest[2] = "[" => Len(rest) >= 3
    BY <2>2, <2>5, <2>6
  <2>. QED  BY <1>2, <2>7, <2>8, <2>9
<1>. QED  BY <1>1, <1>2

LEMMA RoundPasses ==
  ASSUME NEW raw \in Seq(Key), NEW loop \in Loop(raw), NEW rest \in Seq(Key),
         rest = SubSeq(raw, loop.at, Len(raw)), ~Stopped(raw, loop)
  PROVE  /\ rest[1] # "esc" => Round(raw, loop) = Pass(loop, rest, 1)
         /\ rest[1] = "esc" /\ rest[2] # "[" => Round(raw, loop) = Pass(loop, rest, 2)
         /\ rest[1] = "esc" /\ rest[2] = "[" /\ ~IsFocus(rest[3]) =>
              Round(raw, loop) = Pass(loop, rest, 1)
BY Zenon DEF Round, Stopped, IsFocus

LEMMA RoundReports ==
  ASSUME NEW raw \in Seq(Key), NEW loop \in Loop(raw), NEW rest \in Seq(Key),
         rest = SubSeq(raw, loop.at, Len(raw)), ~Stopped(raw, loop),
         rest[1] = "esc", rest[2] = "["
  PROVE  /\ rest[3] = "I" =>
              Round(raw, loop) = [at |-> loop.at + 3, filtered |-> <<>>,
                                  messages |-> Append(Flushed(loop), Refresh)]
         /\ rest[3] = "O" =>
              Round(raw, loop) = [at |-> loop.at + 3, filtered |-> loop.filtered,
                                  messages |-> loop.messages]
<1>1. rest # <<>> /\ ~Withheld(rest)
  BY DEF Stopped
<1>2. Round(raw, loop) =
        IF rest[3] = "I" THEN [at |-> loop.at + 3, filtered |-> <<>>,
                               messages |-> Append(Flushed(loop), Refresh)]
        ELSE IF rest[3] = "O"
        THEN [at |-> loop.at + 3, filtered |-> loop.filtered, messages |-> loop.messages]
        ELSE Pass(loop, rest, 1)
  BY <1>1, Zenon DEF Round
<1>. QED  BY <1>2

\* Where the loop stands: at position p of t, with rest ahead.
Stands(t, c, raw, loop, p, rest) ==
  /\ raw = SubSeq(t, c + 1, Len(t))
  /\ p = c + loop.at - 1
  /\ rest = SubSeq(raw, loop.at, Len(raw))

LEMMA Standing ==
  ASSUME NEW t \in Seq(Key), NEW c \in 0..Len(t), NEW raw, NEW loop, NEW p, NEW rest,
         Stands(t, c, raw, loop, p, rest), loop \in Loop(raw)
  PROVE  /\ raw \in Seq(Key) /\ rest \in Seq(Key)
         /\ Len(rest) = Len(t) - p
         /\ \A k \in 1..Len(t) - p : rest[k] = t[p + k]
         /\ p \in 0..Len(t)
         /\ loop.at \in Nat /\ loop.at >= 1
         /\ Len(raw) = Len(t) - c
<1>. DEFINE at == loop.at
            d == at - 1
<1>1. at \in 1..Len(raw) + 1
  BY DEF Loop
<1>2. raw \in Seq(Key) /\ Len(raw) = Len(t) - c /\ \A k \in 1..Len(t) - c : raw[k] = t[c + k]
  BY Suffix DEF Stands
<1>3. Len(raw) \in Nat /\ Len(t) \in Nat /\ c \in Nat
  BY <1>2
<1>4. at \in Nat /\ at >= 1 /\ d \in 0..Len(raw) /\ d + 1 = at
  BY <1>1, <1>3
<1>5. rest = SubSeq(raw, d + 1, Len(raw))
  BY <1>4 DEF Stands
<1>6. p = c + at - 1
  BY DEF Stands
<1>. HIDE DEF at
<1>7. p = c + d /\ Len(raw) - d = Len(t) - p /\ p \in 0..Len(t)
  BY <1>2, <1>3, <1>4, <1>6
<1>. HIDE DEF d
<1>8. /\ rest \in Seq(Key) /\ Len(rest) = Len(raw) - d
      /\ \A k \in 1..Len(raw) - d : rest[k] = raw[d + k]
  <2>1. /\ SubSeq(raw, d + 1, Len(raw)) \in Seq(Key)
        /\ Len(SubSeq(raw, d + 1, Len(raw))) = Len(raw) - d
        /\ \A k \in 1..Len(raw) - d : SubSeq(raw, d + 1, Len(raw))[k] = raw[d + k]
    BY <1>2, <1>4, Suffix
  <2>. QED  BY <1>5, <2>1
<1>9. ASSUME NEW k \in 1..Len(t) - p PROVE rest[k] = t[p + k]
  <2>1. k \in 1..Len(raw) - d
    BY <1>7
  <2>2. d + k \in 1..Len(t) - c /\ c + (d + k) = p + k
    BY <1>2, <1>3, <1>4, <1>7, <2>1
  <2>3. rest[k] = raw[d + k] /\ raw[d + k] = t[c + (d + k)]
    BY <1>2, <1>8, <2>1, <2>2
  <2>. QED  BY <2>2, <2>3
<1>. QED  BY <1>2, <1>4, <1>7, <1>8, <1>9 DEF at

LEMMA StandsAfter ==
  ASSUME NEW lt \in Nat, NEW lr, NEW c \in 0..lt, NEW at \in Nat, NEW p, NEW n \in Nat,
         at >= 1, lr = lt - c, p = c + at - 1, p + n <= lt
  PROVE  at + n \in 1..lr + 1 /\ c + (at + n) - 1 = p + n
OBVIOUS

LEMMA Regroup ==
  ASSUME NEW a \in Seq(Key), NEW b \in Seq(Key), NEW s \in Seq(Key), NEW t \in Seq(Key)
  PROVE  (a \o b) \o (s \o t) = ((a \o b) \o s) \o t
OBVIOUS

\* Bytes pass that are kept.
LEMMA PassOK ==
  ASSUME NEW t \in Seq(Key), NEW c \in 0..Len(t), NEW raw, NEW loop, NEW p, NEW rest,
         Stands(t, c, raw, loop, p, rest), LoopOK(t, c, raw, loop), NEW n \in 1..2,
         p + n <= Len(t), Clean(t, p + n),
         KeptTo(t, p + n) = KeptTo(t, p) \o SubSeq(rest, 1, n),
         FocusInsTo(t, p + n) = FocusInsTo(t, p)
  PROVE  LoopOK(t, c, raw, Pass(loop, rest, n))
<1>. DEFINE a == KeptTo(t, c)
            b == Data(loop.messages)
            fs == loop.filtered
            x == SubSeq(rest, 1, n)
            next == Pass(loop, rest, n)
<1>1. /\ loop \in Loop(raw) /\ fs \in Seq(Key)
      /\ loop.messages \in Seq(Sent) /\ loop.messages \in Seq(Message)
  BY SentMessages DEF LoopOK, Loop
<1>2. a \in Seq(Key) /\ b \in Seq(Key)
  BY <1>1, DataType, KeptType
<1>3. /\ raw \in Seq(Key) /\ rest \in Seq(Key) /\ Len(rest) = Len(t) - p
      /\ p \in 0..Len(t) /\ loop.at \in Nat /\ loop.at >= 1 /\ Len(raw) = Len(t) - c
  BY <1>1, Standing
<1>4. x \in Seq(Key)
  BY <1>3
<1>5. /\ next.at = loop.at + n /\ next.filtered = fs \o x /\ next.messages = loop.messages
      /\ next = [at |-> loop.at + n, filtered |-> fs \o x, messages |-> loop.messages]
  BY DEF Pass
<1>6. p = c + loop.at - 1
  BY DEF Stands
<1>. HIDE DEF a, b, fs, x, next
<1>7. loop.at + n \in 1..Len(raw) + 1 /\ c + (loop.at + n) - 1 = p + n
  <2>. DEFINE lt == Len(t)
              lr == Len(raw)
              at == loop.at
  <2>1. lt \in Nat /\ c \in 0..lt /\ at \in Nat /\ at >= 1 /\ n \in Nat
    BY <1>3
  <2>2. lr = lt - c /\ p = c + at - 1 /\ p + n <= lt
    BY <1>3, <1>6
  <2>. HIDE DEF lt, lr, at
  <2>3. at + n \in 1..lr + 1 /\ c + (at + n) - 1 = p + n
    BY <2>1, <2>2, StandsAfter
  <2>. QED  BY <2>3 DEF lt, lr, at
<1>8. next \in Loop(raw)
  BY <1>1, <1>4, <1>5, <1>7 DEF Loop
<1>9. (a \o b) \o fs = KeptTo(t, p) /\ KeptTo(t, p + n) = KeptTo(t, p) \o x
  BY <1>6 DEF LoopOK, a, b, fs, x
<1>10. (a \o b) \o (fs \o x) = ((a \o b) \o fs) \o x
  <2>1. a \in Seq(Key) /\ b \in Seq(Key) /\ fs \in Seq(Key) /\ x \in Seq(Key)
    BY <1>1, <1>2, <1>4
  <2>. QED  BY <2>1, Regroup, SMTT(60)
<1>11. FocusInsTo(t, c) + Refreshes(next.messages) = FocusInsTo(t, p + n)
  BY <1>5, <1>6 DEF LoopOK
<1>12. Data(next.messages) = b
  BY <1>5 DEF b
<1>13. (a \o Data(next.messages)) \o next.filtered = KeptTo(t, p + n)
  BY <1>5, <1>9, <1>10, <1>12
<1>14. c + next.at - 1 = p + n
  BY <1>5, <1>7
<1>15. LoopOK(t, c, raw, next)
  BY <1>8, <1>11, <1>13, <1>14 DEF LoopOK, a
<1>. QED  BY <1>15 DEF next

\* A focus report is left out, and a focus-in becomes a refresh.
LEMMA ReportOK ==
  ASSUME NEW t \in Seq(Key), NEW c \in 0..Len(t), NEW raw, NEW loop, NEW p, NEW rest,
         Stands(t, c, raw, loop, p, rest), LoopOK(t, c, raw, loop),
         p + 3 <= Len(t), Clean(t, p + 3), KeptTo(t, p + 3) = KeptTo(t, p)
  PROVE  /\ FocusInsTo(t, p + 3) = FocusInsTo(t, p) =>
              LoopOK(t, c, raw, [at |-> loop.at + 3, filtered |-> loop.filtered,
                                 messages |-> loop.messages])
         /\ FocusInsTo(t, p + 3) = FocusInsTo(t, p) + 1 =>
              LoopOK(t, c, raw, [at |-> loop.at + 3, filtered |-> <<>>,
                                 messages |-> Append(Flushed(loop), Refresh)])
<1>. DEFINE a == KeptTo(t, c)
            b == Data(loop.messages)
            fs == loop.filtered
            flushed == Flushed(loop)
            dropped == [at |-> loop.at + 3, filtered |-> fs, messages |-> loop.messages]
            refreshed == [at |-> loop.at + 3, filtered |-> <<>>,
                          messages |-> Append(flushed, Refresh)]
<1>1. /\ loop \in Loop(raw) /\ fs \in Seq(Key)
      /\ loop.messages \in Seq(Sent) /\ loop.messages \in Seq(Message)
  BY SentMessages DEF LoopOK, Loop
<1>2. a \in Seq(Key) /\ b \in Seq(Key) /\ FocusInsTo(t, c) \in Nat
  BY <1>1, DataType, KeptType
<1>3. /\ raw \in Seq(Key) /\ p \in 0..Len(t) /\ loop.at \in Nat /\ loop.at >= 1
      /\ Len(raw) = Len(t) - c /\ Len(t) \in Nat
  BY <1>1, Standing
<1>4. /\ flushed \in Seq(Sent) /\ flushed \in Seq(Message)
      /\ Data(flushed) = b \o fs
      /\ Refreshes(flushed) = Refreshes(loop.messages)
  BY <1>1, FlushedOK, SentMessages
<1>5. /\ Refresh \in Sent /\ Refresh \in Message /\ Refresh.data = <<>>
      /\ Refresh.kind = "refresh"
  BY SentMessages DEF Sent
<1>6. p = c + loop.at - 1 /\ (a \o b) \o fs = KeptTo(t, p)
      /\ FocusInsTo(t, c) + Refreshes(loop.messages) = FocusInsTo(t, p)
  BY DEF Stands, LoopOK
<1>. HIDE DEF a, b, fs, flushed
<1>7. loop.at + 3 \in 1..Len(raw) + 1 /\ c + (loop.at + 3) - 1 = p + 3
  <2>. DEFINE lt == Len(t)
              lr == Len(raw)
              at == loop.at
  <2>1. lt \in Nat /\ c \in 0..lt /\ at \in Nat /\ at >= 1 /\ 3 \in Nat
    BY <1>3
  <2>2. lr = lt - c /\ p = c + at - 1 /\ p + 3 <= lt
    BY <1>3, <1>6
  <2>. HIDE DEF lt, lr, at
  <2>3. at + 3 \in 1..lr + 1 /\ c + (at + 3) - 1 = p + 3
    BY <2>1, <2>2, StandsAfter
  <2>. QED  BY <2>3 DEF lt, lr, at
<1>8. ASSUME FocusInsTo(t, p + 3) = FocusInsTo(t, p) PROVE LoopOK(t, c, raw, dropped)
  <2>1. dropped \in Loop(raw)
    BY <1>1, <1>7 DEF Loop
  <2>2. /\ c + dropped.at - 1 = p + 3 /\ dropped.filtered = fs
        /\ dropped.messages = loop.messages
    BY <1>7
  <2>. HIDE DEF dropped
  <2>. QED  BY <1>6, <1>8, <2>1, <2>2 DEF LoopOK, a, b
<1>9. ASSUME FocusInsTo(t, p + 3) = FocusInsTo(t, p) + 1 PROVE LoopOK(t, c, raw, refreshed)
  <2>. DEFINE ms == Append(flushed, Refresh)
  <2>1. ms \in Seq(Sent)
    BY <1>4, <1>5
  <2>2. <<>> \in Seq(Key)
    OBVIOUS
  <2>3. Data(ms) = Data(flushed) \o Refresh.data
    BY <1>4, <1>5, DataAppend
  <2>4. Refreshes(ms) = Refreshes(flushed) + 1 /\ Refreshes(flushed) \in Nat
    BY <1>4, <1>5, RefreshesAppend
  <2>. DEFINE bf == b \o fs
  <2>5. bf \in Seq(Key)
    BY <1>1, <1>2
  <2>6. (a \o b) \o fs = a \o bf
    <3>1. a \in Seq(Key) /\ b \in Seq(Key) /\ fs \in Seq(Key)
      BY <1>1, <1>2
    <3>2. (a \o b) \o fs = a \o (b \o fs)
      BY <3>1, ConcatAssociative, SMTT(30)
    <3>. QED  BY <3>2
  <2>. HIDE DEF ms, bf
  <2>7. Data(ms) = bf
    <3>1. bf \o <<>> = bf
      BY <2>5, ConcatEmptySeq
    <3>. QED  BY <1>4, <1>5, <2>3, <3>1 DEF bf
  <2>8. (a \o Data(ms)) \o <<>> = KeptTo(t, p + 3)
    <3>. DEFINE ab == a \o bf
    <3>1. ab \in Seq(Key)
      BY <1>2, <2>5
    <3>. HIDE DEF ab
    <3>2. ab \o <<>> = ab
      BY <3>1, ConcatEmptySeq
    <3>. QED  BY <1>6, <2>6, <2>7, <3>2 DEF ab
  <2>9. FocusInsTo(t, c) + Refreshes(ms) = FocusInsTo(t, p + 3)
    BY <1>2, <1>4, <1>6, <1>9, <2>4
  <2>10. refreshed = [at |-> loop.at + 3, filtered |-> <<>>, messages |-> ms]
    BY DEF ms
  <2>. HIDE DEF refreshed
  <2>11. refreshed \in Loop(raw)
    BY <1>7, <2>1, <2>2, <2>10 DEF Loop
  <2>12. /\ c + refreshed.at - 1 = p + 3 /\ refreshed.filtered = <<>> /\ refreshed.messages = ms
    BY <1>7, <2>10
  <2>. QED  BY <2>8, <2>9, <2>11, <2>12 DEF LoopOK, a
<1>. QED  BY <1>8, <1>9 DEF fs, flushed

\* A round keeps to what is kept, and takes a byte or has stopped.
LEMMA RoundOK ==
  ASSUME NEW t \in Seq(Key), NEW c \in 0..Len(t), NEW raw, NEW loop, NEW p, NEW rest,
         Stands(t, c, raw, loop, p, rest), LoopOK(t, c, raw, loop)
  PROVE  /\ LoopOK(t, c, raw, Round(raw, loop))
         /\ Stopped(raw, loop) => Round(raw, loop) = loop
         /\ ~Stopped(raw, loop) => Round(raw, loop).at >= loop.at + 1
<1>10. loop \in Loop(raw)
  BY DEF LoopOK
<1>1. loop \in Loop(raw) /\ rest = SubSeq(raw, loop.at, Len(raw))
  BY <1>10 DEF Stands
<1>2. /\ raw \in Seq(Key) /\ rest \in Seq(Key) /\ Len(rest) = Len(t) - p
      /\ \A k \in 1..Len(t) - p : rest[k] = t[p + k]
      /\ p \in 0..Len(t) /\ loop.at \in Nat
  BY <1>10, Standing
<1>20. Len(t) \in Nat
  OBVIOUS
<1>3. Clean(t, p) /\ KeptTo(t, p) \in Seq(Key)
  BY <1>2, KeptType DEF LoopOK, Stands
<1>4. CASE Stopped(raw, loop)
  BY <1>1, <1>2, <1>4, RoundStops
<1>5. CASE ~Stopped(raw, loop)
  <2>1. /\ Len(rest) >= 1
        /\ rest[1] = "esc" => Len(rest) >= 2
        /\ rest[1] = "esc" /\ rest[2] = "[" => Len(rest) >= 3
    BY <1>1, <1>2, <1>5, RoundStops
  <2>2. /\ rest[1] = t[p + 1] /\ p \in 0..Len(t) - 1
        /\ SubSeq(rest, 1, 1) = <<t[p + 1]>> /\ t[p + 1] \in Key
    BY <1>2, <2>1, Beginning
  <2>3. CASE rest[1] # "esc" \/ (rest[1] = "esc" /\ rest[2] = "[" /\ ~IsFocus(rest[3]))
    <3>1. Round(raw, loop) = Pass(loop, rest, 1)
      BY <1>1, <1>2, <1>5, <2>3, RoundPasses
    <3>2. Clean(t, p + 1) /\ ~Report(t, p + 1) /\ ~Reported(t, p + 1)
      <4>1. CASE rest[1] # "esc"
        BY <1>3, <2>2, <4>1, PlainByte
      <4>2. CASE rest[1] = "esc" /\ rest[2] = "[" /\ ~IsFocus(rest[3])
        <5>1. p \in 0..Len(t) - 3 /\ rest[2] = t[p + 2] /\ rest[3] = t[p + 3]
          BY <1>2, <2>1, <4>2
        <5>. QED  BY <1>3, <2>2, <4>2, <5>1, OtherSequence
      <4>. QED  BY <2>3, <4>1, <4>2
    <3>3. KeptTo(t, p + 1) = Append(KeptTo(t, p), t[p + 1]) /\ FocusInsTo(t, p + 1) = FocusInsTo(t, p)
      BY <2>2, <3>2, KeptNext
    <3>4. KeptTo(t, p + 1) = KeptTo(t, p) \o SubSeq(rest, 1, 1)
      <4>. DEFINE s == KeptTo(t, p)
                  x == t[p + 1]
      <4>1. s \in Seq(Key) /\ x \in Key
        BY <1>3, <2>2
      <4>. HIDE DEF s, x
      <4>2. s \o <<x>> = Append(s, x)
        BY <4>1
      <4>. QED  BY <2>2, <3>3, <4>2 DEF s, x
    <3>5. p + 1 <= Len(t) /\ 1 \in 1..2
      BY <1>2, <2>2
    <3>6. LoopOK(t, c, raw, Pass(loop, rest, 1))
      BY <3>2, <3>3, <3>4, <3>5, PassOK
    <3>7. Pass(loop, rest, 1).at = loop.at + 1
      BY DEF Pass
    <3>. QED  BY <1>2, <1>5, <3>1, <3>6, <3>7
  <2>4. CASE rest[1] = "esc" /\ rest[2] # "["
    <3>1. Round(raw, loop) = Pass(loop, rest, 2)
      BY <1>1, <1>2, <1>5, <2>4, RoundPasses
    <3>2. /\ Len(rest) >= 2 /\ rest[2] = t[p + 2] /\ p \in 0..Len(t) - 2
          /\ p + 1 \in 0..Len(t) - 1 /\ (p + 1) + 1 = p + 2
      BY <1>2, <2>1, <2>4
    <3>3. SubSeq(rest, 1, 2) = <<t[p + 1], t[p + 2]>> /\ t[p + 1] \in Key /\ t[p + 2] \in Key
      BY <1>2, <2>2, <3>2, Beginning
    <3>4. /\ Clean(t, p + 2) /\ ~Report(t, p + 1) /\ ~Reported(t, p + 1)
          /\ ~Report(t, p + 2) /\ ~Reported(t, p + 2)
      BY <1>3, <2>2, <2>4, <3>2, EscapedByte
    <3>5. KeptTo(t, p + 1) = Append(KeptTo(t, p), t[p + 1]) /\ FocusInsTo(t, p + 1) = FocusInsTo(t, p)
      BY <2>2, <3>4, KeptNext
    <3>6. /\ KeptTo(t, p + 2) = Append(KeptTo(t, p + 1), t[p + 2])
          /\ FocusInsTo(t, p + 2) = FocusInsTo(t, p + 1)
      BY <3>2, <3>4, KeptNext
    <3>7. KeptTo(t, p + 2) = KeptTo(t, p) \o SubSeq(rest, 1, 2)
      <4>. DEFINE s == KeptTo(t, p)
                  x == t[p + 1]
                  y == t[p + 2]
      <4>1. s \in Seq(Key) /\ x \in Key /\ y \in Key
        BY <1>3, <3>3
      <4>. HIDE DEF s, x, y
      <4>2. s \o <<x, y>> = Append(Append(s, x), y)
        BY <4>1
      <4>. QED  BY <3>3, <3>5, <3>6, <4>2 DEF s, x, y
    <3>8. p + 2 <= Len(t) /\ 2 \in 1..2
      BY <1>2, <3>2
    <3>9. FocusInsTo(t, p + 2) = FocusInsTo(t, p)
      BY <3>5, <3>6
    <3>10. LoopOK(t, c, raw, Pass(loop, rest, 2))
      BY <3>4, <3>7, <3>8, <3>9, PassOK
    <3>11. Pass(loop, rest, 2).at = loop.at + 2
      BY DEF Pass
    <3>. QED  BY <1>2, <1>5, <3>1, <3>10, <3>11
  <2>5. CASE rest[1] = "esc" /\ rest[2] = "[" /\ IsFocus(rest[3])
    <3>1. /\ rest[2] = t[p + 2] /\ rest[3] = t[p + 3] /\ p \in 0..Len(t) - 3
          /\ p + 1 \in 0..Len(t) - 1 /\ p + 2 \in 0..Len(t) - 1
          /\ (p + 1) + 1 = p + 2 /\ (p + 2) + 1 = p + 3 /\ p + 3 <= Len(t)
      BY <1>2, <2>1, <2>5
    <3>2. /\ Clean(t, p + 3) /\ Report(t, p + 1) /\ ~Report(t, p + 2) /\ ~Report(t, p + 3)
          /\ Reported(t, p + 1) /\ Reported(t, p + 2) /\ Reported(t, p + 3)
      BY <1>3, <2>2, <2>5, <3>1, FocusReport
    <3>3. /\ KeptTo(t, p + 1) = KeptTo(t, p)
          /\ FocusInsTo(t, p + 1) = IF t[p + 3] = "I" THEN FocusInsTo(t, p) + 1 ELSE FocusInsTo(t, p)
      BY <2>2, <3>2, KeptNext
    <3>4. KeptTo(t, p + 2) = KeptTo(t, p + 1) /\ FocusInsTo(t, p + 2) = FocusInsTo(t, p + 1)
      BY <3>1, <3>2, KeptNext
    <3>5. KeptTo(t, p + 3) = KeptTo(t, p + 2) /\ FocusInsTo(t, p + 3) = FocusInsTo(t, p + 2)
      BY <3>1, <3>2, KeptNext
    <3>6. KeptTo(t, p + 3) = KeptTo(t, p)
      BY <3>3, <3>4, <3>5
    <3>7. CASE rest[3] = "I"
      <4>. DEFINE next == [at |-> loop.at + 3, filtered |-> <<>>,
                           messages |-> Append(Flushed(loop), Refresh)]
      <4>1. Round(raw, loop) = next
        BY <1>1, <1>2, <1>5, <2>5, <3>7, RoundReports
      <4>2. FocusInsTo(t, p + 3) = FocusInsTo(t, p) + 1
        BY <3>1, <3>3, <3>4, <3>5, <3>7
      <4>3. LoopOK(t, c, raw, next)
        BY <3>1, <3>2, <3>6, <4>2, ReportOK
      <4>. QED  BY <1>2, <1>5, <4>1, <4>3
    <3>8. CASE rest[3] = "O"
      <4>. DEFINE next == [at |-> loop.at + 3, filtered |-> loop.filtered,
                           messages |-> loop.messages]
      <4>1. Round(raw, loop) = next
        BY <1>1, <1>2, <1>5, <2>5, <3>8, RoundReports
      <4>2. FocusInsTo(t, p + 3) = FocusInsTo(t, p)
        BY <3>1, <3>3, <3>4, <3>5, <3>8
      <4>3. LoopOK(t, c, raw, next)
        BY <3>1, <3>2, <3>6, <4>2, ReportOK
      <4>. QED  BY <1>2, <1>5, <4>1, <4>3
    <3>. QED  BY <2>5, <3>7, <3>8 DEF IsFocus
  <2>. QED  BY <2>3, <2>4, <2>5
<1>. QED  BY <1>4, <1>5

-----------------------------------------------------------------------------
(* InputFilter::process, when the loop has stopped *)

Start == [at |-> 1, filtered |-> <<>>, messages |-> <<>>]

IsFilter(f, raw) ==
  f = [n \in 0..Len(raw) |-> IF n = 0 THEN Start ELSE Round(raw, f[n - 1])]

Rounds(raw) == CHOOSE f : IsFilter(f, raw)

LEMMA FilterIs == ASSUME NEW raw PROVE Filter(raw) = Rounds(raw)[Len(raw)]
BY Zenon DEF Filter, Rounds, IsFilter, Start

LEMMA StartOK ==
  ASSUME NEW t \in Seq(Key), NEW c \in 0..Len(t), Clean(t, c),
         NEW raw, raw = SubSeq(t, c + 1, Len(t))
  PROVE  LoopOK(t, c, raw, Start)
<1>. DEFINE a == KeptTo(t, c)
<1>1. a \in Seq(Key) /\ FocusInsTo(t, c) \in Nat
  BY KeptType
<1>2. Len(raw) \in Nat
  BY Suffix
<1>3. 1 \in 1..Len(raw) + 1 /\ <<>> \in Seq(Key) /\ <<>> \in Seq(Sent)
  BY <1>2
<1>4. Start \in Loop(raw)
  BY <1>3 DEF Start, Loop
<1>. HIDE DEF a
<1>5. (a \o <<>>) \o <<>> = a
  <2>1. a \o <<>> = a
    BY <1>1, ConcatEmptySeq
  <2>. QED  BY <2>1
<1>6. Start.at = 1 /\ Start.filtered = <<>> /\ Start.messages = <<>>
  BY DEF Start
<1>7. c + 1 - 1 = c /\ FocusInsTo(t, c) + 0 = FocusInsTo(t, c)
  BY <1>1
<1>8. (a \o Data(Start.messages)) \o Start.filtered = a
  BY <1>5, <1>6, DataEmpty
<1>9. c + Start.at - 1 = c /\ FocusInsTo(t, c) + Refreshes(Start.messages) = FocusInsTo(t, c)
  BY <1>6, <1>7, RefreshesNone
<1>. QED  BY <1>4, <1>8, <1>9 DEF LoopOK, a

\* There are the rounds that Filter speaks of.
LEMMA RoundsExist ==
  ASSUME NEW t \in Seq(Key), NEW c \in 0..Len(t), Clean(t, c),
         NEW raw, raw = SubSeq(t, c + 1, Len(t))
  PROVE  \E f : IsFilter(f, raw)
<1>. DEFINE S == {loop \in Loop(raw) : LoopOK(t, c, raw, loop)}
            N == Len(raw)
            step == [n \in 1..N |-> [loop \in S |-> Round(raw, loop)]]
<1>1. ASSUME NEW loop \in S PROVE Round(raw, loop) \in S
  <2>. DEFINE p == c + loop.at - 1
              rest == SubSeq(raw, loop.at, Len(raw))
  <2>1. Stands(t, c, raw, loop, p, rest) /\ LoopOK(t, c, raw, loop)
    BY DEF Stands
  <2>. HIDE DEF p, rest
  <2>2. LoopOK(t, c, raw, Round(raw, loop))
    BY <2>1, RoundOK
  <2>. QED  BY <2>2 DEF LoopOK
<1>2. Start \in S
  BY StartOK DEF LoopOK
<1>3. N \in Nat
  BY Suffix
<1>. HIDE DEF S, N
<1>4. step \in [1..N -> [S -> S]]
  BY <1>1
<1>5. \A n \in 1..N, loop \in S : step[n][loop] = Round(raw, loop)
  OBVIOUS
<1>. HIDE DEF step
<1>6. PICK f : Follows(f, N, S, Start, step)
  BY <1>2, <1>3, <1>4, Recursion
<1>7. ASSUME NEW n \in 0..N
      PROVE  f[n] = IF n = 0 THEN Start ELSE Round(raw, f[n - 1])
  <2>1. CASE n = 0
    BY <1>6, <2>1 DEF Follows
  <2>2. CASE n # 0
    <3>1. n \in 1..N /\ n - 1 \in 0..N
      BY <1>3, <2>2
    <3>2. f[n - 1] \in S /\ f[n] = step[n][f[n - 1]]
      BY <1>6, <3>1 DEF Follows
    <3>. QED  BY <1>5, <2>2, <3>1, <3>2
  <2>. QED  BY <2>1, <2>2
<1>8. IsFilter(f, raw)
  <2>1. f = [n \in 0..N |-> f[n]]
    BY <1>6 DEF Follows
  <2>. QED  BY <1>7, <2>1 DEF IsFilter, N
<1>. QED  BY <1>8

\* The loop lets through what is kept, and stops with nothing left, or with the
\* beginning of a sequence.
LEMMA FilterOK ==
  ASSUME NEW t \in Seq(Key), NEW c \in 0..Len(t), Clean(t, c),
         NEW raw, raw = SubSeq(t, c + 1, Len(t))
  PROVE  LoopOK(t, c, raw, Filter(raw)) /\ Stopped(raw, Filter(raw))
<1>. DEFINE f == Rounds(raw)
            N == Len(raw)
            Far(n) == f[n].at >= n + 1 \/ Stopped(raw, f[n])
            G == {n \in 0..N : LoopOK(t, c, raw, f[n]) /\ Far(n)}
<1>1. IsFilter(f, raw)
  BY RoundsExist DEF Rounds
<1>2. N \in Nat /\ raw \in Seq(Key)
  BY Suffix
<1>. HIDE DEF f
<1>3. \A n \in 0..N : f[n] = IF n = 0 THEN Start ELSE Round(raw, f[n - 1])
  BY <1>1 DEF IsFilter
<1>4. f[0] = Start /\ \A n \in 0..N - 1 : f[n + 1] = Round(raw, f[n])
  <2>1. 0 \in 0..N /\ \A n \in 0..N - 1 : n + 1 \in 0..N /\ n + 1 # 0 /\ (n + 1) - 1 = n
    BY <1>2
  <2>. HIDE DEF N
  <2>. QED  BY <1>3, <2>1
<1>5. 0 \in G
  <2>1. LoopOK(t, c, raw, Start) /\ Start.at = 1
    BY StartOK DEF Start
  <2>. QED  BY <1>2, <1>4, <2>1
<1>6. ASSUME NEW n \in 0..N - 1, n \in G PROVE n + 1 \in G
  <2>. DEFINE loop == f[n]
              p == c + loop.at - 1
              rest == SubSeq(raw, loop.at, Len(raw))
  <2>1. Stands(t, c, raw, loop, p, rest) /\ LoopOK(t, c, raw, loop)
    BY <1>6 DEF Stands
  <2>2. Far(n) /\ n + 1 \in 0..N /\ f[n + 1] = Round(raw, loop)
    BY <1>2, <1>4, <1>6
  <2>. HIDE DEF p, rest, loop
  <2>3. /\ LoopOK(t, c, raw, Round(raw, loop))
        /\ Stopped(raw, loop) => Round(raw, loop) = loop
        /\ ~Stopped(raw, loop) => Round(raw, loop).at >= loop.at + 1
    BY <2>1, RoundOK
  <2>4. Round(raw, loop).at \in Nat /\ loop.at \in Nat
    <3>1. Round(raw, loop).at \in 1..N + 1 /\ loop.at \in 1..N + 1
      BY <2>1, <2>3 DEF LoopOK, Loop
    <3>. QED  BY <1>2, <3>1
  <2>5. Stopped(raw, Round(raw, loop)) \/ Round(raw, loop).at >= (n + 1) + 1
    <3>1. CASE Stopped(raw, loop)
      BY <2>3, <3>1
    <3>2. CASE ~Stopped(raw, loop)
      <4>1. loop.at >= n + 1
        BY <2>2, <3>2 DEF loop
      <4>. QED  BY <2>3, <2>4, <3>2, <4>1
    <3>. QED  BY <3>1, <3>2
  <2>. QED  BY <2>2, <2>3, <2>5
<1>7. N \in G
  <2>1. 0..N \subseteq G
    <3>. HIDE DEF G, N
    <3>. QED  BY <1>2, <1>5, <1>6, Induction
  <2>2. N \in 0..N
    BY <1>2
  <2>. HIDE DEF G
  <2>. QED  BY <2>1, <2>2
<1>8. LoopOK(t, c, raw, f[N]) /\ Far(N)
  BY <1>7
<1>9. Stopped(raw, f[N])
  <2>1. CASE f[N].at >= N + 1
    <3>1. f[N].at \in 1..N + 1
      BY <1>8 DEF LoopOK, Loop
    <3>2. f[N].at \in Int /\ Len(raw) < f[N].at
      BY <1>2, <2>1, <3>1
    <3>3. SubSeq(raw, f[N].at, Len(raw)) = <<>>
      BY <1>2, <3>2, SubSeqEmpty
    <3>. QED  BY <3>3 DEF Stopped
  <2>. QED  BY <1>8, <2>1
<1>. QED  BY <1>8, <1>9, FilterIs DEF f

-----------------------------------------------------------------------------
(* What one read of stdin does to what has been read before *)

\* cr is withheld of s, and the rest of s has gone through the filter: fw and rf
\* are what was forwarded and how often a refresh was asked for.
On(s, cr, fw, rf) ==
  /\ s \in Seq(Key) /\ cr \in Seq(Key) /\ (cr = <<>> \/ Withheld(cr))
  /\ Len(cr) <= Len(s)
  /\ cr = SubSeq(s, Len(s) - Len(cr) + 1, Len(s))
  /\ ~HasDetach(s)
  /\ Clean(s, Len(s) - Len(cr))
  /\ fw = KeptTo(s, Len(s) - Len(cr))
  /\ rf = FocusInsTo(s, Len(s) - Len(cr))

LEMMA OnTypes ==
  ASSUME NEW s, NEW cr, NEW fw, NEW rf, On(s, cr, fw, rf)
  PROVE  fw \in Seq(Key) /\ rf \in Nat /\ Len(s) - Len(cr) \in 0..Len(s)
<1>1. s \in Seq(Key) /\ cr \in Seq(Key) /\ Len(cr) <= Len(s)
  BY DEF On
<1>2. Len(s) - Len(cr) \in 0..Len(s)
  BY <1>1
<1>. QED  BY <1>1, <1>2, KeptType DEF On

\* What is withheld is kept, should nothing follow.
LEMMA LeftOver ==
  ASSUME NEW s, NEW cr, NEW fw, NEW rf, On(s, cr, fw, rf)
  PROVE  fw \o cr = Kept(s) /\ rf = FocusIns(s)
<1>. DEFINE c == Len(s) - Len(cr)
            n == Len(s)
<1>1. /\ s \in Seq(Key) /\ cr \in Seq(Key) /\ (cr = <<>> \/ Withheld(cr))
      /\ fw = KeptTo(s, c) /\ rf = FocusInsTo(s, c) /\ Clean(s, c) /\ cr = SubSeq(s, c + 1, n)
      /\ n \in Nat
  BY DEF On
<1>2. fw \in Seq(Key) /\ c \in 0..n
  BY OnTypes
<1>3. Len(cr) <= 2 /\ c + Len(cr) = n /\ Len(cr) \in Nat
  <2>1. Len(cr) <= 2
    <3>1. Len(<<>>) = 0 /\ Len(<<"esc">>) = 1 /\ Len(<<"esc", "[">>) = 2
      OBVIOUS
    <3>2. cr = <<>> \/ cr = <<"esc">> \/ cr = <<"esc", "[">>
      BY <1>1 DEF Withheld
    <3>3. CASE cr = <<>>
      BY <3>3
    <3>4. CASE cr = <<"esc">>
      BY <3>1, <3>4
    <3>5. CASE cr = <<"esc", "[">>
      BY <3>1, <3>5
    <3>. QED  BY <3>2, <3>3, <3>4, <3>5
  <2>. QED  BY <1>1, <2>1
<1>4. \A k \in 1..n - c : cr[k] = s[c + k]
  BY <1>1, <1>2, Suffix
<1>5. Kept(s) = KeptTo(s, n) /\ FocusIns(s) = FocusInsTo(s, n)
  BY <1>1, KeptAll
<1>. HIDE DEF c, n
<1>6. \A i \in c + 1..n : ~Report(s, i)
  BY <1>2, <1>3 DEF Report, n
<1>7. ~Report(s, c)
  BY <1>1, <1>2, CleanReports DEF n
<1>8. CASE Len(cr) = 0
  <2>1. cr = <<>> /\ c = n
    BY <1>1, <1>2, <1>3, <1>8
  <2>2. fw \o <<>> = fw
    BY <1>2, ConcatEmptySeq
  <2>. QED  BY <1>1, <1>5, <2>1, <2>2
<1>9. CASE Len(cr) >= 1
  <2>1. c + 1 \in c + 1..n /\ c \in 0..n - 1 /\ 1 \in 1..n - c /\ n \in Nat
    BY <1>1, <1>2, <1>3, <1>9
  <2>2. ~Reported(s, c + 1)
    BY <1>1, <1>2, <1>6, <2>1, CleanReports DEF n
  <2>3. KeptTo(s, c + 1) = Append(fw, cr[1]) /\ FocusInsTo(s, c + 1) = rf
    BY <1>1, <1>4, <1>6, <2>1, <2>2, KeptNext DEF n
  <2>4. CASE Len(cr) = 1
    <3>1. cr = <<cr[1]>> /\ n = c + 1
      BY <1>1, <1>2, <1>3, <2>4, Beginning
    <3>. DEFINE x == cr[1]
    <3>2. cr = <<x>>
      BY <3>1
    <3>3. x \in Key
      BY <1>1, <1>9, Beginning
    <3>. HIDE DEF x
    <3>4. fw \o <<x>> = Append(fw, x)
      BY <1>2, <3>3
    <3>. QED  BY <1>5, <2>3, <3>1, <3>2, <3>4 DEF x
  <2>5. CASE Len(cr) = 2
    <3>1. /\ c + 2 \in c + 1..n /\ c + 1 \in 0..n - 1 /\ 2 \in 1..n - c /\ n = c + 2
          /\ (c + 1) + 1 = c + 2
      BY <1>1, <1>2, <1>3, <2>5
    <3>2. ~Reported(s, c + 2)
      <4>1. SUFFICES ASSUME NEW i \in 1..c + 2, c + 2 <= i + 2, Report(s, i) PROVE FALSE
        BY DEF Reported
      <4>2. i = c \/ i \in c + 1..n
        BY <1>1, <1>2, <3>1, <4>1
      <4>. QED  BY <1>6, <1>7, <4>1, <4>2
    <3>3. /\ KeptTo(s, c + 2) = Append(KeptTo(s, c + 1), s[c + 2])
          /\ FocusInsTo(s, c + 2) = FocusInsTo(s, c + 1)
      BY <1>1, <1>6, <3>1, <3>2, KeptNext DEF n
    <3>4. KeptTo(s, n) = Append(Append(fw, cr[1]), cr[2]) /\ FocusInsTo(s, n) = rf
      BY <1>4, <2>3, <3>1, <3>3
    <3>. DEFINE x == cr[1]
                y == cr[2]
    <3>5. cr = <<x, y>> /\ x \in Key /\ y \in Key
      <4>1. Len(cr) >= 1 /\ Len(cr) >= 2
        BY <2>5
      <4>. QED  BY <1>1, <2>5, <4>1, Beginning
    <3>. HIDE DEF x, y
    <3>6. fw \o <<x, y>> = Append(Append(fw, x), y)
      BY <1>2, <3>5
    <3>. QED  BY <1>5, <3>4, <3>5, <3>6 DEF x, y
  <2>6. Len(cr) = 1 \/ Len(cr) = 2
    <3>. DEFINE k == Len(cr)
    <3>1. k \in Nat /\ k <= 2 /\ k >= 1
      BY <1>3, <1>9
    <3>. HIDE DEF k
    <3>2. k = 1 \/ k = 2
      BY <3>1
    <3>. QED  BY <3>2 DEF k
  <2>. QED  BY <2>4, <2>5, <2>6
<1>. QED  BY <1>3, <1>8, <1>9

\* The detach key is found where it is first.
LEMMA DetachAtIs ==
  ASSUME NEW s \in Seq(Key), NEW i \in 1..Len(s), s[i] = "detach",
         \A j \in 1..i - 1 : s[j] # "detach"
  PROVE  DetachAt(s) = i
<1>. DEFINE First(k) == s[k] = "detach" /\ \A j \in 1..k - 1 : s[j] # "detach"
            d == CHOOSE k \in 1..Len(s) : First(k)
<1>1. First(i)
  OBVIOUS
<1>2. d \in 1..Len(s) /\ First(d)
  <2>. HIDE DEF First
  <2>. QED  BY <1>1
<1>. HIDE DEF d
<1>3. ~(d < i) /\ ~(i < d)
  <2>1. d < i => d \in 1..i - 1
    BY <1>2
  <2>2. i < d => i \in 1..d - 1
    BY <1>2
  <2>. QED  BY <1>1, <1>2, <2>1, <2>2
<1>4. d = i
  BY <1>2, <1>3
<1>. QED  BY <1>4 DEF d, DetachAt

LEMMA DetachFound ==
  ASSUME NEW s \in Seq(Key), HasDetach(s)
  PROVE  /\ DetachAt(s) \in 1..Len(s) /\ s[DetachAt(s)] = "detach"
         /\ \A j \in 1..DetachAt(s) - 1 : s[j] # "detach"
<1>. DEFINE T == {i \in 1..Len(s) : s[i] = "detach"}
<1>1. T \subseteq Nat /\ T # {}
  BY DEF HasDetach, Range
<1>2. PICK x \in T : \A y \in T : x <= y
  <2>. HIDE DEF T
  <2>. QED  BY <1>1, LeastNat
<1>3. x \in 1..Len(s) /\ s[x] = "detach"
  OBVIOUS
<1>4. ASSUME NEW j \in 1..x - 1 PROVE s[j] # "detach"
  <2>1. j \in 1..Len(s) /\ ~(x <= j)
    BY <1>3
  <2>. QED  BY <1>2, <2>1
<1>5. DetachAt(s) = x
  BY <1>3, <1>4, DetachAtIs
<1>. QED  BY <1>3, <1>4, <1>5

LEMMA DetachIn ==
  ASSUME NEW s \in Seq(Key)
  PROVE  HasDetach(s) <=> \E i \in 1..Len(s) : s[i] = "detach"
BY DEF HasDetach, Range

Continues(s, t, c, raw, fw, rf) ==
  /\ t \in Seq(Key) /\ raw \in Seq(Key) /\ Prefix(s, t)
  /\ c \in 0..Len(s) /\ c \in 0..Len(t) /\ Len(t) = c + Len(raw)
  /\ raw = SubSeq(t, c + 1, Len(t))
  /\ \A k \in 1..Len(raw) : raw[k] = t[c + k]
  /\ Clean(t, c)
  /\ fw = KeptTo(t, c) /\ rf = FocusInsTo(t, c)

\* What is filtered next, withheld bytes first, is what follows the clean
\* position in all that has been read.
LEMMA Following ==
  ASSUME NEW s, NEW cr, NEW fw, NEW rf, On(s, cr, fw, rf), NEW new \in Seq(Key),
         NEW t, t = s \o new, NEW c, c = Len(s) - Len(cr), NEW raw, raw = cr \o new
  PROVE  Continues(s, t, c, raw, fw, rf)
<1>1. /\ s \in Seq(Key) /\ cr \in Seq(Key) /\ cr = SubSeq(s, c + 1, Len(s))
      /\ Clean(s, c) /\ fw = KeptTo(s, c) /\ rf = FocusInsTo(s, c)
  BY DEF On
<1>2. c \in 0..Len(s) /\ Len(s) \in Nat /\ Len(cr) \in Nat /\ Len(new) \in Nat
  <2>1. Len(s) - Len(cr) \in 0..Len(s)
    BY OnTypes
  <2>. QED  BY <1>1, <2>1
<1>3. /\ t \in Seq(Key) /\ Len(t) = Len(s) + Len(new)
      /\ \A i \in 1..Len(s) + Len(new) : t[i] = IF i <= Len(s) THEN s[i] ELSE new[i - Len(s)]
  BY <1>1, ConcatProperties
<1>4. /\ raw \in Seq(Key) /\ Len(raw) = Len(cr) + Len(new)
      /\ \A i \in 1..Len(cr) + Len(new) : raw[i] = IF i <= Len(cr) THEN cr[i] ELSE new[i - Len(cr)]
  BY <1>1, ConcatProperties
<1>5. c + Len(cr) = Len(s)
  BY <1>2
<1>6. Prefix(s, t)
  BY <1>2, <1>3 DEF Prefix
<1>7. c \in 0..Len(t) /\ Len(t) = c + Len(raw)
  BY <1>2, <1>3, <1>4, <1>5
<1>8. Clean(t, c)
  BY <1>1, <1>2, <1>3, <1>6, CleanPrefix
<1>9. fw = KeptTo(t, c) /\ rf = FocusInsTo(t, c)
  BY <1>1, <1>2, <1>3, <1>6, KeptPrefix
<1>10. ASSUME NEW k \in 1..Len(raw) PROVE raw[k] = t[c + k]
  <2>1. k \in 1..Len(cr) + Len(new) /\ c + k \in 1..Len(s) + Len(new)
    BY <1>2, <1>4, <1>5
  <2>2. CASE k <= Len(cr)
    <3>1. k \in 1..Len(s) - c /\ c + k <= Len(s)
      BY <1>2, <1>5, <2>1, <2>2
    <3>2. cr[k] = s[c + k]
      BY <1>1, <1>2, <3>1, Suffix
    <3>. QED  BY <1>3, <1>4, <2>1, <2>2, <3>1, <3>2
  <2>3. CASE ~(k <= Len(cr))
    <3>1. ~(c + k <= Len(s)) /\ (c + k) - Len(s) = k - Len(cr)
      BY <1>2, <1>5, <2>1, <2>3
    <3>. QED  BY <1>3, <1>4, <2>1, <2>3, <3>1
  <2>. QED  BY <2>2, <2>3
<1>11. raw = SubSeq(t, c + 1, Len(t))
  <2>. DEFINE u == SubSeq(t, c + 1, Len(t))
  <2>1. u \in Seq(Key) /\ Len(u) = Len(t) - c /\ \A k \in 1..Len(t) - c : u[k] = t[c + k]
    <3>1. t \in Seq(Key) /\ c \in 0..Len(t)
      BY <1>3, <1>7
    <3>. HIDE DEF u
    <3>2. /\ SubSeq(t, c + 1, Len(t)) \in Seq(Key) /\ Len(SubSeq(t, c + 1, Len(t))) = Len(t) - c
          /\ \A k \in 1..Len(t) - c : SubSeq(t, c + 1, Len(t))[k] = t[c + k]
      BY <3>1, Suffix
    <3>. QED  BY <3>2 DEF u
  <2>2. Len(raw) = Len(t) - c /\ Len(raw) \in Nat
    BY <1>2, <1>4, <1>7
  <2>. HIDE DEF u
  <2>3. Len(raw) = Len(u) /\ \A k \in 1..Len(raw) : raw[k] = u[k]
    BY <1>10, <2>1, <2>2
  <2>4. raw = u
    BY <1>4, <2>1, <2>3, SeqEqual
  <2>. QED  BY <2>4 DEF u
<1>. QED  BY <1>2, <1>3, <1>4, <1>6, <1>7, <1>8, <1>9, <1>10, <1>11 DEF Continues

\* A read without the detach key goes through the filter.
LEMMA ProcessFilters ==
  ASSUME NEW s, NEW cr, NEW fw, NEW rf, On(s, cr, fw, rf), NEW new \in Seq(Key),
         ~HasDetach(cr \o new), NEW result, result = Process(cr \o new)
  PROVE  /\ result.messages \in Seq(Message) /\ Detach \notin Range(result.messages)
         /\ On(s \o new, result.carry, fw \o Data(result.messages),
               rf + Refreshes(result.messages))
<1>. DEFINE t == s \o new
            c == Len(s) - Len(cr)
            raw == cr \o new
            loop == Filter(raw)
            p == c + loop.at - 1
            rest == SubSeq(raw, loop.at, Len(raw))
            ms == Flushed(loop)
<1>2. s \in Seq(Key) /\ ~HasDetach(s)
  BY DEF On
<1>3. result.messages = ms /\ result.carry = rest
  BY DEF Process
<1>20. t = s \o new /\ c = Len(s) - Len(cr) /\ raw = cr \o new /\ ~HasDetach(raw)
  OBVIOUS
<1>. HIDE DEF t, c, raw
<1>1. /\ t \in Seq(Key) /\ raw \in Seq(Key) /\ Prefix(s, t)
      /\ c \in 0..Len(s) /\ c \in 0..Len(t) /\ Len(t) = c + Len(raw)
      /\ raw = SubSeq(t, c + 1, Len(t))
      /\ \A k \in 1..Len(raw) : raw[k] = t[c + k]
      /\ Clean(t, c)
      /\ fw = KeptTo(t, c) /\ rf = FocusInsTo(t, c)
  <2>1. Continues(s, t, c, raw, fw, rf)
    BY <1>20, Following
  <2>. QED  BY <2>1 DEF Continues
<1>4. LoopOK(t, c, raw, loop) /\ Stopped(raw, loop)
  BY <1>1, FilterOK
<1>. HIDE DEF loop
<1>5. Stands(t, c, raw, loop, p, rest) /\ loop \in Loop(raw)
  BY <1>1, <1>4 DEF Stands, LoopOK
<1>6. rest = <<>> \/ Withheld(rest)
  BY <1>4 DEF Stopped
<1>7. /\ loop.messages \in Seq(Sent) /\ loop.messages \in Seq(Message) /\ loop.filtered \in Seq(Key)
  BY <1>5, SentMessages DEF Loop
<1>8. /\ Clean(t, p)
      /\ (KeptTo(t, c) \o Data(loop.messages)) \o loop.filtered = KeptTo(t, p)
      /\ FocusInsTo(t, c) + Refreshes(loop.messages) = FocusInsTo(t, p)
  BY <1>4 DEF LoopOK
<1>9. /\ ms \in Seq(Sent) /\ ms \in Seq(Message)
      /\ Data(ms) = Data(loop.messages) \o loop.filtered
      /\ Refreshes(ms) = Refreshes(loop.messages)
  BY <1>5, FlushedOK, SentMessages
<1>10. Detach \notin Range(ms)
  <2>1. \A i \in 1..Len(ms) : ms[i] \in Sent
    BY <1>9
  <2>2. Detach \notin Sent
    BY DEF Detach, Sent
  <2>. QED  BY <2>1, <2>2 DEF Range
<1>. HIDE DEF p, rest, ms
<1>11. rest \in Seq(Key) /\ Len(rest) = Len(t) - p /\ p \in 0..Len(t)
  <2>1. t \in Seq(Key) /\ c \in 0..Len(t) /\ Stands(t, c, raw, loop, p, rest) /\ loop \in Loop(raw)
    BY <1>1, <1>5
  <2>. QED  BY <2>1, Standing
<1>12. fw \o Data(ms) = KeptTo(t, p)
  <2>. DEFINE a == Data(loop.messages)
              b == loop.filtered
  <2>1. fw \in Seq(Key) /\ a \in Seq(Key) /\ b \in Seq(Key)
    BY <1>7, DataType, OnTypes
  <2>2. (fw \o a) \o b = KeptTo(t, p) /\ Data(ms) = a \o b
    BY <1>1, <1>8, <1>9
  <2>. HIDE DEF a, b
  <2>3. (fw \o a) \o b = fw \o (a \o b)
    BY <2>1, ConcatAssociative
  <2>. QED  BY <2>2, <2>3
<1>13. Len(t) - Len(rest) = p /\ Len(rest) <= Len(t)
  BY <1>1, <1>11
<1>14. rest = SubSeq(t, p + 1, Len(t))
  <2>. DEFINE u == SubSeq(t, p + 1, Len(t))
  <2>1. u \in Seq(Key) /\ Len(u) = Len(t) - p /\ \A k \in 1..Len(t) - p : u[k] = t[p + k]
    BY <1>1, <1>11, Suffix
  <2>2. \A k \in 1..Len(t) - p : rest[k] = t[p + k]
    <3>1. t \in Seq(Key) /\ c \in 0..Len(t) /\ Stands(t, c, raw, loop, p, rest) /\ loop \in Loop(raw)
      BY <1>1, <1>5
    <3>. QED  BY <3>1, Standing
  <2>. HIDE DEF u
  <2>3. Len(rest) = Len(u) /\ \A k \in 1..Len(rest) : rest[k] = u[k]
    BY <1>11, <2>1, <2>2
  <2>4. rest = u
    BY <1>11, <2>1, <2>3, SeqEqual
  <2>. QED  BY <2>4 DEF u
<1>15. ~HasDetach(t)
  <2>. SUFFICES ASSUME NEW i \in 1..Len(t), t[i] = "detach" PROVE FALSE
    BY <1>1, DetachIn
  <2>1. CASE i <= Len(s)
    <3>1. i \in 1..Len(s) /\ s[i] = "detach"
      BY <1>1, <2>1 DEF Prefix
    <3>. QED  BY <1>2, <3>1, DetachIn
  <2>2. CASE i > Len(s)
    <3>. DEFINE k == i - c
    <3>1. k \in 1..Len(raw) /\ c + k = i
      BY <1>1, <1>2, <2>2
    <3>. HIDE DEF k
    <3>2. raw[k] = "detach"
      BY <1>1, <3>1
    <3>. QED  BY <1>1, <3>1, <3>2, DetachIn DEF raw
  <2>3. i <= Len(s) \/ i > Len(s)
    BY <1>1, <1>2
  <2>. QED  BY <2>1, <2>2, <2>3
<1>16. rf + Refreshes(ms) = FocusInsTo(t, p)
  BY <1>1, <1>8, <1>9
<1>17. On(t, rest, fw \o Data(ms), rf + Refreshes(ms))
  BY <1>1, <1>6, <1>8, <1>11, <1>12, <1>13, <1>14, <1>15, <1>16 DEF On
<1>. QED  BY <1>3, <1>9, <1>10, <1>17 DEF t

Detaches(s, fw, t, result) ==
  /\ result.messages \in Seq(Message) /\ Detach \in Range(result.messages)
  /\ result.carry = <<>>
  /\ Refreshes(result.messages) \in Nat
  /\ HasDetach(t) /\ DetachAt(t) \in Len(s) + 1..Len(t)
  /\ fw \o Data(result.messages) = Kept(s) \o SubSeq(t, Len(s) + 1, DetachAt(t) - 1)

\* A read with the detach key is not filtered, and ends with it.
LEMMA ProcessDetaches ==
  ASSUME NEW s, NEW cr, NEW fw, NEW rf, On(s, cr, fw, rf), NEW new \in Seq(Key),
         HasDetach(cr \o new), NEW result, result = Process(cr \o new),
         NEW t, t = s \o new
  PROVE  Detaches(s, fw, t, result)
<1>. DEFINE c == Len(s) - Len(cr)
            raw == cr \o new
            d == DetachAt(raw)
            before == SubSeq(raw, 1, d - 1)
            first == IF before = <<>> THEN <<>> ELSE <<Input(before)>>
            ms == first \o <<Detach>>
            after == SubSeq(t, Len(s) + 1, c + d - 1)
<1>3. result.messages = ms /\ result.carry = <<>>
  BY DEF Process
<1>30. c = Len(s) - Len(cr) /\ raw = cr \o new /\ HasDetach(raw)
  OBVIOUS
<1>. HIDE DEF c, raw
<1>1. /\ t \in Seq(Key) /\ raw \in Seq(Key) /\ Prefix(s, t)
      /\ c \in 0..Len(s) /\ c \in 0..Len(t) /\ Len(t) = c + Len(raw)
      /\ raw = SubSeq(t, c + 1, Len(t))
      /\ \A k \in 1..Len(raw) : raw[k] = t[c + k]
  <2>1. Continues(s, t, c, raw, fw, rf)
    BY <1>30, Following
  <2>. QED  BY <2>1 DEF Continues
<1>2. s \in Seq(Key) /\ ~HasDetach(s) /\ cr \in Seq(Key) /\ Len(cr) = Len(s) - c
      /\ fw \in Seq(Key) /\ cr = SubSeq(s, c + 1, Len(s))
  <2>1. s \in Seq(Key) /\ ~HasDetach(s) /\ cr \in Seq(Key) /\ cr = SubSeq(s, c + 1, Len(s))
    BY <1>30 DEF On
  <2>2. fw \in Seq(Key) /\ Len(cr) = Len(s) - c
    <3>1. fw \in Seq(Key) /\ Len(s) - Len(cr) \in 0..Len(s)
      BY OnTypes
    <3>. QED  BY <1>30, <2>1, <3>1
  <2>. QED  BY <2>1, <2>2
<1>4. d \in 1..Len(raw) /\ raw[d] = "detach" /\ \A j \in 1..d - 1 : raw[j] # "detach"
  BY <1>1, <1>30, DetachFound
<1>5. fw \o cr = Kept(s)
  BY LeftOver
<1>6. Len(s) \in Nat /\ Len(raw) \in Nat /\ Len(t) \in Nat /\ c \in Nat
  BY <1>1, <1>2
<1>. HIDE DEF d
<1>7. \A j \in 1..Len(s) : t[j] # "detach"
  <2>1. \A j \in 1..Len(s) : t[j] = s[j]
    BY <1>1 DEF Prefix
  <2>. QED  BY <1>2, <2>1, DetachIn
<1>8. c + d \in 1..Len(t) /\ c + d > Len(s) /\ t[c + d] = "detach"
  <2>1. c + d \in 1..Len(t) /\ t[c + d] = "detach"
    BY <1>1, <1>4, <1>6
  <2>2. ~(c + d \in 1..Len(s))
    BY <1>7, <2>1
  <2>. QED  BY <1>6, <2>1, <2>2
<1>9. ASSUME NEW j \in 1..(c + d) - 1 PROVE t[j] # "detach"
  <2>1. CASE j <= Len(s)
    BY <1>6, <1>7, <2>1
  <2>2. CASE j > Len(s)
    <3>. DEFINE k == j - c
    <3>1. k \in 1..d - 1 /\ k \in 1..Len(raw) /\ c + k = j
      BY <1>1, <1>4, <1>6, <2>2
    <3>. HIDE DEF k
    <3>2. raw[k] # "detach" /\ raw[k] = t[c + k]
      BY <1>1, <1>4, <3>1
    <3>. QED  BY <3>1, <3>2
  <2>3. j <= Len(s) \/ j > Len(s)
    BY <1>6
  <2>. QED  BY <2>1, <2>2, <2>3
<1>10. DetachAt(t) = c + d
  <2>. DEFINE i == c + d
  <2>1. i \in 1..Len(t) /\ t[i] = "detach" /\ \A j \in 1..i - 1 : t[j] # "detach"
    BY <1>8, <1>9
  <2>. HIDE DEF i
  <2>2. DetachAt(t) = i
    BY <1>1, <2>1, DetachAtIs
  <2>. QED  BY <2>2 DEF i
<1>11. HasDetach(t) /\ DetachAt(t) \in Len(s) + 1..Len(t)
  <2>1. HasDetach(t)
    BY <1>1, <1>8, DetachIn
  <2>2. c + d \in Len(s) + 1..Len(t)
    BY <1>6, <1>8
  <2>. QED  BY <1>10, <2>1, <2>2
<1>12. before \in Seq(Key) /\ Len(before) = d - 1 /\ \A k \in 1..d - 1 : before[k] = raw[k]
  <2>. DEFINE e == d - 1
  <2>1. e \in 0..Len(raw)
    BY <1>4, <1>6
  <2>. HIDE DEF e
  <2>2. /\ SubSeq(raw, 1, e) \in Seq(Key) /\ Len(SubSeq(raw, 1, e)) = e
        /\ \A k \in 1..e : SubSeq(raw, 1, e)[k] = raw[k]
    BY <1>1, <2>1
  <2>. QED  BY <2>2 DEF e
<1>13. after \in Seq(Key) /\ Len(after) = c + d - 1 - Len(s)
       /\ \A k \in 1..c + d - 1 - Len(s) : after[k] = t[Len(s) + k]
  <2>. DEFINE m == Len(s) + 1
              n == c + d - 1
  <2>1. m \in Int /\ n \in Int /\ m <= n + 1 /\ n <= Len(t) /\ m >= 1
    BY <1>4, <1>6, <1>8
  <2>2. \A i \in m..n : t[i] \in Key
    BY <1>1, <1>6, <2>1
  <2>3. n - m + 1 = c + d - 1 - Len(s) /\ \A k \in 1..n - m + 1 : m + k - 1 = Len(s) + k
    BY <1>4, <1>6
  <2>. HIDE DEF m, n
  <2>4. /\ SubSeq(t, m, n) \in Seq(Key)
        /\ Len(SubSeq(t, m, n)) = IF m <= n THEN n - m + 1 ELSE 0
        /\ \A k \in 1..n - m + 1 : SubSeq(t, m, n)[k] = t[m + k - 1]
    BY <2>1, <2>2, SubSeqProperties
  <2>5. Len(SubSeq(t, m, n)) = n - m + 1
    BY <2>1, <2>4
  <2>. QED  BY <2>3, <2>4, <2>5 DEF m, n
<1>. HIDE DEF before, after
<1>14. before = cr \o after
  <2>. DEFINE u == cr \o after
              lc == Len(cr)
              la == Len(after)
  <2>1. /\ u \in Seq(Key) /\ Len(u) = lc + la
        /\ \A k \in 1..lc + la : u[k] = IF k <= lc THEN cr[k] ELSE after[k - lc]
    <3>1. cr \in Seq(Key) /\ after \in Seq(Key)
      BY <1>2, <1>13
    <3>. QED  BY <3>1, ConcatProperties
  <2>2. lc = Len(s) - c /\ la = c + d - 1 - Len(s) /\ lc + la = d - 1 /\ lc \in Nat /\ la \in Nat
    <3>1. lc = Len(s) - c /\ la = c + d - 1 - Len(s)
      BY <1>2, <1>13
    <3>2. lc \in Nat /\ la \in Nat
      BY <1>2, <1>13
    <3>. HIDE DEF lc, la
    <3>3. d \in Int
      BY <1>4
    <3>. QED  BY <1>6, <3>1, <3>2, <3>3
  <2>. HIDE DEF u, lc, la
  <2>3. ASSUME NEW k \in 1..Len(before) PROVE before[k] = u[k]
    <3>1. k \in 1..d - 1 /\ k \in 1..Len(raw) /\ k \in 1..lc + la
      BY <1>4, <1>6, <1>12, <2>2
    <3>2. before[k] = t[c + k]
      BY <1>1, <1>12, <3>1
    <3>3. CASE k <= lc
      <4>1. k \in 1..Len(s) - c /\ c + k \in 1..Len(s)
        BY <1>6, <2>2, <3>1, <3>3
      <4>2. cr[k] = s[c + k]
        BY <1>1, <1>2, <4>1, Suffix
      <4>3. s[c + k] = t[c + k]
        BY <1>1, <4>1 DEF Prefix
      <4>. QED  BY <2>1, <3>1, <3>2, <3>3, <4>2, <4>3
    <3>4. CASE ~(k <= lc)
      <4>1. k - lc \in 1..c + d - 1 - Len(s) /\ Len(s) + (k - lc) = c + k
        BY <1>4, <1>6, <2>2, <3>1, <3>4
      <4>2. after[k - lc] = t[c + k]
        BY <1>13, <4>1
      <4>. QED  BY <2>1, <3>1, <3>2, <3>4, <4>2
    <3>. QED  BY <3>3, <3>4
  <2>4. Len(before) = Len(u)
    BY <1>12, <2>1, <2>2
  <2>5. before = u
    BY <1>12, <2>1, <2>3, <2>4, SeqEqual
  <2>. QED  BY <2>5 DEF u
<1>15. Detach \in Message /\ Detach.data = <<>>
  <2>1. <<>> \in Seq(Key)
    OBVIOUS
  <2>. QED  BY <2>1 DEF Detach, Message
<1>16. first \in Seq(Message) /\ Data(first) = before
  <2>1. CASE before = <<>>
    BY <2>1, DataEmpty
  <2>2. CASE before # <<>>
    <3>. DEFINE m == Input(before)
    <3>1. m \in Message /\ m.data = before
      BY <1>12, SentMessages DEF Sent
    <3>2. first = <<m>>
      BY <2>2
    <3>. HIDE DEF m
    <3>3. Data(<<m>>) = m.data
      BY <3>1, DataOne
    <3>4. <<m>> \in Seq(Message)
      BY <3>1
    <3>5. Data(<<m>>) = before
      BY <3>1, <3>3
    <3>. QED  BY <3>2, <3>4, <3>5
  <2>. QED  BY <2>1, <2>2
<1>. HIDE DEF first
<1>17. ms = Append(first, Detach) /\ ms \in Seq(Message)
  BY <1>15, <1>16
<1>18. Data(ms) = before
  <2>1. Data(ms) = Data(first) \o Detach.data
    BY <1>15, <1>16, <1>17, DataAppend
  <2>2. before \o <<>> = before
    BY <1>12, ConcatEmptySeq
  <2>. QED  BY <1>15, <1>16, <2>1, <2>2
<1>19. Detach \in Range(ms)
  <2>1. Len(first) + 1 \in DOMAIN ms /\ ms[Len(first) + 1] = Detach
    BY <1>15, <1>16, <1>17
  <2>. QED  BY <2>1 DEF Range
<1>. HIDE DEF ms
<1>20. Refreshes(ms) \in Nat
  BY <1>15, <1>17, RefreshesAppend
<1>21. fw \o Data(ms) = Kept(s) \o after
  <2>1. fw \in Seq(Key) /\ cr \in Seq(Key) /\ after \in Seq(Key)
    BY <1>2, <1>13
  <2>2. (fw \o cr) \o after = fw \o (cr \o after)
    BY <2>1, ConcatAssociative, SMTT(30)
  <2>. QED  BY <1>5, <1>14, <1>18, <2>2
<1>22. after = SubSeq(t, Len(s) + 1, DetachAt(t) - 1)
  <2>1. DetachAt(t) - 1 = c + d - 1
    BY <1>4, <1>6, <1>10
  <2>. QED  BY <2>1, Zenon DEF after
<1>. HIDE DEF after
<1>. QED  BY <1>3, <1>11, <1>17, <1>19, <1>20, <1>21, <1>22 DEF Detaches

-----------------------------------------------------------------------------
(* The inductive invariant *)

\* What has been read, as the filter stands while the client runs
ClientOK ==
  /\ client = "on" => On(SubSeq(typed, 1, read), carry, forwarded, refreshes)
  /\ client # "on" => FilterExact

\* The bytes of the write that has the lock, and of a job that waits for it
Held == IF lock = "job" THEN job ELSE answer
Waiting == IF lock = "job" THEN <<>> ELSE job

\* The stream as it will be when the write that has the lock is done
Line == Stream \o Held

WholeIn(s) ==
  \A i, l \in 1..Len(s) : \A j \in i..l : s[i].by = s[l].by => s[j].by = s[i].by

OrderedIn(s) ==
  \A i, j \in 1..Len(s) :
    i < j /\ s[i].by < 0 /\ s[j].by < 0 =>
      \/ s[i].by > s[j].by
      \/ s[i].by = s[j].by /\ s[i].key # s[j].key

\* A waiting job is of a write of its own, the last one taken.
JobOK ==
  /\ \A i \in 1..Len(job) : job[i].by = served
  /\ job # <<>> => served >= 1
  /\ \A i \in 1..Len(Line) : Line[i].by <= served /\ Line[i].by # 0
  /\ lock # "job" /\ job # <<>> => \A i \in 1..Len(Line) : Line[i].by # served

\* Every byte that was forwarded is in one place.
BytesOK == Keys(Typed(Line)) \o Keys(Waiting) \o Data(socket) = forwarded

\* Queries: read earlier, deferred, not read yet.
QueriesOK ==
  /\ \A i \in 1..Len(answer) : answer[i].by < 0
  /\ \A i, j \in 1..Len(ptyout) : i < j /\ ptyout[i] # 0 /\ ptyout[j] # 0 => ptyout[i] < ptyout[j]
  /\ \A i, j \in 1..Len(deferred) : i < j => deferred[i] < deferred[j]
  /\ \A i \in 1..Len(deferred), j \in 1..Len(ptyout) : ptyout[j] # 0 => deferred[i] < ptyout[j]
  /\ \A i \in 1..Len(Line) : -Line[i].by <= asked
  /\ \A i \in 1..Len(Line), j \in 1..Len(deferred) : -Line[i].by < deferred[j]
  /\ \A i \in 1..Len(Line), j \in 1..Len(ptyout) : ptyout[j] # 0 => -Line[i].by < ptyout[j]

LineOK == WholeIn(Line) /\ OrderedIn(Line) /\ JobOK /\ BytesOK

IInv == TypeOK /\ ClientOK /\ LineOK /\ QueriesOK

-----------------------------------------------------------------------------
(* The client keeps the invariant *)

\* What has been read and what one read adds.
LEMMA ReadMore ==
  ASSUME NEW t \in Seq(Key), NEW r \in 0..Len(t), NEW n \in Nat, r + n <= Len(t)
  PROVE  /\ SubSeq(t, 1, r) \in Seq(Key) /\ SubSeq(t, r + 1, r + n) \in Seq(Key)
         /\ SubSeq(t, 1, r + n) = SubSeq(t, 1, r) \o SubSeq(t, r + 1, r + n)
         /\ Len(SubSeq(t, 1, r)) = r
<1>. DEFINE k == r
            m == r + n
<1>1. k \in Nat /\ m \in k..Len(t) /\ k \in 1 - 1..Len(t) /\ 1 \in 1..Len(t) + 1 /\ k + 1 >= 1
  OBVIOUS
<1>. HIDE DEF k, m
<1>2. SubSeq(t, 1, k) \o SubSeq(t, k + 1, m) = SubSeq(t, 1, m)
  BY <1>1, ConcatAdjacentSubSeq
<1>3. SubSeq(t, 1, k) \in Seq(Key) /\ SubSeq(t, k + 1, m) \in Seq(Key) /\ Len(SubSeq(t, 1, k)) = k
  BY <1>1
<1>. QED  BY <1>2, <1>3 DEF k, m

LEMMA TypeIsOK ==
  ASSUME TypeOK, ClientOK, NEW k \in setup.keys, Type(k)
  PROVE  /\ ClientOK' /\ typed' \in Seq(Key) /\ read' \in 0..Len(typed') /\ whole' \in 0..read'
<1>1. k \in Key
  <2>1. setup.keys \in SUBSET Key
    BY SetupsAssumption DEF TypeOK
  <2>. QED  BY <2>1
<1>2. typed' = Append(typed, k) /\ UNCHANGED <<read, carry, client, whole, forwarded, refreshes>>
  BY DEF Type
<1>3. typed \in Seq(Key) /\ read \in 0..Len(typed) /\ whole \in 0..read
  BY DEF TypeOK
<1>4. typed' \in Seq(Key) /\ Len(typed') = Len(typed) + 1
  BY <1>1, <1>2, <1>3
<1>5. SubSeq(typed', 1, read) = SubSeq(typed, 1, read)
  BY <1>1, <1>2, <1>3
<1>6. client = "on"
  BY DEF Type
<1>7. ClientOK'
  BY <1>2, <1>5, <1>6 DEF ClientOK
<1>. QED  BY <1>2, <1>3, <1>4, <1>7

LEMMA ReadStdinIsOK ==
  ASSUME TypeOK, ClientOK, NEW n \in 1..setup.max, ReadStdin(n)
  PROVE  /\ ClientOK' /\ typed' \in Seq(Key) /\ read' \in 0..Len(typed') /\ whole' \in 0..read'
         /\ carry' = <<>> \/ Withheld(carry')
         /\ client' \in {"on", "detached", "eof"}
         /\ forwarded' \in Seq(Key) /\ refreshes' \in Nat
         /\ \E ms \in Seq(Message) : socket' = socket \o ms /\ forwarded' = forwarded \o Data(ms)
<1>. DEFINE s == SubSeq(typed, 1, read)
            new == SubSeq(typed, read + 1, read + n)
            result == Process(carry \o new)
            ms == result.messages
            t == SubSeq(typed, 1, read + n)
<1>1. setup.max \in Nat
  BY SetupsAssumption DEF TypeOK
<1>2. typed \in Seq(Key) /\ read \in 0..Len(typed) /\ n \in Nat /\ read + n <= Len(typed) /\ read \in Nat
  BY <1>1 DEF TypeOK, ReadStdin
<1>3. s \in Seq(Key) /\ new \in Seq(Key) /\ t = s \o new /\ Len(s) = read
  BY <1>2, ReadMore
<1>4. client = "on" /\ On(s, carry, forwarded, refreshes)
  BY DEF ReadStdin, ClientOK
<1>5. forwarded \in Seq(Key) /\ refreshes \in Nat
  BY DEF TypeOK
<1>6. /\ carry' = result.carry /\ typed' = typed /\ read' = read + n /\ whole' = read
      /\ socket' = socket \o ms /\ forwarded' = forwarded \o Data(ms)
      /\ refreshes' = refreshes + Refreshes(ms)
      /\ client' = IF Detach \in Range(ms) THEN "detached" ELSE "on"
  BY DEF ReadStdin, Send
<1>7. SubSeq(typed', 1, read') = t
  BY <1>6
<1>8. typed' \in Seq(Key) /\ read' \in 0..Len(typed') /\ whole' \in 0..read'
  BY <1>2, <1>6
<1>9. CASE ~HasDetach(carry \o new)
  <2>1. result = Process(carry \o new) /\ s \o new = t
    BY <1>3
  <2>. HIDE DEF s, new, result, t
  <2>2. /\ ms \in Seq(Message) /\ Detach \notin Range(ms)
        /\ On(s \o new, result.carry, forwarded \o Data(ms), refreshes + Refreshes(ms))
    BY <1>3, <1>4, <1>9, <2>1, ProcessFilters
  <2>3. client' = "on" /\ On(t, carry', forwarded', refreshes')
    BY <1>6, <2>1, <2>2
  <2>4. ClientOK'
    BY <1>7, <2>3 DEF ClientOK
  <2>5. forwarded' \in Seq(Key) /\ refreshes' \in Nat
    BY <2>3, OnTypes
  <2>6. carry' = <<>> \/ Withheld(carry')
    BY <2>3 DEF On
  <2>. QED  BY <1>6, <1>8, <2>2, <2>3, <2>4, <2>5, <2>6
<1>10. CASE HasDetach(carry \o new)
  <2>1. result = Process(carry \o new) /\ t = s \o new
    BY <1>3
  <2>. HIDE DEF s, new, result, t
  <2>2. /\ ms \in Seq(Message) /\ Detach \in Range(ms)
        /\ result.carry = <<>>
        /\ Refreshes(ms) \in Nat
        /\ HasDetach(t) /\ DetachAt(t) \in Len(s) + 1..Len(t)
        /\ forwarded \o Data(ms) = Kept(s) \o SubSeq(t, Len(s) + 1, DetachAt(t) - 1)
    <3>1. Detaches(s, forwarded, t, result)
      BY <1>3, <1>4, <1>10, <2>1, ProcessDetaches
    <3>. QED  BY <3>1 DEF Detaches
  <2>3. client' = "detached" /\ carry' = <<>>
    BY <1>6, <2>2
  <2>4. Data(ms) \in Seq(Key)
    BY <2>2, DataType
  <2>5. forwarded' \in Seq(Key) /\ refreshes' \in Nat
    <3>1. forwarded \o Data(ms) \in Seq(Key)
      BY <1>5, <2>4
    <3>2. refreshes + Refreshes(ms) \in Nat
      BY <1>5, <2>2, SMTT(30)
    <3>. QED  BY <1>6, <3>1, <3>2
  <2>6. whole' < DetachAt(t)
    <3>1. DetachAt(t) \in Int /\ DetachAt(t) >= read + 1
      BY <1>2, <1>3, <2>2
    <3>. QED  BY <1>2, <1>6, <3>1
  <2>7. SubSeq(t, read + 1, DetachAt(t) - 1) = SubSeq(typed, read + 1, DetachAt(t) - 1)
    <3>. DEFINE d == DetachAt(t)
                r == read + n
    <3>1. d \in read + 1..r /\ r \in read..Len(typed)
      <4>1. t \in Seq(Key) /\ Len(t) = r
        <5>1. r \in 0..Len(typed)
          BY <1>2
        <5>. HIDE DEF r
        <5>2. SubSeq(typed, 1, r) \in Seq(Key) /\ Len(SubSeq(typed, 1, r)) = r
          BY <1>2, <5>1
        <5>. QED  BY <5>2 DEF t, r
      <4>. QED  BY <1>2, <1>3, <2>2, <4>1
    <3>2. t = SubSeq(typed, 1, r)
      BY DEF t
    <3>. HIDE DEF d, r
    <3>3. SubSeq(SubSeq(typed, 1, r), read + 1, d - 1) = SubSeq(typed, read + 1, d - 1)
      BY <1>2, <3>1
    <3>. QED  BY <3>2, <3>3 DEF d
  <2>8. forwarded' = Kept(SubSeq(typed', 1, whole')) \o
                       SubSeq(typed', whole' + 1, DetachAt(SubSeq(typed', 1, read')) - 1)
    BY <1>3, <1>6, <1>7, <2>2, <2>7 DEF s
  <2>9. FilterExact'
    BY <1>7, <2>3, <2>6, <2>8 DEF FilterExact
  <2>10. ClientOK'
    BY <2>3, <2>9 DEF ClientOK
  <2>. QED  BY <1>6, <1>8, <2>2, <2>3, <2>5, <2>10
<1>. QED  BY <1>9, <1>10

LEMMA EndOfInputIsOK ==
  ASSUME TypeOK, ClientOK, EndOfInput
  PROVE  /\ ClientOK' /\ carry' = <<>> /\ client' = "eof"
         /\ forwarded' \in Seq(Key) /\ refreshes' \in Nat
         /\ \E ms \in Seq(Message) : socket' = socket \o ms /\ forwarded' = forwarded \o Data(ms)
<1>. DEFINE s == SubSeq(typed, 1, read)
            ms == IF carry = <<>> THEN <<>> ELSE <<Input(carry)>>
<1>1. On(s, carry, forwarded, refreshes)
  BY DEF EndOfInput, ClientOK
<1>2. /\ carry' = <<>> /\ client' = "eof" /\ UNCHANGED <<typed, read, whole>>
      /\ socket' = socket \o ms /\ forwarded' = forwarded \o Data(ms)
      /\ refreshes' = refreshes + Refreshes(ms)
  BY DEF EndOfInput, Send
<1>3. carry \in Seq(Key) /\ forwarded \in Seq(Key) /\ refreshes \in Nat
  BY <1>1 DEF TypeOK, On
<1>. HIDE DEF s
<1>4. forwarded \o carry = Kept(s) /\ refreshes = FocusIns(s)
  BY <1>1, LeftOver
<1>5. ms \in Seq(Message) /\ Data(ms) = carry /\ Refreshes(ms) = 0
  <2>1. CASE carry = <<>>
    <3>1. ms = <<>>
      BY <2>1
    <3>. QED  BY <2>1, <3>1, DataEmpty, RefreshesNone
  <2>2. CASE carry # <<>>
    <3>. DEFINE m == Input(carry)
    <3>1. m \in Message /\ m.data = carry /\ m.kind = "input"
      BY <1>3, SentMessages DEF Sent
    <3>2. ms = <<m>>
      BY <2>2
    <3>. HIDE DEF m, ms
    <3>3. Data(<<m>>) = carry
      BY <3>1, DataOne
    <3>4. <<>> \in Seq(Message) /\ <<m>> = Append(<<>>, m) /\ <<m>> \in Seq(Message)
      BY <3>1
    <3>5. Refreshes(Append(<<>>, m)) = IF m.kind = "refresh" THEN Refreshes(<<>>) + 1 ELSE Refreshes(<<>>)
      BY <3>1, <3>4, RefreshesAppend
    <3>6. Refreshes(<<m>>) = 0
      BY <3>1, <3>4, <3>5, RefreshesNone
    <3>. QED  BY <3>2, <3>3, <3>4, <3>6
  <2>. QED  BY <2>1, <2>2
<1>. HIDE DEF ms
<1>6. forwarded' = forwarded \o carry /\ refreshes' = refreshes
  BY <1>2, <1>3, <1>5
<1>7. forwarded' \in Seq(Key) /\ refreshes' \in Nat
  BY <1>3, <1>6
<1>8. forwarded' \o carry' = forwarded'
  BY <1>2, <1>7, ConcatEmptySeq
<1>9. FilterExact'
  BY <1>2, <1>4, <1>6, <1>8 DEF FilterExact, s
<1>10. ClientOK'
  BY <1>2, <1>9 DEF ClientOK
<1>. QED  BY <1>2, <1>5, <1>7, <1>10

-----------------------------------------------------------------------------
(* The stream *)

Ascending(s) == \A i, j \in 1..Len(s) : i < j => s[i] < s[j]

\* What t adds to a stream s of whole and ordered writes.
LEMMA WholeConcat ==
  ASSUME NEW s \in Seq(Byte), NEW t \in Seq(Byte), WholeIn(s), WholeIn(t),
         \A i \in 1..Len(s), j \in 1..Len(t) : s[i].by # t[j].by
  PROVE  WholeIn(s \o t)
<1>. DEFINE u == s \o t
            m == Len(s)
            n == Len(t)
<1>1. m \in Nat /\ n \in Nat /\ Len(u) = m + n
  OBVIOUS
<1>2. \A i \in 1..m + n : /\ i <= m => i \in 1..m /\ u[i] = s[i]
                          /\ i > m => i - m \in 1..n /\ u[i] = t[i - m]
  BY ConcatProperties, <1>1
<1>. HIDE DEF u, m, n
<1>3. SUFFICES ASSUME NEW i \in 1..m + n, NEW l \in 1..m + n, NEW j \in i..l, u[i].by = u[l].by
               PROVE  u[j].by = u[i].by
  BY <1>1 DEF WholeIn, u
<1>4. j \in 1..m + n /\ i <= j /\ j <= l
  BY <1>1
<1>5. CASE l <= m
  <2>1. i \in 1..m /\ l \in 1..m /\ j \in i..l /\ j <= m /\ i <= m
    BY <1>1, <1>4, <1>5
  <2>2. u[i] = s[i] /\ u[l] = s[l] /\ u[j] = s[j]
    BY <1>2, <1>4, <1>5, <2>1
  <2>. QED  BY <1>3, <2>1, <2>2 DEF WholeIn, m
<1>6. CASE i > m
  <2>1. i - m \in 1..n /\ l - m \in 1..n /\ j - m \in (i - m)..(l - m) /\ j > m /\ l > m
    BY <1>1, <1>4, <1>6
  <2>2. u[i] = t[i - m] /\ u[l] = t[l - m] /\ u[j] = t[j - m]
    BY <1>2, <1>4, <1>6, <2>1
  <2>. QED  BY <1>3, <2>1, <2>2 DEF WholeIn, n
<1>7. CASE i <= m /\ l > m
  <2>1. i \in 1..m /\ l - m \in 1..n /\ u[i] = s[i] /\ u[l] = t[l - m]
    BY <1>1, <1>2, <1>7
  <2>. QED  BY <1>3, <2>1 DEF m, n
<1>8. l <= m \/ i > m \/ (i <= m /\ l > m)
  BY <1>1
<1>. QED  BY <1>5, <1>6, <1>7, <1>8

LEMMA OrderedConcat ==
  ASSUME NEW s \in Seq(Byte), NEW t \in Seq(Byte), OrderedIn(s), OrderedIn(t),
         \A i \in 1..Len(s), j \in 1..Len(t) :
           s[i].by < 0 /\ t[j].by < 0 => s[i].by > t[j].by
  PROVE  OrderedIn(s \o t)
<1>. DEFINE u == s \o t
            m == Len(s)
            n == Len(t)
<1>1. m \in Nat /\ n \in Nat /\ Len(u) = m + n
  OBVIOUS
<1>2. \A i \in 1..m + n : /\ i <= m => i \in 1..m /\ u[i] = s[i]
                          /\ i > m => i - m \in 1..n /\ u[i] = t[i - m]
  BY ConcatProperties, <1>1
<1>. HIDE DEF u, m, n
<1>3. SUFFICES ASSUME NEW i \in 1..m + n, NEW j \in 1..m + n, i < j, u[i].by < 0, u[j].by < 0
               PROVE  \/ u[i].by > u[j].by
                      \/ u[i].by = u[j].by /\ u[i].key # u[j].key
  BY <1>1 DEF OrderedIn, u
<1>4. CASE j <= m
  <2>1. i \in 1..m /\ j \in 1..m /\ u[i] = s[i] /\ u[j] = s[j]
    BY <1>1, <1>2, <1>3, <1>4
  <2>. QED  BY <1>3, <2>1 DEF OrderedIn, m
<1>5. CASE i > m
  <2>1. i - m \in 1..n /\ j - m \in 1..n /\ i - m < j - m /\ u[i] = t[i - m] /\ u[j] = t[j - m]
    BY <1>1, <1>2, <1>3, <1>5
  <2>. QED  BY <1>3, <2>1 DEF OrderedIn, n
<1>6. CASE i <= m /\ j > m
  <2>1. i \in 1..m /\ j - m \in 1..n /\ u[i] = s[i] /\ u[j] = t[j - m]
    BY <1>1, <1>2, <1>6
  <2>. QED  BY <1>3, <2>1 DEF m, n
<1>7. j <= m \/ i > m \/ (i <= m /\ j > m)
  BY <1>1
<1>. QED  BY <1>4, <1>5, <1>6, <1>7

\* The bytes of a write of the client.
LEMMA OneWrite ==
  ASSUME NEW t \in Seq(Byte), NEW b \in Int, b >= 1, \A i \in 1..Len(t) : t[i].by = b
  PROVE  WholeIn(t) /\ OrderedIn(t) /\ AllTyped(t)
<1>1. WholeIn(t)
  <2>. SUFFICES ASSUME NEW i \in 1..Len(t), NEW l \in 1..Len(t), NEW j \in i..l
                PROVE  t[j].by = t[i].by
    BY DEF WholeIn
  <2>1. j \in 1..Len(t)
    OBVIOUS
  <2>. QED  BY <2>1
<1>2. OrderedIn(t)
  BY DEF OrderedIn
<1>3. AllTyped(t)
  BY DEF AllTyped
<1>. QED  BY <1>1, <1>2, <1>3

\* The bytes of the answers to qs.
LEMMA AnswersAre ==
  ASSUME NEW N \in Nat, NEW qs \in Seq(1..N), Ascending(qs)
  PROVE  /\ Answers(qs) \in Seq(Byte)
         /\ qs # <<>> => Answers(qs) # <<>>
         /\ \A i \in 1..Len(Answers(qs)) :
              \E k \in 1..Len(qs) : Answers(qs)[i].by = -qs[k]
         /\ \A k \in 1..Len(qs) :
              \E i \in 1..Len(Answers(qs)) : Answers(qs)[i].by = -qs[k]
         /\ WholeIn(Answers(qs)) /\ OrderedIn(Answers(qs)) /\ NoneTyped(Answers(qs))
<1>. DEFINE a == Answers(qs)
            n == Len(qs)
            at(i) == (i + 1) \div 2
<1>1. n \in Nat /\ a = [i \in 1..2 * n |->
                          [by |-> -qs[at(i)], key |-> IF i % 2 = 1 THEN "csi" ELSE "final"]]
  BY DEF Answers
<1>2. ASSUME NEW i \in 1..2 * n PROVE at(i) \in 1..n /\ i \in {2 * at(i) - 1, 2 * at(i)}
  BY <1>1
<1>3. ASSUME NEW k \in 1..n PROVE qs[k] \in Int /\ qs[k] >= 1
  <2>1. qs[k] \in 1..N
    OBVIOUS
  <2>. QED  BY <2>1
<1>. HIDE DEF a, at
<1>4. ASSUME NEW i \in 1..2 * n
      PROVE  /\ a[i].by = -qs[at(i)] /\ a[i].key = IF i % 2 = 1 THEN "csi" ELSE "final"
             /\ a[i] \in Byte /\ a[i].by < 0
  <2>1. a[i] = [by |-> -qs[at(i)], key |-> IF i % 2 = 1 THEN "csi" ELSE "final"]
    BY <1>1
  <2>2. -qs[at(i)] \in Int /\ -qs[at(i)] < 0
    BY <1>2, <1>3
  <2>3. "csi" \in Char /\ "final" \in Char
    BY DEF Char
  <2>. QED  BY <2>1, <2>2, <2>3 DEF Byte
<1>5. a \in Seq(Byte) /\ Len(a) = 2 * n
  <2>. DEFINE m == 2 * n
  <2>1. m \in Nat
    BY <1>1
  <2>2. DOMAIN a = 1..m /\ a = [i \in 1..m |-> a[i]]
    BY <1>1
  <2>. HIDE DEF m
  <2>3. a \in [1..m -> Byte]
    BY <1>4, <2>2 DEF m
  <2>4. a \in Seq(Byte) /\ Len(a) = m
    BY <2>1, <2>3
  <2>. QED  BY <2>4 DEF m
<1>6. qs # <<>> => a # <<>>
  <2>1. qs # <<>> => n >= 1
    BY <1>1
  <2>. QED  BY <1>1, <1>5, <2>1
<1>7. ASSUME NEW i \in 1..Len(a) PROVE \E k \in 1..n : a[i].by = -qs[k]
  BY <1>2, <1>4, <1>5
<1>8. ASSUME NEW k \in 1..n PROVE \E i \in 1..Len(a) : a[i].by = -qs[k]
  <2>. DEFINE i == 2 * k
  <2>1. i \in 1..2 * n /\ at(i) = k
    BY <1>1 DEF at
  <2>. QED  BY <1>4, <1>5, <2>1
<1>9. ASSUME NEW i \in 1..2 * n, NEW j \in 1..2 * n, i <= j
      PROVE  at(i) <= at(j)
  <2>1. i \in Nat /\ j \in Nat
    BY <1>1
  <2>. QED  BY <1>9, <2>1 DEF at
<1>10. ASSUME NEW k \in 1..n, NEW l \in 1..n, qs[k] = qs[l] PROVE k = l
  <2>1. ~(k < l) /\ ~(l < k)
    BY <1>3, <1>10 DEF Ascending
  <2>. QED  BY <2>1
<1>11. WholeIn(a)
  <2>1. SUFFICES ASSUME NEW i \in 1..2 * n, NEW l \in 1..2 * n, NEW j \in i..l, a[i].by = a[l].by
                 PROVE  a[j].by = a[i].by
    BY <1>5 DEF WholeIn
  <2>2. j \in 1..2 * n /\ i <= j /\ j <= l
    BY <1>1
  <2>3. at(i) \in 1..n /\ at(j) \in 1..n /\ at(l) \in 1..n
    BY <1>2, <2>2
  <2>4. qs[at(i)] = qs[at(l)]
    <3>1. a[i].by = -qs[at(i)] /\ a[l].by = -qs[at(l)]
      BY <1>4
    <3>2. qs[at(i)] \in Int /\ qs[at(l)] \in Int
      BY <1>3, <2>3
    <3>. DEFINE x == qs[at(i)]
                y == qs[at(l)]
    <3>3. x \in Int /\ y \in Int /\ -x = -y
      BY <2>1, <3>1, <3>2
    <3>. HIDE DEF x, y
    <3>4. x = y
      BY <3>3
    <3>. QED  BY <3>4 DEF x, y
  <2>5. at(i) = at(l)
    BY <1>10, <2>3, <2>4
  <2>6. at(i) <= at(j) /\ at(j) <= at(l)
    BY <1>9, <2>2
  <2>7. at(j) = at(i)
    BY <2>3, <2>5, <2>6
  <2>. QED  BY <1>4, <2>2, <2>7
<1>12. OrderedIn(a)
  <2>1. SUFFICES ASSUME NEW i \in 1..2 * n, NEW j \in 1..2 * n, i < j
                 PROVE  \/ a[i].by > a[j].by
                        \/ a[i].by = a[j].by /\ a[i].key # a[j].key
    BY <1>5 DEF OrderedIn
  <2>2. at(i) <= at(j) /\ at(i) \in 1..n /\ at(j) \in 1..n
    <3>1. i <= j
      BY <1>1, <2>1
    <3>. QED  BY <1>2, <1>9, <3>1
  <2>3. CASE at(i) = at(j)
    <3>1. i = 2 * at(i) - 1 /\ j = 2 * at(i)
      BY <1>1, <1>2, <2>1, <2>2, <2>3
    <3>2. i % 2 = 1 /\ j % 2 # 1
      <4>. DEFINE k == at(i)
      <4>1. k \in 1..n /\ i = 2 * k - 1 /\ j = 2 * k
        BY <2>2, <3>1
      <4>. HIDE DEF k
      <4>2. k \in Nat
        BY <4>1
      <4>. QED  BY <4>1, <4>2
    <3>3. a[i].key = "csi" /\ a[j].key = "final"
      BY <1>4, <3>2
    <3>. QED  BY <1>4, <2>3, <3>3
  <2>4. CASE at(i) < at(j)
    <3>1. qs[at(i)] < qs[at(j)]
      BY <2>2, <2>4 DEF Ascending
    <3>2. -qs[at(i)] > -qs[at(j)]
      <4>. DEFINE x == qs[at(i)]
                  y == qs[at(j)]
      <4>1. x \in Int /\ y \in Int /\ x < y
        BY <1>3, <2>2, <3>1
      <4>. HIDE DEF x, y
      <4>2. -x > -y
        BY <4>1
      <4>. QED  BY <4>2 DEF x, y
    <3>. QED  BY <1>4, <3>2
  <2>. QED  BY <2>2, <2>3, <2>4
<1>13. NoneTyped(a)
  <2>. SUFFICES ASSUME NEW i \in 1..Len(a) PROVE ~(a[i].by > 0)
    BY DEF NoneTyped
  <2>1. a[i].by < 0 /\ a[i].by \in Int
    BY <1>4, <1>5 DEF Byte
  <2>. QED  BY <2>1
<1>. QED  BY <1>5, <1>6, <1>7, <1>8, <1>11, <1>12, <1>13 DEF a

-----------------------------------------------------------------------------
(* Queries *)

Asks(s) == Select(s, {i \in 1..Len(s) : s[i] # 0})

LEMMA AsksAppend ==
  ASSUME NEW s \in Seq(Nat), NEW e \in Nat
  PROVE  Asks(Append(s, e)) = IF e # 0 THEN Append(Asks(s), e) ELSE Asks(s)
<1>. DEFINE t == Append(s, e)
            P == {i \in 1..Len(t) : t[i] # 0}
            Q == {i \in 1..Len(s) : s[i] # 0}
<1>1. /\ Len(t) = Len(s) + 1 /\ t[Len(s) + 1] = e /\ Len(s) + 1 \in 1..Len(t) /\ Len(s) \in Nat
      /\ \A i \in 1..Len(s) : t[i] = s[i] /\ i \in 1..Len(t)
  OBVIOUS
<1>2. Select(t, P) = IF Len(s) + 1 \in P THEN Append(Select(s, P), e) ELSE Select(s, P)
  <2>. HIDE DEF P
  <2>. QED  BY SelectAppend
<1>. HIDE DEF t
<1>3. Select(s, P) = Select(s, Q)
  <2>1. \A i \in 1..Len(s) : i \in P <=> i \in Q
    BY <1>1
  <2>. HIDE DEF P, Q
  <2>. QED  BY <2>1, SelectSame
<1>4. Len(s) + 1 \in P <=> e # 0
  BY <1>1
<1>. HIDE DEF P, Q
<1>. QED  BY <1>2, <1>3, <1>4 DEF Asks, P, Q, t

LEMMA AsksEmpty == Asks(<<>>) = <<>>
BY SelectEmpty DEF Asks

AscendingAsks(s) ==
  \A i, j \in 1..Len(s) : i < j /\ s[i] # 0 /\ s[j] # 0 => s[i] < s[j]

\* qs are the queries in s.
QueriesIn(N, s, qs) ==
  /\ qs \in Seq(1..N)
  /\ \A k \in 1..Len(qs) : \E i \in 1..Len(s) : s[i] = qs[k]
  /\ \A i \in 1..Len(s) : s[i] # 0 => \E k \in 1..Len(qs) : qs[k] = s[i]
  /\ AscendingAsks(s) => Ascending(qs)

LEMMA QueriesAppend ==
  ASSUME NEW N \in Nat, NEW s \in Seq(0..N), NEW qs, QueriesIn(N, s, qs), NEW e \in 0..N
  PROVE  QueriesIn(N, Append(s, e), IF e # 0 THEN Append(qs, e) ELSE qs)
<1>. DEFINE t == Append(s, e)
            n == Len(s)
            m == Len(qs)
            rs == IF e # 0 THEN Append(qs, e) ELSE qs
<1>1. /\ n \in Nat /\ Len(t) = n + 1 /\ t[n + 1] = e /\ \A i \in 1..n : t[i] = s[i]
      /\ \A i \in 1..n : s[i] \in 0..N
  OBVIOUS
<1>2. qs \in Seq(1..N) /\ m \in Nat /\ \A k \in 1..m : qs[k] \in 1..N
  BY DEF QueriesIn
<1>3. /\ rs \in Seq(1..N)
      /\ \A k \in 1..m : rs[k] = qs[k]
      /\ e # 0 => Len(rs) = m + 1 /\ rs[m + 1] = e
      /\ e = 0 => Len(rs) = m
  <2>1. CASE e = 0
    <3>1. rs = qs
      BY <2>1
    <3>. HIDE DEF rs
    <3>. QED  BY <1>2, <2>1, <3>1
  <2>2. CASE e # 0
    <3>1. rs = Append(qs, e) /\ e \in 1..N
      BY <2>2
    <3>. HIDE DEF rs
    <3>2. /\ Append(qs, e) \in Seq(1..N) /\ Len(Append(qs, e)) = m + 1
          /\ Append(qs, e)[m + 1] = e /\ \A k \in 1..m : Append(qs, e)[k] = qs[k]
      BY <1>2, <3>1
    <3>. QED  BY <2>2, <3>1, <3>2
  <2>. QED  BY <2>1, <2>2
<1>4. /\ \A k \in 1..m : \E i \in 1..n : s[i] = qs[k]
      /\ \A i \in 1..n : s[i] # 0 => \E k \in 1..m : qs[k] = s[i]
      /\ AscendingAsks(s) => Ascending(qs)
  BY DEF QueriesIn
<1>. HIDE DEF t, n, m, rs
<1>5. ASSUME NEW k \in 1..Len(rs) PROVE \E i \in 1..n + 1 : t[i] = rs[k]
  <2>1. CASE k \in 1..m
    <3>1. PICK i \in 1..n : s[i] = qs[k]
      BY <1>4, <2>1
    <3>2. i \in 1..n + 1 /\ t[i] = rs[k]
      BY <1>1, <1>3, <2>1, <3>1
    <3>. QED  BY <3>2
  <2>2. CASE k \notin 1..m
    <3>1. e # 0 /\ k = m + 1
      BY <1>2, <1>3, <2>2
    <3>2. n + 1 \in 1..n + 1 /\ t[n + 1] = rs[k]
      BY <1>1, <1>3, <3>1
    <3>. QED  BY <3>2
  <2>. QED  BY <2>1, <2>2
<1>6. ASSUME NEW i \in 1..n + 1, t[i] # 0 PROVE \E k \in 1..Len(rs) : rs[k] = t[i]
  <2>1. CASE i \in 1..n
    <3>1. PICK k \in 1..m : qs[k] = s[i]
      BY <1>1, <1>4, <1>6, <2>1
    <3>2. k \in 1..Len(rs)
      <4>1. Len(rs) = m \/ Len(rs) = m + 1
        BY <1>3
      <4>. QED  BY <1>2, <4>1
    <3>3. rs[k] = t[i]
      BY <1>1, <1>3, <2>1, <3>1
    <3>. QED  BY <3>2, <3>3
  <2>2. CASE i \notin 1..n
    <3>1. i = n + 1 /\ e # 0
      BY <1>1, <1>6, <2>2
    <3>2. m + 1 \in 1..Len(rs) /\ rs[m + 1] = t[i]
      BY <1>1, <1>2, <1>3, <3>1
    <3>. QED  BY <3>2
  <2>. QED  BY <2>1, <2>2
<1>7. ASSUME AscendingAsks(t) PROVE Ascending(rs)
  <2>1. ASSUME NEW i \in 1..n + 1, NEW j \in 1..n + 1, i < j, t[i] # 0, t[j] # 0 PROVE t[i] < t[j]
    BY <1>1, <1>7, <2>1 DEF AscendingAsks
  <2>2. AscendingAsks(s)
    <3>. SUFFICES ASSUME NEW i \in 1..n, NEW j \in 1..n, i < j, s[i] # 0, s[j] # 0
                  PROVE  s[i] < s[j]
      BY DEF AscendingAsks, n
    <3>1. i \in 1..n + 1 /\ j \in 1..n + 1 /\ t[i] = s[i] /\ t[j] = s[j]
      BY <1>1
    <3>. QED  BY <2>1, <3>1
  <2>3. ASSUME NEW k \in 1..m, NEW l \in 1..m, k < l PROVE qs[k] < qs[l]
    BY <1>4, <2>2, <2>3 DEF Ascending, m
  <2>4. ASSUME NEW k \in 1..m, e # 0 PROVE qs[k] < e
    <3>1. PICK i \in 1..n : s[i] = qs[k]
      BY <1>4
    <3>2. qs[k] # 0
      BY <1>2
    <3>3. i \in 1..n + 1 /\ n + 1 \in 1..n + 1 /\ i < n + 1 /\ t[i] = qs[k] /\ t[n + 1] = e
      BY <1>1, <3>1
    <3>. QED  BY <2>1, <2>4, <3>2, <3>3
  <2>. SUFFICES ASSUME NEW k \in 1..Len(rs), NEW l \in 1..Len(rs), k < l
                PROVE  rs[k] < rs[l]
    BY DEF Ascending
  <2>5. CASE l \in 1..m
    <3>1. k \in 1..m
      BY <1>2, <2>5
    <3>. QED  BY <1>3, <2>3, <2>5, <3>1
  <2>6. CASE l \notin 1..m
    <3>1. e # 0 /\ l = m + 1 /\ k \in 1..m
      BY <1>2, <1>3, <2>6
    <3>. QED  BY <1>3, <2>4, <3>1
  <2>. QED  BY <2>5, <2>6
<1>8. QueriesIn(N, t, rs)
  BY <1>1, <1>3, <1>5, <1>6, <1>7 DEF QueriesIn
<1>. QED  BY <1>8 DEF t, rs

LEMMA AsksOK == \A N \in Nat : \A s \in Seq(0..N) : QueriesIn(N, s, Asks(s))
<1>. SUFFICES ASSUME NEW N \in Nat PROVE \A s \in Seq(0..N) : QueriesIn(N, s, Asks(s))
  OBVIOUS
<1>. DEFINE T == 0..N
            G == {s \in Seq(T) : QueriesIn(N, s, Asks(s))}
<1>1. <<>> \in G
  <2>1. <<>> \in Seq(T) /\ <<>> \in Seq(1..N) /\ Len(<<>>) = 0
    OBVIOUS
  <2>2. QueriesIn(N, <<>>, <<>>)
    BY <2>1 DEF QueriesIn, Ascending
  <2>. QED  BY <2>1, <2>2, AsksEmpty
<1>2. ASSUME NEW s \in Seq(T), NEW e \in T, s \in G PROVE Append(s, e) \in G
  <2>1. Append(s, e) \in Seq(T) /\ QueriesIn(N, s, Asks(s))
    BY <1>2
  <2>2. QueriesIn(N, Append(s, e), IF e # 0 THEN Append(Asks(s), e) ELSE Asks(s))
    <3>. DEFINE qs == Asks(s)
    <3>1. QueriesIn(N, s, qs)
      BY <2>1
    <3>. HIDE DEF qs
    <3>2. QueriesIn(N, Append(s, e), IF e # 0 THEN Append(qs, e) ELSE qs)
      BY <3>1, QueriesAppend
    <3>. QED  BY <3>2 DEF qs
  <2>3. Asks(Append(s, e)) = IF e # 0 THEN Append(Asks(s), e) ELSE Asks(s)
    <3>1. s \in Seq(Nat) /\ e \in Nat
      OBVIOUS
    <3>. QED  BY <3>1, AsksAppend
  <2>. QED  BY <2>1, <2>2, <2>3
<1>. HIDE DEF G, T
<1>3. Seq(T) \subseteq G
  BY <1>1, <1>2, SequenceInduction
<1>. QED  BY <1>3 DEF G, T

\* What is left of a queue is its end, and then the queue is full.
LEMMA NewestOK ==
  ASSUME NEW T, NEW s \in Seq(T), NEW n \in Nat
  PROVE  /\ Newest(s, n) \in Seq(T) /\ Len(Newest(s, n)) <= n
         /\ \E d \in 0..Len(s) :
              /\ Len(Newest(s, n)) = Len(s) - d
              /\ \A k \in 1..Len(s) - d : Newest(s, n)[k] = s[d + k]
              /\ d > 0 => Len(Newest(s, n)) = n
<1>1. Len(s) \in Nat
  OBVIOUS
<1>2. CASE Len(s) > n
  <2>. DEFINE d == Len(s) - n
  <2>1. d \in 0..Len(s) /\ Len(s) - d = n
    BY <1>1, <1>2
  <2>2. Newest(s, n) = SubSeq(s, d + 1, Len(s))
    BY <1>2 DEF Newest
  <2>. HIDE DEF d
  <2>3. /\ SubSeq(s, d + 1, Len(s)) \in Seq(T)
        /\ Len(SubSeq(s, d + 1, Len(s))) = Len(s) - d
        /\ \A k \in 1..Len(s) - d : SubSeq(s, d + 1, Len(s))[k] = s[d + k]
    BY <2>1, Suffix
  <2>. QED  BY <2>1, <2>2, <2>3
<1>3. CASE ~(Len(s) > n)
  <2>1. Newest(s, n) = s /\ 0 \in 0..Len(s) /\ Len(s) - 0 = Len(s) /\ \A k \in 1..Len(s) : 0 + k = k
    BY <1>1, <1>3 DEF Newest
  <2>. DEFINE d == 0
  <2>2. /\ d \in 0..Len(s) /\ Len(s) = Len(s) - d
        /\ \A k \in 1..Len(s) - d : s[k] = s[d + k]
        /\ ~(d > 0)
    BY <1>1, <2>1
  <2>. HIDE DEF d
  <2>3. Len(s) <= n
    BY <1>1, <1>3
  <2>. QED  BY <2>1, <2>2, <2>3
<1>. QED  BY <1>2, <1>3

-----------------------------------------------------------------------------
(* The server and the application keep the invariant *)

LEMMA LineIs ==
  ASSUME TypeOK
  PROVE  /\ Stream \in Seq(Byte) /\ Held \in Seq(Byte) /\ Line \in Seq(Byte) /\ Waiting \in Seq(Byte)
         /\ \A i \in 1..Len(Stream) : i \in 1..Len(Line) /\ Line[i] = Stream[i]
         /\ \A i \in 1..Len(Line) : Line[i] \in Byte
         /\ \A j \in 1..Len(Held) : \E i \in 1..Len(Line) : Line[i] = Held[j]
         /\ \A i \in 1..Len(Line) : \/ \E j \in 1..Len(Stream) : Line[i] = Stream[j]
                                    \/ \E j \in 1..Len(Held) : Line[i] = Held[j]
<1>. DEFINE s == Stream
            h == Held
            m == Len(s)
            n == Len(h)
<1>1. s \in Seq(Byte)
  BY DEF TypeOK, Stream
<1>2. h \in Seq(Byte) /\ Waiting \in Seq(Byte)
  <2>1. <<>> \in Seq(Byte)
    OBVIOUS
  <2>. QED  BY <2>1 DEF TypeOK, Held, Waiting
<1>3. m \in Nat /\ n \in Nat
  BY <1>1, <1>2
<1>4. Line = s \o h
  BY DEF Line
<1>. HIDE DEF s, h
<1>5. /\ Line \in Seq(Byte) /\ Len(Line) = m + n
      /\ \A i \in 1..m + n : Line[i] = IF i <= m THEN s[i] ELSE h[i - m]
  BY <1>1, <1>2, <1>4, ConcatProperties
<1>. HIDE DEF m, n
<1>6. ASSUME NEW i \in 1..m PROVE i \in 1..Len(Line) /\ Line[i] = s[i]
  BY <1>3, <1>5
<1>7. ASSUME NEW j \in 1..n PROVE \E i \in 1..Len(Line) : Line[i] = h[j]
  <2>. DEFINE i == m + j
  <2>1. i \in 1..m + n /\ ~(i <= m) /\ i - m = j
    BY <1>3
  <2>. HIDE DEF i
  <2>. QED  BY <1>5, <2>1
<1>8. ASSUME NEW i \in 1..Len(Line)
      PROVE  \/ \E j \in 1..m : Line[i] = s[j]
             \/ \E j \in 1..n : Line[i] = h[j]
  <2>1. CASE i <= m
    BY <1>3, <1>5, <2>1
  <2>2. CASE ~(i <= m)
    <3>1. i - m \in 1..n /\ Line[i] = h[i - m]
      BY <1>3, <1>5, <2>2
    <3>. QED  BY <3>1
  <2>. QED  BY <2>1, <2>2
<1>9. \A i \in 1..Len(Line) : Line[i] \in Byte
  BY <1>5
<1>. QED  BY <1>1, <1>2, <1>5, <1>6, <1>7, <1>8, <1>9 DEF s, h, m, n

LEMMA HeadMoves ==
  ASSUME NEW s \in Seq(Byte), NEW t \in Seq(Byte), NEW u \in Seq(Byte), u # <<>>
  PROVE  (s \o Append(t, Head(u))) \o Tail(u) = (s \o t) \o u
<1>. DEFINE h == Head(u)
            r == Tail(u)
            st == s \o t
<1>1. st \in Seq(Byte)
  OBVIOUS
<1>3. h \in Byte /\ r \in Seq(Byte)
  BY ConcatHead
<1>4. Append(st, Head(u)) \o Tail(u) = st \o u
  <2>. HIDE DEF st
  <2>. QED  BY <1>1, ConcatHead
<1>2. s \o Append(t, h) = Append(st, h)
  <2>. HIDE DEF h
  <2>. QED  BY <1>3, ConcatAppend
<1>. QED  BY <1>2, <1>4

\* Bytes move along; what the write that has the lock will have made is the same.
Moves ==
  /\ Line' = Line /\ Waiting' = Waiting
  /\ UNCHANGED <<setup, typed, read, carry, client, whole, forwarded, refreshes>>
  /\ UNCHANGED <<socket, served, asked, ptyout, deferred>>

LEMMA JobWriteMoves ==
  ASSUME TypeOK, JobWrite
  PROVE  TypeOK' /\ Moves /\ answer' = answer /\ job' = Tail(job)
         /\ (lock' = "job" \/ job' = <<>>)
<1>. USE DEF JobWrite, clientVars
<1>1. /\ received \in Seq(Byte) /\ ptyin \in Seq(Byte) /\ job \in Seq(Byte) /\ job # <<>>
      /\ lock = "job" /\ answer = <<>>
  BY DEF TypeOK
<1>2. /\ ptyin' = Append(ptyin, Head(job)) /\ job' = Tail(job) /\ received' = received
      /\ answer' = <<>>
  BY <1>1
<1>3. lock' = IF Tail(job) = <<>> THEN "free" ELSE "job"
  OBVIOUS
<1>4. Held = job /\ Held' = Tail(job) /\ Waiting = <<>> /\ Waiting' = <<>>
  BY <1>1, <1>2, <1>3 DEF Held, Waiting
<1>5. (received \o Append(ptyin, Head(job))) \o Tail(job) = (received \o ptyin) \o job
  <2>1. received \in Seq(Byte) /\ ptyin \in Seq(Byte) /\ job \in Seq(Byte) /\ job # <<>>
    BY <1>1
  <2>. QED  BY <2>1, HeadMoves
<1>6. Line' = Line
  BY <1>2, <1>4, <1>5 DEF Line, Stream
<1>7. /\ ptyin' \in Seq(Byte) /\ Len(ptyin') <= InSize /\ job' \in Seq(Byte)
      /\ answer' \in Seq(Byte) /\ received' \in Seq(Byte)
  <2>1. Head(job) \in Byte /\ Tail(job) \in Seq(Byte)
    BY <1>1, ConcatHead
  <2>2. Len(ptyin') = Len(ptyin) + 1 /\ Len(ptyin) \in Nat /\ Len(ptyin) < InSize
    BY <1>1, <1>2, <2>1
  <2>3. InSize \in Nat
    BY SizesAssumption
  <2>4. ptyin' \in Seq(Byte) /\ <<>> \in Seq(Byte)
    BY <1>1, <1>2, <2>1
  <2>. QED  BY <1>1, <1>2, <2>1, <2>2, <2>3, <2>4
<1>8. /\ lock' \in {"free", "job", "reader"} /\ (lock' = "job" => job' # <<>>)
      /\ (lock' = "reader" <=> answer' # <<>>)
  BY <1>2, <1>3
<1>9. /\ UNCHANGED <<setup, typed, read, carry, client, whole, forwarded, refreshes>>
      /\ UNCHANGED <<socket, served, asked, ptyout, deferred>>
  OBVIOUS
<1>10. TypeOK'
  BY <1>7, <1>8, <1>9 DEF TypeOK
<1>. QED  BY <1>1, <1>2, <1>3, <1>4, <1>6, <1>9, <1>10 DEF Moves

LEMMA ReaderWriteMoves ==
  ASSUME TypeOK, ReaderWrite
  PROVE  TypeOK' /\ Moves /\ answer' = Tail(answer) /\ answer \in Seq(Byte) /\ answer # <<>>
         /\ job' = job /\ lock # "job"
<1>. USE DEF ReaderWrite, clientVars
<1>1. /\ received \in Seq(Byte) /\ ptyin \in Seq(Byte) /\ answer \in Seq(Byte) /\ answer # <<>>
      /\ lock = "reader" /\ job \in Seq(Byte)
  BY DEF TypeOK
<1>2. /\ ptyin' = Append(ptyin, Head(answer)) /\ answer' = Tail(answer) /\ received' = received
      /\ job' = job
  OBVIOUS
<1>3. lock' = IF Tail(answer) = <<>> THEN "free" ELSE "reader"
  OBVIOUS
<1>4. Held = answer /\ Held' = Tail(answer) /\ Waiting = job /\ Waiting' = job
  BY <1>1, <1>2, <1>3 DEF Held, Waiting
<1>5. (received \o Append(ptyin, Head(answer))) \o Tail(answer) = (received \o ptyin) \o answer
  <2>1. received \in Seq(Byte) /\ ptyin \in Seq(Byte) /\ answer \in Seq(Byte) /\ answer # <<>>
    BY <1>1
  <2>. QED  BY <2>1, HeadMoves
<1>6. Line' = Line
  BY <1>2, <1>4, <1>5 DEF Line, Stream
<1>7. /\ ptyin' \in Seq(Byte) /\ Len(ptyin') <= InSize /\ job' \in Seq(Byte)
      /\ answer' \in Seq(Byte) /\ received' \in Seq(Byte)
  <2>1. Head(answer) \in Byte /\ Tail(answer) \in Seq(Byte)
    BY <1>1, ConcatHead
  <2>2. Len(ptyin') = Len(ptyin) + 1 /\ Len(ptyin) \in Nat /\ Len(ptyin) < InSize
    BY <1>1, <1>2, <2>1
  <2>3. InSize \in Nat
    BY SizesAssumption
  <2>4. ptyin' \in Seq(Byte)
    BY <1>1, <1>2, <2>1
  <2>. QED  BY <1>1, <1>2, <2>1, <2>2, <2>3, <2>4
<1>8. /\ lock' \in {"free", "job", "reader"} /\ (lock' = "job" => job' # <<>>)
      /\ (lock' = "reader" <=> answer' # <<>>)
  BY <1>2, <1>3
<1>9. /\ UNCHANGED <<setup, typed, read, carry, client, whole, forwarded, refreshes>>
      /\ UNCHANGED <<socket, served, asked, ptyout, deferred>>
  OBVIOUS
<1>10. TypeOK'
  BY <1>7, <1>8, <1>9 DEF TypeOK
<1>. QED  BY <1>1, <1>2, <1>4, <1>6, <1>9, <1>10 DEF Moves

LEMMA AppReadMoves ==
  ASSUME TypeOK, AppRead
  PROVE  TypeOK' /\ Moves /\ UNCHANGED <<answer, job, lock>>
<1>. USE DEF AppRead, clientVars
<1>1. received \in Seq(Byte) /\ ptyin \in Seq(Byte) /\ ptyin # <<>> /\ Len(ptyin) <= InSize
  BY DEF TypeOK
<1>2. received' = Append(received, Head(ptyin)) /\ ptyin' = Tail(ptyin) /\ UNCHANGED <<answer, job, lock>>
  OBVIOUS
<1>3. Append(received, Head(ptyin)) \o Tail(ptyin) = received \o ptyin
  BY <1>1, ConcatHead
<1>4. Line' = Line /\ Waiting' = Waiting
  BY <1>2, <1>3 DEF Line, Stream, Held, Waiting
<1>5. ptyin' \in Seq(Byte) /\ Len(ptyin') <= InSize /\ received' \in Seq(Byte)
  <2>1. /\ Head(ptyin) \in Byte /\ Tail(ptyin) \in Seq(Byte)
        /\ Len(Tail(ptyin)) = Len(ptyin) - 1 /\ Len(ptyin) \in Nat
    BY <1>1, ConcatHead, HeadTailProperties
  <2>2. InSize \in Nat
    BY SizesAssumption
  <2>3. Append(received, Head(ptyin)) \in Seq(Byte)
    BY <1>1, <2>1
  <2>. QED  BY <1>1, <1>2, <2>1, <2>2, <2>3
<1>6. /\ UNCHANGED <<setup, typed, read, carry, client, whole, forwarded, refreshes>>
      /\ UNCHANGED <<socket, served, asked, ptyout, deferred>>
  OBVIOUS
<1>7. TypeOK'
  BY <1>2, <1>5, <1>6 DEF TypeOK
<1>. QED  BY <1>2, <1>4, <1>6, <1>7 DEF Moves

LEMMA MovesOK ==
  ASSUME IInv, JobWrite \/ ReaderWrite \/ AppRead
  PROVE  IInv'
<1>1. TypeOK /\ ClientOK /\ LineOK /\ QueriesOK
  BY DEF IInv
<1>2. job \in Seq(Byte) /\ answer \in Seq(Byte)
  BY <1>1 DEF TypeOK
<1>3. TypeOK' /\ Moves
  BY <1>1, JobWriteMoves, ReaderWriteMoves, AppReadMoves
<1>4. \A i \in 1..Len(job') : \E k \in 1..Len(job) : job'[i] = job[k]
  <2>1. CASE JobWrite
    <3>1. job' = Tail(job) /\ job # <<>>
      BY <2>1 DEF JobWrite
    <3>2. /\ Len(Tail(job)) = Len(job) - 1 /\ Len(job) \in Nat
          /\ \A i \in 1..Len(Tail(job)) : Tail(job)[i] = job[i + 1]
      BY <1>2, <3>1, HeadTailProperties
    <3>3. \A i \in 1..Len(Tail(job)) : i + 1 \in 1..Len(job)
      BY <3>2
    <3>. QED  BY <3>1, <3>2, <3>3
  <2>2. CASE ~JobWrite
    <3>1. job' = job
      BY <2>2 DEF ReaderWrite, AppRead
    <3>. QED  BY <3>1
  <2>. QED  BY <2>1, <2>2
<1>5. \A i \in 1..Len(answer') : \E k \in 1..Len(answer) : answer'[i] = answer[k]
  <2>1. CASE ReaderWrite
    <3>1. answer' = Tail(answer) /\ answer # <<>>
      BY <2>1 DEF ReaderWrite
    <3>2. /\ Len(Tail(answer)) = Len(answer) - 1 /\ Len(answer) \in Nat
          /\ \A i \in 1..Len(Tail(answer)) : Tail(answer)[i] = answer[i + 1]
      BY <1>2, <3>1, HeadTailProperties
    <3>3. \A i \in 1..Len(Tail(answer)) : i + 1 \in 1..Len(answer)
      BY <3>2
    <3>. QED  BY <3>1, <3>2, <3>3
  <2>2. CASE ~ReaderWrite
    <3>1. answer' = answer
      BY <2>2 DEF JobWrite, AppRead
    <3>. QED  BY <3>1
  <2>. QED  BY <2>1, <2>2
<1>6. lock' # "job" /\ job' # <<>> => lock # "job" /\ job # <<>>
  BY <1>1, JobWriteMoves DEF JobWrite, ReaderWrite, AppRead, TypeOK
<1>7. job' # <<>> => job # <<>>
  BY DEF JobWrite, ReaderWrite, AppRead
<1>8. JobOK'
  BY <1>1, <1>3, <1>4, <1>6, <1>7 DEF JobOK, LineOK, Moves
<1>9. LineOK'
  <2>1. BytesOK'
    BY <1>1, <1>3 DEF LineOK, BytesOK, Moves
  <2>. QED  BY <1>1, <1>3, <1>8, <2>1 DEF LineOK, Moves
<1>10. QueriesOK'
  BY <1>1, <1>3, <1>5 DEF QueriesOK, Moves
<1>11. ClientOK'
  BY <1>1, <1>3 DEF ClientOK, FilterExact, Moves
<1>. QED  BY <1>3, <1>9, <1>10, <1>11 DEF IInv

LEMMA ClientStepOK ==
  ASSUME IInv, (\E k \in setup.keys : Type(k)) \/ (\E n \in 1..setup.max : ReadStdin(n)) \/ EndOfInput
  PROVE  IInv'
<1>1. TypeOK /\ ClientOK /\ LineOK /\ QueriesOK
  BY DEF IInv
<1>2. /\ UNCHANGED <<setup, served, job, lock, ptyin, received, asked, ptyout, answer, deferred>>
  BY DEF Type, ReadStdin, EndOfInput, serverVars
<1>3. /\ ClientOK'
      /\ typed' \in Seq(Key) /\ read' \in 0..Len(typed') /\ whole' \in 0..read'
      /\ carry' = <<>> \/ Withheld(carry')
      /\ client' \in {"on", "detached", "eof"}
      /\ forwarded' \in Seq(Key) /\ refreshes' \in Nat
      /\ \E ms \in Seq(Message) : socket' = socket \o ms /\ forwarded' = forwarded \o Data(ms)
  <2>1. CASE \E k \in setup.keys : Type(k)
    <3>1. PICK k \in setup.keys : Type(k)
      BY <2>1
    <3>2. /\ ClientOK' /\ typed' \in Seq(Key) /\ read' \in 0..Len(typed') /\ whole' \in 0..read'
      BY <1>1, <3>1, TypeIsOK
    <3>3. UNCHANGED <<carry, client, forwarded, refreshes, socket>>
      BY <3>1 DEF Type
    <3>4. /\ carry = <<>> \/ Withheld(carry)
          /\ client \in {"on", "detached", "eof"}
          /\ forwarded \in Seq(Key) /\ refreshes \in Nat /\ socket \in Seq(Message)
      BY <1>1 DEF TypeOK
    <3>5. /\ <<>> \in Seq(Message) /\ socket \o <<>> = socket
          /\ forwarded \o <<>> = forwarded
      BY <3>4, ConcatEmptySeq
    <3>6. socket' = socket \o <<>> /\ forwarded' = forwarded \o Data(<<>>)
      BY <3>3, <3>5, DataEmpty
    <3>7. \E ms \in Seq(Message) : socket' = socket \o ms /\ forwarded' = forwarded \o Data(ms)
      BY <3>5, <3>6
    <3>. QED  BY <3>2, <3>3, <3>4, <3>7
  <2>2. CASE \E n \in 1..setup.max : ReadStdin(n)
    <3>1. PICK n \in 1..setup.max : ReadStdin(n)
      BY <2>2
    <3>. QED  BY <1>1, <3>1, ReadStdinIsOK
  <2>3. CASE EndOfInput
    <3>1. /\ ClientOK' /\ carry' = <<>> /\ client' = "eof"
          /\ forwarded' \in Seq(Key) /\ refreshes' \in Nat
          /\ \E ms \in Seq(Message) : socket' = socket \o ms /\ forwarded' = forwarded \o Data(ms)
      BY <1>1, <2>3, EndOfInputIsOK
    <3>2. UNCHANGED <<typed, read, whole>>
      BY <2>3 DEF EndOfInput
    <3>3. typed \in Seq(Key) /\ read \in 0..Len(typed) /\ whole \in 0..read
      BY <1>1 DEF TypeOK
    <3>. QED  BY <3>1, <3>2, <3>3
  <2>. QED  BY <2>1, <2>2, <2>3
<1>4. PICK ms \in Seq(Message) : socket' = socket \o ms /\ forwarded' = forwarded \o Data(ms)
  BY <1>3
<1>5. TypeOK'
  <2>1. socket \in Seq(Message)
    BY <1>1 DEF TypeOK
  <2>2. socket' \in Seq(Message)
    BY <1>4, <2>1
  <2>. QED  BY <1>1, <1>2, <1>3, <2>2 DEF TypeOK
<1>6. Line' = Line /\ Waiting' = Waiting
  BY <1>2 DEF Line, Stream, Held, Waiting
<1>7. BytesOK'
  <2>. DEFINE a == Keys(Typed(Line)) \o Keys(Waiting)
              b == Data(socket)
              c == Data(ms)
  <2>1. socket \in Seq(Message) /\ Line \in Seq(Byte) /\ Waiting \in Seq(Byte)
    BY <1>1, LineIs DEF TypeOK
  <2>2. Seq(Key) \subseteq Seq(Char)
    <3>1. Key \subseteq Char
      BY DEF Char
    <3>. QED  BY <3>1
  <2>3. b \in Seq(Char) /\ c \in Seq(Char)
    BY <2>1, <2>2, DataType
  <2>4. a \in Seq(Char)
    <3>1. Typed(Line) \in Seq(Byte)
      BY <2>1, TypedType
    <3>2. Keys(Typed(Line)) \in Seq(Char) /\ Keys(Waiting) \in Seq(Char)
      BY <2>1, <3>1, KeysConcat
    <3>. QED  BY <3>2
  <2>5. Data(socket \o ms) = b \o c
    BY <2>1, DataConcat
  <2>6. a \o b = forwarded
    BY <1>1 DEF LineOK, BytesOK
  <2>. HIDE DEF a, b, c
  <2>7. (a \o b) \o c = a \o (b \o c)
    BY <2>3, <2>4
  <2>8. a \o Data(socket') = forwarded'
    BY <1>4, <2>5, <2>6, <2>7 DEF c
  <2>. QED  BY <1>6, <2>8 DEF BytesOK, a
<1>8. JobOK'
  BY <1>1, <1>2, <1>6 DEF LineOK, JobOK
<1>9. LineOK' /\ QueriesOK'
  BY <1>1, <1>2, <1>6, <1>7, <1>8 DEF LineOK, QueriesOK
<1>. QED  BY <1>3, <1>5, <1>9 DEF IInv

LEMMA BytesAre ==
  ASSUME NEW b \in Int, NEW data \in Seq(Key)
  PROVE  /\ Bytes(b, data) \in Seq(Byte) /\ Keys(Bytes(b, data)) = data
         /\ \A i \in 1..Len(Bytes(b, data)) : Bytes(b, data)[i].by = b
<1>. DEFINE s == Bytes(b, data)
            n == Len(data)
<1>1. n \in Nat /\ \A i \in 1..n : data[i] \in Char
  BY DEF Char
<1>2. s = [i \in 1..n |-> [by |-> b, key |-> data[i]]]
  BY DEF Bytes
<1>. HIDE DEF s, n
<1>3. \A i \in 1..n : s[i] \in Byte /\ s[i].by = b /\ s[i].key = data[i]
  BY <1>1, <1>2 DEF Byte
<1>4. s \in [1..n -> Byte]
  BY <1>2, <1>3
<1>5. s \in Seq(Byte) /\ Len(s) = n
  BY <1>1, <1>4
<1>6. Keys(s) = data
  <2>1. Keys(s) = [i \in 1..n |-> data[i]]
    BY <1>3, <1>5 DEF Keys
  <2>2. data = [i \in 1..n |-> data[i]]
    BY DEF n
  <2>. QED  BY <2>1, <2>2
<1>. QED  BY <1>3, <1>5, <1>6 DEF s

LEMMA DataHead ==
  ASSUME NEW ms \in Seq(Message), ms # <<>>
  PROVE  /\ Head(ms) \in Message /\ Tail(ms) \in Seq(Message)
         /\ Data(ms) = Head(ms).data \o Data(Tail(ms))
<1>. DEFINE h == Head(ms)
            t == Tail(ms)
<1>1. h \in Message /\ t \in Seq(Message) /\ ms = <<h>> \o t
  BY ConcatHead
<1>. HIDE DEF h, t
<1>2. <<h>> \in Seq(Message) /\ Data(<<h>>) = h.data
  BY <1>1, DataOne
<1>. DEFINE one == <<h>>
<1>. HIDE DEF one
<1>3. Data(one \o t) = Data(one) \o Data(t)
  <2>1. one \in Seq(Message)
    BY <1>2 DEF one
  <2>. QED  BY <1>1, <2>1, DataConcat
<1>. QED  BY <1>1, <1>2, <1>3 DEF one, h, t

LEMMA ServeOK ==
  ASSUME IInv, Serve
  PROVE  IInv'
<1>1. TypeOK /\ ClientOK /\ LineOK /\ QueriesOK
  BY DEF IInv
<1>. DEFINE h == Head(socket)
            t == Tail(socket)
<1>2. /\ job = <<>> /\ socket # <<>> /\ socket' = t
      /\ h.kind = "input" => served' = served + 1 /\ job' = Bytes(served + 1, h.data)
      /\ h.kind # "input" => served' = served /\ job' = job
      /\ UNCHANGED <<setup, lock, ptyin, received, asked, ptyout, answer, deferred>>
      /\ UNCHANGED <<typed, read, carry, client, whole, forwarded, refreshes>>
  BY DEF Serve, clientVars
<1>3. socket \in Seq(Message) /\ served \in Nat /\ lock # "job"
  BY <1>1, <1>2 DEF TypeOK
<1>4. h \in Message /\ t \in Seq(Message) /\ Data(socket) = h.data \o Data(t)
  BY <1>2, <1>3, DataHead
<1>5. h.data \in Seq(Key)
  BY <1>4, MessageData
<1>. HIDE DEF h, t
<1>6. /\ job' \in Seq(Byte) /\ served' \in Nat
      /\ Data(socket) = Keys(job') \o Data(t)
      /\ \A i \in 1..Len(job') : job'[i].by = served'
      /\ job' # <<>> => served' = served + 1
      /\ served' >= served
  <2>1. CASE h.kind = "input"
    <3>. DEFINE b == served + 1
                data == h.data
    <3>1. b \in Int /\ data \in Seq(Key) /\ b \in Nat /\ b >= served
      BY <1>3, <1>5
    <3>2. job' = Bytes(b, data) /\ served' = b
      BY <1>2, <2>1
    <3>. HIDE DEF b
    <3>3. /\ job' \in Seq(Byte) /\ Keys(job') = data
          /\ \A i \in 1..Len(job') : job'[i].by = b
      <4>. HIDE DEF data
      <4>. QED  BY <3>1, <3>2, BytesAre
    <3>. QED  BY <1>4, <3>1, <3>2, <3>3 DEF b
  <2>2. CASE h.kind # "input"
    <3>1. h.data = <<>>
      BY <1>4, <2>2 DEF Message, Refresh, Detach
    <3>2. job' = <<>> /\ served' = served
      BY <1>2, <2>2
    <3>3. Keys(<<>>) = <<>> /\ <<>> \in Seq(Byte) /\ Len(<<>>) = 0
      BY DEF Keys
    <3>4. job' \in Seq(Byte) /\ job' = <<>> /\ 1..Len(job') = {} /\ served' \in Nat /\ served' >= served
      BY <1>3, <3>2, <3>3
    <3>5. Data(socket) = Keys(job') \o Data(t)
      <4>1. Keys(job') = h.data
        BY <3>1, <3>2, <3>3, Zenon
      <4>. QED  BY <1>4, <4>1, Zenon
    <3>. QED  BY <3>4, <3>5
  <2>. QED  BY <2>1, <2>2
<1>7. TypeOK'
  BY <1>1, <1>2, <1>3, <1>4, <1>6 DEF TypeOK
<1>8. Line' = Line /\ Waiting = <<>> /\ Waiting' = job'
  BY <1>2, <1>3 DEF Line, Stream, Held, Waiting
<1>9. BytesOK'
  <2>. DEFINE a == Keys(Typed(Line))
              b == Keys(job')
              c == Data(t)
  <2>1. Line \in Seq(Byte)
    BY <1>1, LineIs
  <2>2. a \in Seq(Char) /\ b \in Seq(Char)
    <3>1. Typed(Line) \in Seq(Byte)
      BY <2>1, TypedType
    <3>. QED  BY <1>6, <3>1, KeysConcat
  <2>3. c \in Seq(Char)
    <3>1. Key \subseteq Char /\ c \in Seq(Key)
      BY <1>4, DataType DEF Char
    <3>. QED  BY <3>1
  <2>4. (a \o Keys(<<>>)) \o Data(socket) = forwarded
    BY <1>1, <1>8 DEF LineOK, BytesOK
  <2>5. Keys(<<>>) = <<>>
    BY DEF Keys
  <2>6. Data(socket) = b \o c
    BY <1>6
  <2>. HIDE DEF a, b, c
  <2>7. a \o (b \o c) = forwarded
    <3>1. a \o <<>> = a
      BY <2>2, ConcatEmptySeq
    <3>. QED  BY <2>4, <2>5, <2>6, <3>1
  <2>8. (a \o b) \o c = a \o (b \o c)
    BY <2>2, <2>3
  <2>9. (a \o b) \o Data(socket') = forwarded'
    BY <1>2, <2>7, <2>8 DEF c
  <2>. QED  BY <1>8, <2>9 DEF BytesOK, a, b
<1>10. JobOK'
  <2>1. \A i \in 1..Len(Line) : Line[i] \in Byte /\ Line[i].by <= served /\ Line[i].by # 0
    BY <1>1, LineIs DEF LineOK, JobOK
  <2>2. \A i \in 1..Len(Line) : Line[i].by \in Int
    BY <2>1 DEF Byte
  <2>3. \A i \in 1..Len(Line) : Line[i].by <= served'
    BY <1>3, <1>6, <2>1, <2>2
  <2>4. job' # <<>> => served' >= 1 /\ \A i \in 1..Len(Line) : Line[i].by # served'
    BY <1>3, <1>6, <2>1, <2>2
  <2>. QED  BY <1>6, <1>8, <2>1, <2>3, <2>4 DEF JobOK
<1>11. LineOK' /\ QueriesOK'
  BY <1>1, <1>2, <1>8, <1>9, <1>10 DEF LineOK, QueriesOK
<1>12. ClientOK'
  BY <1>1, <1>2 DEF ClientOK, FilterExact
<1>. QED  BY <1>7, <1>11, <1>12 DEF IInv

\* The elements of a sequence, in a set or a larger one.
LEMMA ElementsIn ==
  ASSUME NEW T, NEW s \in Seq(T)
  PROVE  \A i \in 1..Len(s) : s[i] \in T
OBVIOUS

LEMMA SequenceIn ==
  ASSUME NEW T, NEW U, T \subseteq U, NEW s \in Seq(T)
  PROVE  s \in Seq(U)
<1>1. Len(s) \in Nat /\ s \in [1..Len(s) -> U]
  OBVIOUS
<1>. QED  BY <1>1

\* Queries are numbered up to the last one.
LEMMA Numbers ==
  ASSUME TypeOK
  PROVE  /\ asked \in Nat /\ ptyout \in Seq(0..asked) /\ deferred \in Seq(1..asked)
         /\ \A i \in 1..Len(ptyout) : ptyout[i] \in 0..asked /\ ptyout[i] \in Nat
         /\ \A i \in 1..Len(deferred) : deferred[i] \in 1..asked /\ deferred[i] \in Nat
<1>. DEFINE T == 0..asked
            U == 1..asked
<1>1. asked \in Nat /\ ptyout \in Seq(T) /\ deferred \in Seq(U)
  BY SizesAssumption DEF TypeOK
<1>2. T \subseteq Nat /\ U \subseteq Nat
  BY <1>1
<1>. HIDE DEF T, U
<1>3. \A i \in 1..Len(ptyout) : ptyout[i] \in T
  BY <1>1, ElementsIn
<1>4. \A i \in 1..Len(deferred) : deferred[i] \in U
  BY <1>1, ElementsIn
<1>. QED  BY <1>1, <1>2, <1>3, <1>4 DEF T, U

LEMMA JobLockOK ==
  ASSUME IInv, JobLock
  PROVE  IInv'
<1>1. TypeOK /\ ClientOK /\ LineOK /\ QueriesOK
  BY DEF IInv
<1>2. /\ job # <<>> /\ lock = "free" /\ lock' = "job"
      /\ UNCHANGED <<setup, socket, served, job, ptyin, received, asked, ptyout, answer, deferred>>
      /\ UNCHANGED <<typed, read, carry, client, whole, forwarded, refreshes>>
  BY DEF JobLock, clientVars
<1>3. answer = <<>> /\ job \in Seq(Byte) /\ served \in Nat /\ asked \in Nat
  BY <1>1, <1>2 DEF TypeOK
<1>4. TypeOK'
  BY <1>1, <1>2, <1>3 DEF TypeOK
<1>5. Stream \in Seq(Byte) /\ Line \in Seq(Byte)
  BY <1>1, LineIs
<1>6. Line = Stream
  <2>1. Held = <<>>
    BY <1>2, <1>3 DEF Held
  <2>2. Stream \o <<>> = Stream
    BY <1>5, ConcatEmptySeq
  <2>. QED  BY <2>1, <2>2 DEF Line
<1>7. Line' = Line \o job /\ Waiting = job /\ Waiting' = <<>>
  BY <1>2, <1>6 DEF Line, Stream, Held, Waiting
<1>8. /\ \A i \in 1..Len(job) : job[i].by = served
      /\ served >= 1
      /\ \A i \in 1..Len(Line) : Line[i].by <= served /\ Line[i].by # 0 /\ Line[i].by # served
  BY <1>1, <1>2 DEF LineOK, JobOK
<1>9. WholeIn(job) /\ OrderedIn(job) /\ AllTyped(job)
  <2>1. served \in Int
    BY <1>3
  <2>. QED  BY <1>3, <1>8, <2>1, OneWrite
<1>10. WholeIn(Line')
  <2>1. \A i \in 1..Len(Line), j \in 1..Len(job) : Line[i].by # job[j].by
    BY <1>8
  <2>2. WholeIn(Line)
    BY <1>1 DEF LineOK
  <2>3. WholeIn(Line \o job)
    BY <1>3, <1>5, <1>9, <2>1, <2>2, WholeConcat
  <2>. QED  BY <1>7, <2>3
<1>11. OrderedIn(Line')
  <2>1. \A i \in 1..Len(Line), j \in 1..Len(job) :
          Line[i].by < 0 /\ job[j].by < 0 => Line[i].by > job[j].by
    BY <1>3, <1>8
  <2>2. OrderedIn(Line)
    BY <1>1 DEF LineOK
  <2>3. OrderedIn(Line \o job)
    BY <1>3, <1>5, <1>9, <2>1, <2>2, OrderedConcat
  <2>. QED  BY <1>7, <2>3
<1>12. ASSUME NEW i \in 1..Len(Line')
       PROVE  \/ \E k \in 1..Len(Line) : Line'[i] = Line[k]
              \/ \E k \in 1..Len(job) : Line'[i] = job[k]
  <2>1. /\ Len(Line \o job) = Len(Line) + Len(job)
        /\ \A k \in 1..Len(Line) + Len(job) :
             (Line \o job)[k] = IF k <= Len(Line) THEN Line[k] ELSE job[k - Len(Line)]
    BY <1>3, <1>5, ConcatProperties
  <2>. DEFINE m == Len(Line)
              n == Len(job)
  <2>2. m \in Nat /\ n \in Nat /\ i \in 1..m + n
    BY <1>3, <1>5, <1>7, <2>1
  <2>3. Line'[i] = IF i <= m THEN Line[i] ELSE job[i - m]
    BY <1>7, <2>1, <2>2
  <2>. HIDE DEF m, n
  <2>4. i <= m => i \in 1..m
    BY <2>2
  <2>5. ~(i <= m) => i - m \in 1..n
    BY <2>2
  <2>. QED  BY <2>3, <2>4, <2>5 DEF m, n
<1>13. JobOK'
  <2>1. \A i \in 1..Len(Line') : Line'[i].by <= served /\ Line'[i].by # 0
    BY <1>3, <1>8, <1>12
  <2>. QED  BY <1>2, <1>8, <2>1 DEF JobOK
<1>14. BytesOK'
  <2>. DEFINE a == Typed(Line)
  <2>1. Typed(Line \o job) = a \o job /\ a \in Seq(Byte)
    BY <1>3, <1>5, <1>9, TypedBlock, TypedType
  <2>. HIDE DEF a
  <2>2. Keys(a \o job) = Keys(a) \o Keys(job) /\ Keys(a \o job) \in Seq(Char)
    <3>1. a \o job \in Seq(Byte)
      BY <1>3, <2>1
    <3>. QED  BY <1>3, <2>1, <3>1, KeysConcat
  <2>3. Keys(a \o job) \o <<>> = Keys(a \o job) /\ Keys(<<>>) = <<>>
    <3>1. Keys(<<>>) = <<>>
      BY DEF Keys
    <3>. QED  BY <2>2, <3>1, ConcatEmptySeq
  <2>4. Keys(a) \o Keys(job) \o Data(socket) = forwarded
    BY <1>1, <1>7 DEF LineOK, BytesOK, a
  <2>5. Keys(Typed(Line')) \o Keys(Waiting') \o Data(socket) = forwarded
    BY <1>7, <2>1, <2>2, <2>3, <2>4, Zenon
  <2>. QED  BY <1>2, <2>5 DEF BytesOK
<1>15. QueriesOK'
  <2>1. QueriesOK
    BY <1>1
  <2>2. \A k \in 1..Len(job) : -job[k].by <= asked
    BY <1>3, <1>8
  <2>3. \A k \in 1..Len(deferred) : deferred[k] \in Nat
    BY <1>1, Numbers
  <2>4. \A k \in 1..Len(ptyout) : ptyout[k] \in Nat
    BY <1>1, Numbers
  <2>5. \A i \in 1..Len(Line') : -Line'[i].by <= asked
    BY <1>12, <2>1, <2>2 DEF QueriesOK
  <2>6. \A i \in 1..Len(Line'), j \in 1..Len(deferred) : -Line'[i].by < deferred[j]
    <3>1. \A i \in 1..Len(job), j \in 1..Len(deferred) : -job[i].by < deferred[j]
      BY <1>3, <1>8, <2>3
    <3>2. \A i \in 1..Len(Line), j \in 1..Len(deferred) : -Line[i].by < deferred[j]
      BY <2>1 DEF QueriesOK
    <3>. QED  BY <1>12, <3>1, <3>2
  <2>7. \A i \in 1..Len(Line'), j \in 1..Len(ptyout) : ptyout[j] # 0 => -Line'[i].by < ptyout[j]
    <3>1. \A i \in 1..Len(job), j \in 1..Len(ptyout) : ptyout[j] # 0 => -job[i].by < ptyout[j]
      BY <1>3, <1>8, <2>4
    <3>2. \A i \in 1..Len(Line), j \in 1..Len(ptyout) : ptyout[j] # 0 => -Line[i].by < ptyout[j]
      BY <2>1 DEF QueriesOK
    <3>. QED  BY <1>12, <3>1, <3>2
  <2>8. /\ \A i \in 1..Len(answer) : answer[i].by < 0
        /\ \A i, j \in 1..Len(ptyout) : i < j /\ ptyout[i] # 0 /\ ptyout[j] # 0 => ptyout[i] < ptyout[j]
        /\ \A i, j \in 1..Len(deferred) : i < j => deferred[i] < deferred[j]
        /\ \A i \in 1..Len(deferred), j \in 1..Len(ptyout) : ptyout[j] # 0 => deferred[i] < ptyout[j]
    BY <2>1 DEF QueriesOK
  <2>9. answer' = answer /\ ptyout' = ptyout /\ deferred' = deferred /\ asked' = asked
    BY <1>2
  <2>. QED  BY <2>5, <2>6, <2>7, <2>8, <2>9 DEF QueriesOK
<1>16. ClientOK'
  BY <1>1, <1>2 DEF ClientOK, FilterExact
<1>. QED  BY <1>4, <1>10, <1>11, <1>13, <1>14, <1>15, <1>16 DEF IInv, LineOK

\* New output: a query later than all others, or something else.
LEMMA OutputOK ==
  ASSUME IInv, NEW e \in Nat, ptyout' = Append(ptyout, e),
         asked' \in 0..MaxQueries, asked <= asked', e <= asked', e = 0 \/ asked < e,
         Len(ptyout) < OutSize,
         UNCHANGED <<setup, socket, served, job, lock, ptyin, received, answer, deferred>>,
         UNCHANGED clientVars
  PROVE  IInv'
<1>1. TypeOK /\ ClientOK /\ LineOK /\ QueriesOK
  BY DEF IInv
<1>2. /\ UNCHANGED <<typed, read, carry, client, whole, forwarded, refreshes>>
      /\ UNCHANGED <<setup, socket, served, job, lock, ptyin, received, answer, deferred>>
  BY DEF clientVars
<1>. DEFINE a == asked'
<1>3. asked \in Nat /\ a \in Nat /\ OutSize \in Nat /\ asked \in 0..MaxQueries /\ a \in 0..MaxQueries
  BY <1>1, SizesAssumption DEF TypeOK
<1>4. /\ Len(ptyout) \in Nat /\ Len(ptyout') = Len(ptyout) + 1
      /\ \A i \in 1..Len(ptyout) : ptyout'[i] = ptyout[i] /\ ptyout[i] \in 0..asked
      /\ ptyout'[Len(ptyout) + 1] = e
      /\ ptyout' \in Seq(0..a)
  <2>. DEFINE T == 0..asked
              U == 0..a
  <2>1. ptyout \in Seq(T) /\ \A i \in 1..Len(ptyout) : ptyout[i] \in T
    BY <1>1, Numbers
  <2>2. T \subseteq U /\ e \in U
    BY <1>3
  <2>. HIDE DEF T, U
  <2>3. ptyout \in Seq(U)
    BY <2>1, <2>2, SequenceIn
  <2>4. /\ Append(ptyout, e) \in Seq(U) /\ Len(Append(ptyout, e)) = Len(ptyout) + 1
        /\ Append(ptyout, e)[Len(ptyout) + 1] = e
        /\ \A i \in 1..Len(ptyout) : Append(ptyout, e)[i] = ptyout[i]
        /\ Len(ptyout) \in Nat
    BY <2>2, <2>3
  <2>. QED  BY <2>1, <2>4 DEF T, U
<1>5. deferred' \in Seq(1..a)
  <2>. DEFINE T == 1..asked
              U == 1..a
  <2>1. deferred \in Seq(T)
    BY <1>1, Numbers
  <2>2. T \subseteq U
    BY <1>3
  <2>. HIDE DEF T, U
  <2>3. deferred \in Seq(U)
    BY <2>1, <2>2, SequenceIn
  <2>. QED  BY <1>2, <2>3 DEF U
<1>6. TypeOK'
  <2>1. Len(ptyout') <= OutSize
    BY <1>3, <1>4
  <2>. QED  BY <1>1, <1>2, <1>3, <1>4, <1>5, <2>1 DEF TypeOK
<1>7. Line' = Line /\ Waiting' = Waiting
  BY <1>2 DEF Line, Stream, Held, Waiting
<1>8. LineOK'
  <2>1. BytesOK'
    BY <1>1, <1>2, <1>7 DEF LineOK, BytesOK
  <2>2. JobOK'
    BY <1>1, <1>2, <1>7 DEF LineOK, JobOK
  <2>. QED  BY <1>1, <1>7, <2>1, <2>2 DEF LineOK
<1>9. QueriesOK'
  <2>. DEFINE m == Len(ptyout)
  <2>1. ASSUME NEW i \in 1..Len(ptyout') PROVE i \in 1..m \/ i = m + 1
    BY <1>4
  <2>2. \A i \in 1..Len(Line) : Line[i].by \in Int
    BY <1>1, LineIs DEF Byte
  <2>3. \A i \in 1..Len(deferred) : deferred[i] \in 1..asked
    BY <1>1, Numbers
  <2>4. QueriesOK
    BY <1>1
  <2>5. ASSUME NEW i \in 1..Len(ptyout'), NEW j \in 1..Len(ptyout'), i < j, ptyout'[i] # 0, ptyout'[j] # 0
        PROVE  ptyout'[i] < ptyout'[j]
    <3>1. i \in 1..m
      BY <1>4, <2>1, <2>5
    <3>2. CASE j \in 1..m
      BY <1>4, <2>4, <2>5, <3>1, <3>2 DEF QueriesOK
    <3>3. CASE j = m + 1
      <4>1. ptyout'[i] \in 0..asked
        BY <1>4, <3>1
      <4>2. ptyout'[j] = e /\ asked < e
        BY <1>4, <2>5, <3>3
      <4>. QED  BY <1>3, <4>1, <4>2
    <3>. QED  BY <2>1, <3>2, <3>3
  <2>6. ASSUME NEW i \in 1..Len(deferred), NEW j \in 1..Len(ptyout'), ptyout'[j] # 0
        PROVE  deferred[i] < ptyout'[j]
    <3>1. CASE j \in 1..m
      BY <1>4, <2>4, <2>6, <3>1 DEF QueriesOK
    <3>2. CASE j = m + 1
      <4>1. ptyout'[j] = e /\ asked < e
        BY <1>4, <2>6, <3>2
      <4>. QED  BY <1>3, <2>3, <4>1
    <3>. QED  BY <2>1, <3>1, <3>2
  <2>7. ASSUME NEW i \in 1..Len(Line), NEW j \in 1..Len(ptyout'), ptyout'[j] # 0
        PROVE  -Line[i].by < ptyout'[j]
    <3>1. CASE j \in 1..m
      BY <1>4, <2>4, <2>7, <3>1 DEF QueriesOK
    <3>2. CASE j = m + 1
      <4>1. ptyout'[j] = e /\ asked < e
        BY <1>4, <2>7, <3>2
      <4>2. -Line[i].by <= asked
        BY <2>4 DEF QueriesOK
      <4>. QED  BY <1>3, <2>2, <4>1, <4>2
    <3>. QED  BY <2>1, <3>1, <3>2
  <2>8. ASSUME NEW i \in 1..Len(Line) PROVE -Line[i].by <= a
    <3>1. -Line[i].by <= asked
      BY <2>4 DEF QueriesOK
    <3>. QED  BY <1>3, <2>2, <3>1
  <2>9. /\ \A i \in 1..Len(answer) : answer[i].by < 0
        /\ \A i, j \in 1..Len(deferred) : i < j => deferred[i] < deferred[j]
        /\ \A i \in 1..Len(Line), j \in 1..Len(deferred) : -Line[i].by < deferred[j]
    BY <2>4 DEF QueriesOK
  <2>10. answer' = answer /\ deferred' = deferred
    BY <1>2
  <2>. QED  BY <1>7, <2>5, <2>6, <2>7, <2>8, <2>9, <2>10 DEF QueriesOK
<1>10. ClientOK'
  BY <1>1, <1>2 DEF ClientOK, FilterExact
<1>. QED  BY <1>6, <1>8, <1>9, <1>10 DEF IInv

LEMMA ApplicationOK ==
  ASSUME IInv, AppAsk \/ AppPrint
  PROVE  IInv'
<1>1. asked \in 0..MaxQueries /\ MaxQueries \in Nat
  BY SizesAssumption DEF IInv, TypeOK
<1>2. CASE AppAsk
  <2>1. /\ asked' = asked + 1 /\ ptyout' = Append(ptyout, asked + 1) /\ asked < MaxQueries
        /\ Len(ptyout) < OutSize
        /\ UNCHANGED <<setup, socket, served, job, lock, ptyin, received, answer, deferred>>
        /\ UNCHANGED clientVars
    BY <1>2 DEF AppAsk
  <2>. DEFINE e == asked + 1
  <2>2. /\ e \in Nat /\ asked' \in 0..MaxQueries /\ asked <= asked' /\ e <= asked' /\ asked < e
        /\ ptyout' = Append(ptyout, e)
    BY <1>1, <2>1
  <2>. HIDE DEF e
  <2>. QED  BY <2>1, <2>2, OutputOK
<1>3. CASE AppPrint
  <2>1. /\ asked' = asked /\ ptyout' = Append(ptyout, 0)
        /\ Len(ptyout) < OutSize
        /\ UNCHANGED <<setup, socket, served, job, lock, ptyin, received, answer, deferred>>
        /\ UNCHANGED clientVars
    BY <1>3 DEF AppPrint
  <2>. DEFINE e == 0
  <2>2. /\ e \in Nat /\ asked' \in 0..MaxQueries /\ asked <= asked' /\ e <= asked' /\ e = 0
        /\ ptyout' = Append(ptyout, e)
    BY <1>1, <2>1
  <2>. HIDE DEF e
  <2>. QED  BY <2>1, <2>2, OutputOK
<1>. QED  BY <1>2, <1>3

\* A read of the reader: the answers due are of the queries that are deferred or
\* read, in order, and later than those written and earlier than those left.
ReadIs(n, qs, rest) ==
  /\ qs \in Seq(1..asked) /\ Ascending(qs)
  /\ rest \in Seq(0..asked) /\ Len(rest) = Len(ptyout) - n
  /\ \A j \in 1..Len(rest) : n + j \in 1..Len(ptyout) /\ rest[j] = ptyout[n + j]
  /\ \A k \in 1..Len(qs), j \in 1..Len(rest) : rest[j] # 0 => qs[k] < rest[j]
  /\ \A i \in 1..Len(Line), k \in 1..Len(qs) : -Line[i].by < qs[k]
  /\ \A i \in 1..Len(deferred) : \E k \in 1..Len(qs) : qs[k] = deferred[i]
  /\ \A i \in 1..n : ptyout[i] # 0 => \E k \in 1..Len(qs) : qs[k] = ptyout[i]

LEMMA DueOK ==
  ASSUME TypeOK, QueriesOK, NEW n \in 1..OutSize, n <= Len(ptyout)
  PROVE  ReadIs(n, Due(n), SubSeq(ptyout, n + 1, Len(ptyout)))
<1>. DEFINE T == 0..asked
            U == 1..asked
            m == Len(ptyout)
            d == Len(deferred)
            s == SubSeq(ptyout, 1, n)
            rest == SubSeq(ptyout, n + 1, m)
            own == Asks(s)
            o == Len(own)
            qs == Due(n)
<1>1. /\ asked \in Nat /\ ptyout \in Seq(T) /\ deferred \in Seq(U)
      /\ \A i \in 1..m : ptyout[i] \in T /\ ptyout[i] \in Nat
      /\ \A i \in 1..d : deferred[i] \in U /\ deferred[i] \in Nat
      /\ n \in Nat /\ n >= 1
  BY Numbers, SizesAssumption
<1>2. m \in Nat /\ d \in Nat /\ n \in 1..m
  BY <1>1
<1>3. T \subseteq Nat /\ U \subseteq Nat
  BY <1>1
<1>4. s \in Seq(T) /\ Len(s) = n /\ \A i \in 1..n : s[i] = ptyout[i] /\ i \in 1..m
  <2>. HIDE DEF T, m
  <2>1. n \in 0..Len(ptyout) /\ n <= Len(ptyout)
    BY <1>2 DEF m
  <2>. QED  BY <1>1, <2>1 DEF m
<1>5. /\ rest \in Seq(T) /\ Len(rest) = m - n
      /\ \A j \in 1..m - n : rest[j] = ptyout[n + j]
  <2>. HIDE DEF T
  <2>1. n \in 0..Len(ptyout)
    BY <1>2
  <2>. QED  BY <1>1, <2>1, Suffix
<1>6. \A j \in 1..m - n : n + j \in 1..m
  BY <1>1, <1>2
<1>7. qs = deferred \o own
  <2>1. Select(s, {i \in 1..n : ptyout[i] # 0}) = Select(s, {i \in 1..Len(s) : s[i] # 0})
    <3>. DEFINE P == {i \in 1..n : ptyout[i] # 0}
                Q == {i \in 1..Len(s) : s[i] # 0}
    <3>1. \A i \in 1..Len(s) : i \in P <=> i \in Q
      BY <1>4
    <3>. HIDE DEF P, Q, s, T
    <3>2. Select(s, P) = Select(s, Q)
      BY <1>4, <3>1, SelectSame
    <3>. QED  BY <3>2 DEF P, Q
  <2>. QED  BY <2>1 DEF Due, Asked, Asks
<1>8. QueriesIn(asked, s, own)
  BY <1>1, <1>4, AsksOK
<1>. HIDE DEF s, rest, own, qs
<1>9. /\ own \in Seq(U)
      /\ \A k \in 1..o : \E i \in 1..n : s[i] = own[k]
      /\ \A i \in 1..n : s[i] # 0 => \E k \in 1..o : own[k] = s[i]
      /\ AscendingAsks(s) => Ascending(own)
  BY <1>4, <1>8 DEF QueriesIn
<1>10. Ascending(own)
  <2>1. \A i, j \in 1..n : i < j /\ s[i] # 0 /\ s[j] # 0 => s[i] < s[j]
    BY <1>4 DEF QueriesOK
  <2>. QED  BY <1>4, <1>9, <2>1 DEF AscendingAsks
<1>11. ASSUME NEW k \in 1..o
       PROVE  \E i \in 1..n : ptyout[i] = own[k] /\ ptyout[i] # 0 /\ i \in 1..m
  <2>1. PICK i \in 1..n : s[i] = own[k]
    BY <1>9
  <2>2. own[k] \in U
    <3>. HIDE DEF U
    <3>. QED  BY <1>9, ElementsIn
  <2>3. own[k] # 0
    BY <1>1, <2>2
  <2>. QED  BY <1>4, <2>1, <2>3
<1>12. /\ qs \in Seq(U) /\ o \in Nat /\ Len(qs) = d + o
       /\ \A k \in 1..d + o : qs[k] = IF k <= d THEN deferred[k] ELSE own[k - d]
  <2>. HIDE DEF U
  <2>1. o \in Nat
    BY <1>9
  <2>. QED  BY <1>1, <1>7, <1>9, <2>1, ConcatProperties
<1>13. ASSUME NEW k \in 1..Len(qs)
       PROVE  \/ k \in 1..d /\ qs[k] = deferred[k]
              \/ k > d /\ k - d \in 1..o /\ qs[k] = own[k - d]
  BY <1>2, <1>12
<1>14. /\ \A i \in 1..d : i \in 1..Len(qs) /\ qs[i] = deferred[i]
       /\ \A i \in 1..o : d + i \in 1..Len(qs) /\ qs[d + i] = own[i]
  <2>1. ASSUME NEW i \in 1..d PROVE i \in 1..Len(qs) /\ qs[i] = deferred[i]
    BY <1>2, <1>12
  <2>2. ASSUME NEW i \in 1..o PROVE d + i \in 1..Len(qs) /\ qs[d + i] = own[i]
    <3>. DEFINE k == d + i
    <3>1. k \in 1..d + o /\ ~(k <= d) /\ k - d = i
      BY <1>2, <1>12
    <3>. HIDE DEF k
    <3>2. k \in 1..Len(qs) /\ qs[k] = own[i]
      BY <1>12, <3>1
    <3>. QED  BY <3>2 DEF k
  <2>. QED  BY <2>1, <2>2
<1>. HIDE DEF T, U, m, d, o
<1>15. Ascending(qs)
  <2>. SUFFICES ASSUME NEW k \in 1..Len(qs), NEW l \in 1..Len(qs), k < l
                PROVE  qs[k] < qs[l]
    BY DEF Ascending
  <2>0. k \in Int /\ l \in Int /\ d \in Nat
    BY <1>2, <1>12
  <2>1. CASE l \in 1..d /\ qs[l] = deferred[l]
    <3>1. k \in 1..d /\ qs[k] = deferred[k]
      BY <1>13, <2>0, <2>1
    <3>. QED  BY <2>1, <3>1 DEF QueriesOK, d
  <2>2. CASE l > d /\ l - d \in 1..o /\ qs[l] = own[l - d]
    <3>1. CASE k \in 1..d /\ qs[k] = deferred[k]
      <4>1. PICK i \in 1..n : ptyout[i] = own[l - d] /\ ptyout[i] # 0 /\ i \in 1..m
        BY <1>11, <2>2
      <4>. QED  BY <2>2, <3>1, <4>1 DEF QueriesOK, d, m
    <3>2. CASE k > d /\ k - d \in 1..o /\ qs[k] = own[k - d]
      <4>1. k - d < l - d
        BY <2>0
      <4>. QED  BY <1>10, <2>2, <3>2, <4>1 DEF Ascending, o
    <3>. QED  BY <1>13, <3>1, <3>2
  <2>. QED  BY <1>13, <2>1, <2>2
<1>16. ASSUME NEW k \in 1..Len(qs), NEW j \in 1..Len(rest), rest[j] # 0
       PROVE  qs[k] < rest[j]
  <2>1. n + j \in 1..m /\ rest[j] = ptyout[n + j] /\ j \in Nat /\ j >= 1
    BY <1>2, <1>5, <1>6
  <2>2. CASE k \in 1..d /\ qs[k] = deferred[k]
    BY <1>16, <2>1, <2>2 DEF QueriesOK, d, m
  <2>3. CASE k > d /\ k - d \in 1..o /\ qs[k] = own[k - d]
    <3>1. PICK i \in 1..n : ptyout[i] = own[k - d] /\ ptyout[i] # 0 /\ i \in 1..m
      BY <1>11, <2>3
    <3>2. i < n + j
      BY <1>1, <2>1
    <3>. QED  BY <1>16, <2>1, <2>3, <3>1, <3>2 DEF QueriesOK, m
  <2>. QED  BY <1>13, <2>2, <2>3
<1>17. ASSUME NEW i \in 1..Len(Line), NEW k \in 1..Len(qs)
       PROVE  -Line[i].by < qs[k]
  <2>1. CASE k \in 1..d /\ qs[k] = deferred[k]
    BY <2>1 DEF QueriesOK, d
  <2>2. CASE k > d /\ k - d \in 1..o /\ qs[k] = own[k - d]
    <3>1. PICK j \in 1..n : ptyout[j] = own[k - d] /\ ptyout[j] # 0 /\ j \in 1..m
      BY <1>11, <2>2
    <3>. QED  BY <2>2, <3>1 DEF QueriesOK, m
  <2>. QED  BY <1>13, <2>1, <2>2
<1>18. \A i \in 1..d : \E k \in 1..Len(qs) : qs[k] = deferred[i]
  BY <1>14
<1>19. ASSUME NEW i \in 1..n, ptyout[i] # 0 PROVE \E k \in 1..Len(qs) : qs[k] = ptyout[i]
  <2>1. PICK k \in 1..o : own[k] = s[i]
    BY <1>4, <1>9, <1>19
  <2>. QED  BY <1>4, <1>14, <2>1
<1>. QED  BY <1>5, <1>6, <1>12, <1>15, <1>16, <1>17, <1>18, <1>19 DEF ReadIs, T, U, d, m, qs, rest

\* The bytes of two streams, one after the other
LEMMA ConcatElements ==
  ASSUME NEW s \in Seq(Byte), NEW t \in Seq(Byte)
  PROVE  \A i \in 1..Len(s \o t) : \/ \E k \in 1..Len(s) : (s \o t)[i] = s[k]
                                   \/ \E k \in 1..Len(t) : (s \o t)[i] = t[k]
<1>. DEFINE m == Len(s)
            n == Len(t)
            u == s \o t
<1>1. /\ m \in Nat /\ n \in Nat /\ Len(u) = m + n
      /\ \A i \in 1..m + n : u[i] = IF i <= m THEN s[i] ELSE t[i - m]
  BY ConcatProperties
<1>. HIDE DEF m, n, u
<1>2. ASSUME NEW i \in 1..m + n
      PROVE  \/ \E k \in 1..m : u[i] = s[k]
             \/ \E k \in 1..n : u[i] = t[k]
  <2>1. i <= m => i \in 1..m
    BY <1>1
  <2>2. ~(i <= m) => i - m \in 1..n
    BY <1>1
  <2>. QED  BY <1>1, <2>1, <2>2
<1>. QED  BY <1>1, <1>2 DEF m, n, u

\* The queries that are left after a read, with the answers due deferred, or not.
LEMMA QueriesLeft ==
  ASSUME TypeOK, QueriesOK, NEW n \in 1..OutSize, n <= Len(ptyout), NEW qs, NEW left,
         ReadIs(n, qs, ptyout'),
         left \in Seq(1..asked),
         \E d \in 0..Len(qs) : /\ Len(left) = Len(qs) - d
                               /\ \A k \in 1..Len(qs) - d : left[k] = qs[d + k]
  PROVE  /\ \A i, j \in 1..Len(ptyout') : i < j /\ ptyout'[i] # 0 /\ ptyout'[j] # 0 => ptyout'[i] < ptyout'[j]
         /\ \A i, j \in 1..Len(left) : i < j => left[i] < left[j]
         /\ \A i \in 1..Len(left), j \in 1..Len(ptyout') : ptyout'[j] # 0 => left[i] < ptyout'[j]
         /\ \A i \in 1..Len(Line), j \in 1..Len(left) : -Line[i].by < left[j]
         /\ \A i \in 1..Len(Line), j \in 1..Len(ptyout') : ptyout'[j] # 0 => -Line[i].by < ptyout'[j]
<1>1. PICK d \in 0..Len(qs) : /\ Len(left) = Len(qs) - d
                              /\ \A k \in 1..Len(qs) - d : left[k] = qs[d + k]
  OBVIOUS
<1>2. /\ qs \in Seq(1..asked) /\ Ascending(qs)
      /\ \A j \in 1..Len(ptyout') : n + j \in 1..Len(ptyout) /\ ptyout'[j] = ptyout[n + j]
      /\ \A k \in 1..Len(qs), j \in 1..Len(ptyout') : ptyout'[j] # 0 => qs[k] < ptyout'[j]
      /\ \A i \in 1..Len(Line), k \in 1..Len(qs) : -Line[i].by < qs[k]
  BY DEF ReadIs
<1>3. Len(qs) \in Nat /\ d \in Nat /\ n \in Nat /\ Len(ptyout') \in Nat
  <2>1. ptyout' \in Seq(0..asked)
    BY DEF ReadIs
  <2>. QED  BY <1>2, <2>1, SizesAssumption
<1>4. ASSUME NEW k \in 1..Len(left) PROVE d + k \in 1..Len(qs) /\ left[k] = qs[d + k]
  BY <1>1, <1>3
<1>5. ASSUME NEW i \in 1..Len(ptyout'), NEW j \in 1..Len(ptyout'), i < j, ptyout'[i] # 0, ptyout'[j] # 0
      PROVE  ptyout'[i] < ptyout'[j]
  <2>1. n + i < n + j
    BY <1>3, <1>5
  <2>. QED  BY <1>2, <1>5, <2>1 DEF QueriesOK
<1>6. ASSUME NEW i \in 1..Len(left), NEW j \in 1..Len(left), i < j PROVE left[i] < left[j]
  <2>1. d + i < d + j
    BY <1>1, <1>3, <1>6
  <2>. QED  BY <1>2, <1>4, <2>1 DEF Ascending
<1>7. \A i \in 1..Len(left), j \in 1..Len(ptyout') : ptyout'[j] # 0 => left[i] < ptyout'[j]
  BY <1>2, <1>4
<1>8. \A i \in 1..Len(Line), j \in 1..Len(left) : -Line[i].by < left[j]
  BY <1>2, <1>4
<1>9. \A i \in 1..Len(Line), j \in 1..Len(ptyout') : ptyout'[j] # 0 => -Line[i].by < ptyout'[j]
  BY <1>2 DEF QueriesOK
<1>. QED  BY <1>5, <1>6, <1>7, <1>8, <1>9

LEMMA ReaderReadOK ==
  ASSUME IInv, NEW n \in 1..OutSize, ReaderRead(n)
  PROVE  IInv'
<1>1. TypeOK /\ ClientOK /\ LineOK /\ QueriesOK
  BY DEF IInv
<1>. DEFINE qs == Due(n)
            more == Answers(qs)
<1>2. /\ answer = <<>> /\ n <= Len(ptyout)
      /\ ptyout' = SubSeq(ptyout, n + 1, Len(ptyout))
      /\ \/ qs = <<>> /\ UNCHANGED <<answer, lock, deferred>>
         \/ qs # <<>> /\ lock = "free" /\ answer' = more /\ lock' = "reader" /\ deferred' = <<>>
         \/ qs # <<>> /\ lock # "free" /\ deferred' = Newest(qs, MaxDeferred) /\ UNCHANGED <<answer, lock>>
      /\ UNCHANGED <<setup, socket, served, job, ptyin, received, asked>>
      /\ UNCHANGED <<typed, read, carry, client, whole, forwarded, refreshes>>
  BY DEF ReaderRead, clientVars, Defer
<1>3. ReadIs(n, qs, ptyout')
  BY <1>1, <1>2, DueOK
<1>. HIDE DEF qs
<1>4. /\ asked \in Nat /\ qs \in Seq(1..asked) /\ Ascending(qs) /\ MaxDeferred \in Nat
      /\ OutSize \in Nat /\ Len(qs) \in Nat
  BY <1>1, <1>3, Numbers, SizesAssumption DEF ReadIs
<1>5. ptyout' \in Seq(0..asked) /\ Len(ptyout') <= OutSize
  <2>1. ptyout \in Seq(0..asked) /\ Len(ptyout) <= OutSize
    BY <1>1 DEF TypeOK
  <2>2. Len(ptyout') = Len(ptyout) - n /\ ptyout' \in Seq(0..asked)
    BY <1>3 DEF ReadIs
  <2>3. n \in Nat /\ Len(ptyout) \in Nat /\ Len(ptyout') \in Nat
    BY <1>4, <2>1, <2>2
  <2>. QED  BY <1>4, <2>1, <2>2, <2>3
<1>6. job \in Seq(Byte) /\ served \in Nat /\ Stream \in Seq(Byte) /\ Line \in Seq(Byte)
      /\ \A i \in 1..Len(Line) : Line[i] \in Byte
  BY <1>1, LineIs DEF TypeOK
<1>7. ClientOK'
  BY <1>1, <1>2 DEF ClientOK, FilterExact
<1>8. ASSUME lock = "job" \/ qs = <<>>, UNCHANGED <<answer, lock>>
      PROVE  Line' = Line /\ LineOK'
  <2>1. Line' = Line /\ Waiting' = Waiting
    BY <1>2, <1>8 DEF Line, Stream, Held, Waiting
  <2>2. BytesOK'
    BY <1>1, <1>2, <2>1 DEF LineOK, BytesOK
  <2>3. JobOK'
    BY <1>1, <1>2, <1>8, <2>1 DEF LineOK, JobOK
  <2>. QED  BY <1>1, <2>1, <2>2, <2>3 DEF LineOK
<1>9. CASE qs = <<>> /\ UNCHANGED <<answer, lock, deferred>>
  <2>1. LineOK' /\ Line' = Line
    BY <1>8, <1>9
  <2>2. deferred = <<>>
    <3>1. \A i \in 1..Len(deferred) : \E k \in 1..Len(qs) : qs[k] = deferred[i]
      BY <1>3 DEF ReadIs
    <3>2. 1..Len(qs) = {} /\ deferred \in Seq(1..asked)
      BY <1>1, <1>9 DEF TypeOK
    <3>3. Len(deferred) \in Nat /\ 1 \notin 1..Len(deferred)
      BY <3>1, <3>2
    <3>. QED  BY <3>2, <3>3
  <2>3. TypeOK'
    BY <1>1, <1>2, <1>5, <1>9 DEF TypeOK
  <2>4. /\ deferred' = qs /\ qs \in Seq(1..asked) /\ 0 \in 0..Len(qs) /\ Len(qs) = Len(qs) - 0
        /\ \A k \in 1..Len(qs) - 0 : qs[k] = qs[0 + k]
    BY <1>4, <1>9, <2>2
  <2>5. QueriesOK'
    <3>. DEFINE z == 0
    <3>1. /\ z \in 0..Len(qs) /\ Len(qs) = Len(qs) - z
          /\ \A k \in 1..Len(qs) - z : qs[k] = qs[z + k]
      BY <2>4
    <3>. HIDE DEF z
    <3>2. /\ \A i, j \in 1..Len(ptyout') : i < j /\ ptyout'[i] # 0 /\ ptyout'[j] # 0 => ptyout'[i] < ptyout'[j]
          /\ \A i, j \in 1..Len(qs) : i < j => qs[i] < qs[j]
          /\ \A i \in 1..Len(qs), j \in 1..Len(ptyout') : ptyout'[j] # 0 => qs[i] < ptyout'[j]
          /\ \A i \in 1..Len(Line), j \in 1..Len(qs) : -Line[i].by < qs[j]
          /\ \A i \in 1..Len(Line), j \in 1..Len(ptyout') : ptyout'[j] # 0 => -Line[i].by < ptyout'[j]
      BY <1>1, <1>2, <1>3, <1>4, <3>1, QueriesLeft
    <3>3. /\ \A i \in 1..Len(answer) : answer[i].by < 0
          /\ \A i \in 1..Len(Line) : -Line[i].by <= asked
      BY <1>1 DEF QueriesOK
    <3>. QED  BY <1>2, <1>9, <2>1, <2>4, <3>2, <3>3 DEF QueriesOK
  <2>. QED  BY <1>7, <2>1, <2>3, <2>5 DEF IInv
<1>10. CASE /\ qs # <<>> /\ lock # "free" /\ deferred' = Newest(qs, MaxDeferred)
            /\ UNCHANGED <<answer, lock>>
  <2>1. lock = "job"
    BY <1>1, <1>2, <1>10 DEF TypeOK
  <2>2. LineOK' /\ Line' = Line
    BY <1>8, <1>10, <2>1
  <2>. DEFINE left == Newest(qs, MaxDeferred)
              T == 1..asked
  <2>3. /\ left \in Seq(T) /\ Len(left) <= MaxDeferred
        /\ \E d \in 0..Len(qs) : /\ Len(left) = Len(qs) - d
                                 /\ \A k \in 1..Len(qs) - d : left[k] = qs[d + k]
    <3>. HIDE DEF T
    <3>1. qs \in Seq(T)
      BY <1>4 DEF T
    <3>. QED  BY <1>4, <3>1, NewestOK
  <2>. HIDE DEF left
  <2>4. deferred' = left
    BY <1>10 DEF left
  <2>5. TypeOK'
    BY <1>1, <1>2, <1>5, <1>10, <2>3, <2>4 DEF TypeOK
  <2>6. QueriesOK'
    <3>1. /\ \A i, j \in 1..Len(ptyout') : i < j /\ ptyout'[i] # 0 /\ ptyout'[j] # 0 => ptyout'[i] < ptyout'[j]
          /\ \A i, j \in 1..Len(left) : i < j => left[i] < left[j]
          /\ \A i \in 1..Len(left), j \in 1..Len(ptyout') : ptyout'[j] # 0 => left[i] < ptyout'[j]
          /\ \A i \in 1..Len(Line), j \in 1..Len(left) : -Line[i].by < left[j]
          /\ \A i \in 1..Len(Line), j \in 1..Len(ptyout') : ptyout'[j] # 0 => -Line[i].by < ptyout'[j]
      BY <1>1, <1>2, <1>3, <2>3, QueriesLeft
    <3>2. /\ \A i \in 1..Len(answer) : answer[i].by < 0
          /\ \A i \in 1..Len(Line) : -Line[i].by <= asked
      BY <1>1 DEF QueriesOK
    <3>. QED  BY <1>2, <1>10, <2>2, <2>4, <3>1, <3>2 DEF QueriesOK
  <2>. QED  BY <1>7, <2>2, <2>5, <2>6 DEF IInv
<1>11. CASE /\ qs # <<>> /\ lock = "free" /\ answer' = more /\ lock' = "reader" /\ deferred' = <<>>
  <2>1. /\ more \in Seq(Byte) /\ more # <<>>
        /\ \A i \in 1..Len(more) : \E k \in 1..Len(qs) : more[i].by = -qs[k]
        /\ WholeIn(more) /\ OrderedIn(more) /\ NoneTyped(more)
    BY <1>4, <1>11, AnswersAre
  <2>. HIDE DEF more
  <2>2. Line' = Line \o more /\ Waiting = job /\ Waiting' = job /\ Line = Stream
    <3>1. Held = <<>> /\ Waiting = job
      BY <1>2, <1>11 DEF Held, Waiting
    <3>2. Line = Stream
      <4>1. Stream \o <<>> = Stream
        BY <1>6, ConcatEmptySeq
      <4>. QED  BY <3>1, <4>1 DEF Line
    <3>. QED  BY <1>2, <1>11, <3>1, <3>2 DEF Line, Stream, Held, Waiting
  <2>3. \A k \in 1..Len(qs) : qs[k] \in 1..asked /\ qs[k] \in Nat
    <3>. DEFINE T == 1..asked
    <3>1. qs \in Seq(T) /\ T \subseteq Nat
      BY <1>4
    <3>. HIDE DEF T
    <3>2. \A k \in 1..Len(qs) : qs[k] \in T
      BY <3>1, ElementsIn
    <3>. QED  BY <3>1, <3>2 DEF T
  <2>4. \A i \in 1..Len(more) : more[i].by < 0 /\ -more[i].by <= asked /\ more[i].by \in Int
    <3>. TAKE i \in 1..Len(more)
    <3>1. PICK k \in 1..Len(qs) : more[i].by = -qs[k]
      BY <2>1
    <3>2. qs[k] \in Nat /\ qs[k] >= 1 /\ qs[k] <= asked
      BY <1>4, <2>3
    <3>. QED  BY <1>4, <3>1, <3>2
  <2>5. \A i \in 1..Len(Line), j \in 1..Len(more) : -Line[i].by < -more[j].by /\ Line[i].by > more[j].by
    <3>. TAKE i \in 1..Len(Line), j \in 1..Len(more)
    <3>1. PICK k \in 1..Len(qs) : more[j].by = -qs[k]
      BY <2>1
    <3>2. -Line[i].by < qs[k] /\ qs[k] \in Nat
      BY <1>3, <2>3 DEF ReadIs
    <3>3. Line[i].by \in Int
      BY <1>6 DEF Byte
    <3>. QED  BY <3>1, <3>2, <3>3
  <2>6. \A i \in 1..Len(Line') : \/ \E k \in 1..Len(Line) : Line'[i] = Line[k]
                                 \/ \E k \in 1..Len(more) : Line'[i] = more[k]
    <3>1. \A i \in 1..Len(Line \o more) : \/ \E k \in 1..Len(Line) : (Line \o more)[i] = Line[k]
                                          \/ \E k \in 1..Len(more) : (Line \o more)[i] = more[k]
      BY <1>6, <2>1, ConcatElements
    <3>. QED  BY <2>2, <3>1
  <2>7. TypeOK'
    <3>1. <<>> \in Seq(1..asked) /\ Len(<<>>) = 0
      OBVIOUS
    <3>2. deferred' \in Seq(1..asked) /\ Len(deferred') <= MaxDeferred
      BY <1>4, <1>11, <3>1
    <3>. QED  BY <1>1, <1>2, <1>5, <1>11, <2>1, <3>2 DEF TypeOK
  <2>8. WholeIn(Line') /\ OrderedIn(Line')
    <3>1. WholeIn(Line) /\ OrderedIn(Line)
      BY <1>1 DEF LineOK
    <3>2. \A i \in 1..Len(Line), j \in 1..Len(more) : Line[i].by # more[j].by
      BY <1>6, <2>4, <2>5 DEF Byte
    <3>3. WholeIn(Line \o more)
      BY <1>6, <2>1, <3>1, <3>2, WholeConcat
    <3>4. OrderedIn(Line \o more)
      BY <1>6, <2>1, <2>5, <3>1, OrderedConcat
    <3>. QED  BY <2>2, <3>3, <3>4
  <2>9. JobOK'
    <3>1. /\ \A i \in 1..Len(Line) : Line[i].by <= served /\ Line[i].by # 0
          /\ job # <<>> => \A i \in 1..Len(Line) : Line[i].by # served
          /\ \A i \in 1..Len(job) : job[i].by = served
          /\ job # <<>> => served >= 1
      BY <1>1, <1>11 DEF LineOK, JobOK
    <3>2. \A i \in 1..Len(more) : more[i].by <= served /\ more[i].by # 0 /\ more[i].by # served
      BY <1>6, <2>4
    <3>3. \A i \in 1..Len(Line') : Line'[i].by <= served /\ Line'[i].by # 0
      BY <2>6, <3>1, <3>2
    <3>4. job # <<>> => \A i \in 1..Len(Line') : Line'[i].by # served
      BY <2>6, <3>1, <3>2
    <3>. QED  BY <1>2, <3>1, <3>3, <3>4 DEF JobOK
  <2>10. BytesOK'
    <3>1. Typed(Line \o more) = Typed(Line)
      BY <1>6, <2>1, TypedBlock
    <3>2. Keys(Typed(Line)) \o Keys(job) \o Data(socket) = forwarded
      BY <1>1, <2>2 DEF LineOK, BytesOK
    <3>. QED  BY <1>2, <2>2, <3>1, <3>2 DEF BytesOK
  <2>11. QueriesOK'
    <3>1. /\ \A i, j \in 1..Len(ptyout') : i < j /\ ptyout'[i] # 0 /\ ptyout'[j] # 0 => ptyout'[i] < ptyout'[j]
          /\ \A i \in 1..Len(Line), j \in 1..Len(ptyout') : ptyout'[j] # 0 => -Line[i].by < ptyout'[j]
      <4>. DEFINE z == 0
      <4>1. /\ z \in 0..Len(qs) /\ Len(qs) = Len(qs) - z
            /\ \A k \in 1..Len(qs) - z : qs[k] = qs[z + k]
        BY <1>4
      <4>. HIDE DEF z
      <4>2. /\ \A i, j \in 1..Len(ptyout') : i < j /\ ptyout'[i] # 0 /\ ptyout'[j] # 0 => ptyout'[i] < ptyout'[j]
            /\ \A i, j \in 1..Len(qs) : i < j => qs[i] < qs[j]
            /\ \A i \in 1..Len(qs), j \in 1..Len(ptyout') : ptyout'[j] # 0 => qs[i] < ptyout'[j]
            /\ \A i \in 1..Len(Line), j \in 1..Len(qs) : -Line[i].by < qs[j]
            /\ \A i \in 1..Len(Line), j \in 1..Len(ptyout') : ptyout'[j] # 0 => -Line[i].by < ptyout'[j]
        BY <1>1, <1>2, <1>3, <1>4, <4>1, QueriesLeft
      <4>. QED  BY <4>2
    <3>2. \A i \in 1..Len(more), j \in 1..Len(ptyout') : ptyout'[j] # 0 => -more[i].by < ptyout'[j]
      <4>. TAKE i \in 1..Len(more), j \in 1..Len(ptyout')
      <4>1. PICK k \in 1..Len(qs) : more[i].by = -qs[k]
        BY <2>1
      <4>2. ptyout'[j] # 0 => qs[k] < ptyout'[j]
        BY <1>3 DEF ReadIs
      <4>3. -more[i].by = qs[k]
        BY <2>3, <4>1
      <4>. QED  BY <4>2, <4>3
    <3>3. \A i \in 1..Len(Line') : -Line'[i].by <= asked
      <4>1. \A i \in 1..Len(Line) : -Line[i].by <= asked
        BY <1>1 DEF QueriesOK
      <4>. QED  BY <2>4, <2>6, <4>1
    <3>4. \A i \in 1..Len(Line'), j \in 1..Len(ptyout') : ptyout'[j] # 0 => -Line'[i].by < ptyout'[j]
      BY <2>6, <3>1, <3>2
    <3>5. \A i \in 1..Len(answer') : answer'[i].by < 0
      BY <1>11, <2>4
    <3>6. deferred' = <<>> /\ 1..Len(deferred') = {}
      BY <1>11
    <3>. QED  BY <1>2, <3>1, <3>3, <3>4, <3>5, <3>6 DEF QueriesOK
  <2>. QED  BY <1>7, <2>7, <2>8, <2>9, <2>10, <2>11 DEF IInv, LineOK
<1>. QED  BY <1>2, <1>9, <1>10, <1>11

-----------------------------------------------------------------------------
(* The invariant *)

LEMMA InitOK ==
  ASSUME Init
  PROVE  IInv
<1>1. /\ setup \in Setups
      /\ typed = <<>> /\ read = 0 /\ carry = <<>> /\ client = "on" /\ whole = 0
      /\ forwarded = <<>> /\ refreshes = 0 /\ socket = <<>>
      /\ served = 0 /\ job = <<>> /\ lock = "free" /\ ptyin = <<>> /\ received = <<>>
      /\ asked = 0 /\ ptyout = <<>> /\ answer = <<>> /\ deferred = <<>>
  BY DEF Init
<1>2. /\ <<>> \in Seq(Key) /\ <<>> \in Seq(Message) /\ <<>> \in Seq(Byte)
      /\ <<>> \in Seq(0..0) /\ <<>> \in Seq(1..0)
      /\ Len(<<>>) = 0 /\ <<>> \o <<>> = <<>> /\ 1..0 = {}
  <2>1. <<>> \in Seq({}) /\ <<>> \o <<>> = <<>>
    BY ConcatEmptySeq
  <2>. QED  BY <2>1
<1>3. TypeOK
  <2>1. /\ InSize \in Nat /\ OutSize \in Nat /\ MaxQueries \in Nat /\ MaxDeferred \in Nat
    BY SizesAssumption
  <2>2. read \in 0..Len(typed) /\ whole \in 0..read
    BY <1>1, <1>2
  <2>3. Len(ptyin) <= InSize /\ Len(ptyout) <= OutSize /\ Len(deferred) <= MaxDeferred /\ asked \in 0..MaxQueries
    BY <1>1, <1>2, <2>1
  <2>. QED  BY <1>1, <1>2, <2>2, <2>3 DEF TypeOK
<1>4. ClientOK
  <2>1. SubSeq(typed, 1, read) = <<>>
    BY <1>1, <1>2
  <2>2. On(<<>>, <<>>, <<>>, 0)
    <3>1. ~HasDetach(<<>>)
      BY <1>2, DetachIn
    <3>2. KeptTo(<<>>, 0) = <<>> /\ FocusInsTo(<<>>, 0) = 0
      BY <1>2, KeptNone
    <3>3. ~Begins(<<>>, 0) /\ ~Begins(<<>>, 0 - 1)
      BY DEF Begins
    <3>4. Clean(<<>>, 0)
      BY <3>3 DEF Clean
    <3>5. SubSeq(<<>>, 0 - 0 + 1, 0) = <<>>
      OBVIOUS
    <3>6. 0 - 0 = 0 /\ 0 <= 0
      OBVIOUS
    <3>. QED  BY <1>2, <3>1, <3>2, <3>4, <3>5, <3>6 DEF On
  <2>. QED  BY <1>1, <2>1, <2>2 DEF ClientOK
<1>5. Line = <<>> /\ Waiting = <<>> /\ Keys(<<>>) = <<>>
  BY <1>1, <1>2 DEF Line, Stream, Held, Waiting, Keys
<1>6. WholeIn(<<>>) /\ OrderedIn(<<>>)
  BY <1>2 DEF WholeIn, OrderedIn
<1>7. JobOK
  BY <1>1, <1>2, <1>5 DEF JobOK
<1>8. BytesOK
  BY <1>1, <1>2, <1>5, TypedEmpty, DataEmpty DEF BytesOK
<1>9. QueriesOK
  BY <1>1, <1>2, <1>5 DEF QueriesOK
<1>. QED  BY <1>3, <1>4, <1>5, <1>6, <1>7, <1>8, <1>9 DEF IInv, LineOK

LEMMA StepOK == IInv /\ [Next]_vars => IInv'
<1>. SUFFICES ASSUME IInv, [Next]_vars PROVE IInv'
  OBVIOUS
<1>1. CASE (\E k \in setup.keys : Type(k)) \/ (\E n \in 1..setup.max : ReadStdin(n)) \/ EndOfInput
  BY <1>1, ClientStepOK
<1>2. CASE Serve
  BY <1>2, ServeOK
<1>3. CASE JobLock
  BY <1>3, JobLockOK
<1>4. CASE JobWrite \/ ReaderWrite \/ AppRead
  BY <1>4, MovesOK
<1>5. CASE AppAsk \/ AppPrint
  BY <1>5, ApplicationOK
<1>6. ASSUME NEW n \in 1..OutSize, ReaderRead(n)
      PROVE  IInv'
  BY <1>6, ReaderReadOK
<1>7. CASE UNCHANGED vars
  BY <1>7 DEF vars, IInv, TypeOK, ClientOK, FilterExact, LineOK, JobOK, BytesOK, QueriesOK,
              Line, Stream, Held, Waiting
<1>. QED  BY <1>1, <1>2, <1>3, <1>4, <1>5, <1>6, <1>7 DEF Next

\* InputFilter::process, client_to_pty and persistent_reader_loop: what has been
\* read, filtered, queued and written fits together in every reachable state.
THEOREM Invariance == Spec => []IInv
BY InitOK, StepOK, PTL DEF Spec

-----------------------------------------------------------------------------
(* The theorems *)

\* Every variable has its type, the buffers of the PTY and deferred_responses keep
\* within their bounds, and whoever writes to the PTY holds pty_writer.
THEOREM TypeCorrect == Spec => []TypeOK
<1>1. IInv => TypeOK
  BY DEF IInv
<1>. QED  BY <1>1, Invariance, PTL

LEMMA FilterFollows == IInv => FilterExact
<1>. SUFFICES ASSUME IInv PROVE FilterExact
  OBVIOUS
<1>1. ClientOK
  BY DEF IInv
<1>2. CASE client = "on"
  <2>. DEFINE seen == SubSeq(typed, 1, read)
  <2>1. On(seen, carry, forwarded, refreshes)
    BY <1>1, <1>2 DEF ClientOK
  <2>. HIDE DEF seen
  <2>2. forwarded \o carry = Kept(seen) /\ refreshes = FocusIns(seen)
    BY <2>1, LeftOver
  <2>. QED  BY <1>2, <2>2 DEF FilterExact, seen
<1>3. CASE client # "on"
  BY <1>1, <1>3 DEF ClientOK
<1>. QED  BY <1>2, <1>3

\* InputFilter::process and flush: however many bytes each read of stdin returns,
\* the Input messages carry what was typed without its focus reports, with one
\* RefreshScreen for each focus-in and nothing but an ESC or ESC [ held back; and
\* the detach key ends it where it was typed.
THEOREM FilterExactHolds == Spec => []FilterExact
BY FilterFollows, Invariance, PTL

LEMMA InputFollows == IInv => InputKept
<1>. SUFFICES ASSUME IInv PROVE InputKept
  OBVIOUS
<1>1. TypeOK /\ LineOK /\ QueriesOK
  BY DEF IInv
<1>2. /\ Stream \in Seq(Byte) /\ Held \in Seq(Byte) /\ Waiting \in Seq(Byte)
      /\ \A i \in 1..Len(Stream) : i \in 1..Len(Line) /\ Line[i] = Stream[i]
  BY <1>1, LineIs
<1>3. job \in Seq(Byte) /\ answer \in Seq(Byte) /\ served \in Nat
  BY <1>1 DEF TypeOK
<1>4. WritesWhole
  <2>. SUFFICES ASSUME NEW i \in 1..Len(Stream), NEW l \in 1..Len(Stream), NEW j \in i..l,
                       Stream[i].by = Stream[l].by
                PROVE  Stream[j].by = Stream[i].by
    BY DEF WritesWhole
  <2>1. j \in 1..Len(Stream)
    <3>1. Len(Stream) \in Nat
      BY <1>2
    <3>. QED  BY <3>1
  <2>2. WholeIn(Line)
    BY <1>1 DEF LineOK
  <2>3. /\ i \in 1..Len(Line) /\ l \in 1..Len(Line) /\ Line[i] = Stream[i] /\ Line[l] = Stream[l]
        /\ Line[j] = Stream[j]
    BY <1>2, <2>1
  <2>. QED  BY <2>2, <2>3 DEF WholeIn
<1>5. Keys(Typed(Line)) \o Keys(Waiting) \o Data(socket) = forwarded
  BY <1>1 DEF LineOK, BytesOK
<1>6. Keys(Typed(Line)) \o Keys(Waiting) = Keys(Typed(Stream)) \o Keys(job)
  <2>. DEFINE a == Typed(Stream)
  <2>1. a \in Seq(Byte)
    BY <1>2, TypedType
  <2>2. CASE lock = "job"
    <3>1. Line = Stream \o job /\ Waiting = <<>>
      BY <2>2 DEF Line, Held, Waiting
    <3>2. AllTyped(job)
      <4>1. /\ \A i \in 1..Len(job) : job[i].by = served
            /\ job # <<>> => served >= 1
        BY <1>1 DEF LineOK, JobOK
      <4>2. job # <<>>
        BY <1>1, <2>2 DEF TypeOK
      <4>. QED  BY <1>3, <4>1, <4>2 DEF AllTyped
    <3>3. Typed(Line) = a \o job
      BY <1>2, <1>3, <3>1, <3>2, TypedBlock
    <3>. HIDE DEF a
    <3>4. Keys(a \o job) = Keys(a) \o Keys(job) /\ Keys(a \o job) \in Seq(Char)
      <4>1. a \o job \in Seq(Byte)
        BY <1>3, <2>1
      <4>. QED  BY <1>3, <2>1, <4>1, KeysConcat
    <3>5. Keys(<<>>) = <<>>
      BY DEF Keys
    <3>6. Keys(a \o job) \o <<>> = Keys(a \o job)
      BY <3>4, ConcatEmptySeq
    <3>7. Keys(Typed(Line)) \o Keys(Waiting) = Keys(a) \o Keys(job)
      BY <3>1, <3>3, <3>4, <3>5, <3>6, Zenon
    <3>. QED  BY <3>7 DEF a
  <2>3. CASE lock # "job"
    <3>1. Line = Stream \o answer /\ Waiting = job
      BY <2>3 DEF Line, Held, Waiting
    <3>2. NoneTyped(answer)
      <4>1. \A i \in 1..Len(answer) : answer[i].by < 0 /\ answer[i] \in Byte
        <5>1. \A i \in 1..Len(answer) : answer[i] \in Byte
          BY <1>3, ElementsIn
        <5>. QED  BY <1>1, <5>1 DEF QueriesOK
      <4>. QED  BY <4>1 DEF NoneTyped, Byte
    <3>3. Typed(Line) = Typed(Stream)
      BY <1>2, <1>3, <3>1, <3>2, TypedBlock
    <3>. QED  BY <3>1, <3>3
  <2>. QED  BY <2>2, <2>3
<1>7. Keys(Typed(Stream)) \o Keys(job) \o Data(socket) = forwarded
  BY <1>5, <1>6, Zenon
<1>. QED  BY <1>1, <1>4, <1>7 DEF InputKept

\* client_to_pty and persistent_reader_loop share pty_writer: what the client
\* wrote reaches the application in order and once, and the bytes of an Input
\* message or of an answer are never cut by those of another write.
THEOREM InputKeptHolds == Spec => []InputKept
BY InputFollows, Invariance, PTL

LEMMA OrderFollows == IInv => InOrder
<1>. SUFFICES ASSUME IInv PROVE InOrder
  OBVIOUS
<1>1. TypeOK /\ LineOK /\ QueriesOK
  BY DEF IInv
<1>2. \A i \in 1..Len(Stream) : i \in 1..Len(Line) /\ Line[i] = Stream[i]
  BY <1>1, LineIs
<1>3. OrderedIn(Line)
  BY <1>1 DEF LineOK
<1>4. OrderedIn(Stream)
  BY <1>2, <1>3 DEF OrderedIn
<1>5. \A i, j \in 1..Len(deferred) : i < j => deferred[i] < deferred[j]
  BY <1>1 DEF QueriesOK
<1>. QED  BY <1>4, <1>5 DEF InOrder, OrderedIn

\* Where the answer to a query is: in the output not read yet, among the deferred
\* answers, or in the bytes written and being written
Somewhere(out, waiting, bytes, q) ==
  \/ \E i \in 1..Len(out) : out[i] = q
  \/ \E i \in 1..Len(waiting) : waiting[i] = q
  \/ \E i \in 1..Len(bytes) : bytes[i].by = -q

LEMMA SomewhereIs ==
  ASSUME NEW out \in Seq(Nat), NEW waiting \in Seq(Nat), NEW bytes \in Seq(Byte), NEW q \in Nat
  PROVE  q \in Range(out) \cup Range(waiting) \cup {-b.by : b \in Range(bytes)}
           <=> Somewhere(out, waiting, bytes, q)
<1>1. q \in Range(out) <=> \E i \in 1..Len(out) : out[i] = q
  BY DEF Range
<1>2. q \in Range(waiting) <=> \E i \in 1..Len(waiting) : waiting[i] = q
  BY DEF Range
<1>3. q \in {-b.by : b \in Range(bytes)} <=> \E i \in 1..Len(bytes) : -bytes[i].by = q
  BY DEF Range
<1>4. ASSUME NEW i \in 1..Len(bytes) PROVE -bytes[i].by = q <=> bytes[i].by = -q
  <2>1. bytes[i] \in Byte
    BY ElementsIn
  <2>. DEFINE x == bytes[i].by
  <2>2. x \in Int
    BY <2>1 DEF Byte
  <2>. HIDE DEF x
  <2>3. -x = q <=> x = -q
    BY <2>2
  <2>. QED  BY <2>3 DEF x
<1>. QED  BY <1>1, <1>2, <1>3, <1>4 DEF Somewhere

\* What has been written or is being written
Written == Stream \o answer

LEMMA AliveIs ==
  ASSUME TypeOK, NEW q \in Nat
  PROVE  q \in Alive <=> Somewhere(ptyout, deferred, Written, q)
<1>1. /\ ptyout \in Seq(0..asked) /\ deferred \in Seq(1..asked) /\ asked \in Nat
      /\ Written \in Seq(Byte)
  BY Numbers DEF TypeOK, Written, Stream
<1>2. ptyout \in Seq(Nat) /\ deferred \in Seq(Nat)
  <2>. DEFINE T == 0..asked
              U == 1..asked
              V == Nat
  <2>1. ptyout \in Seq(T) /\ deferred \in Seq(U) /\ T \subseteq V /\ U \subseteq V
    BY <1>1
  <2>. HIDE DEF T, U, V
  <2>2. ptyout \in Seq(V) /\ deferred \in Seq(V)
    BY <2>1, SequenceIn
  <2>. QED  BY <2>2 DEF V
<1>3. Alive = Range(ptyout) \cup Range(deferred) \cup {-b.by : b \in Range(Written)}
  BY DEF Alive, Written
<1>. HIDE DEF Written
<1>. QED  BY <1>1, <1>2, <1>3, SomewhereIs

LEMMA AliveIsNext ==
  ASSUME TypeOK', NEW q \in Nat
  PROVE  q \in Alive' <=> Somewhere(ptyout', deferred', Written', q)
<1>. DEFINE out == ptyout'
            waiting == deferred'
            bytes == Written'
<1>1. /\ out \in Seq(0..asked') /\ waiting \in Seq(1..asked') /\ asked' \in Nat
      /\ bytes \in Seq(Byte)
  BY SizesAssumption DEF TypeOK, Written, Stream
<1>2. out \in Seq(Nat) /\ waiting \in Seq(Nat)
  <2>. DEFINE T == 0..asked'
              U == 1..asked'
              V == Nat
  <2>1. out \in Seq(T) /\ waiting \in Seq(U) /\ T \subseteq V /\ U \subseteq V
    BY <1>1
  <2>. HIDE DEF T, U, V, out, waiting
  <2>2. out \in Seq(V) /\ waiting \in Seq(V)
    BY <2>1, SequenceIn
  <2>. QED  BY <2>2 DEF V
<1>3. Alive' = Range(out) \cup Range(waiting) \cup {-b.by : b \in Range(bytes)}
  BY DEF Alive, Written
<1>. HIDE DEF out, waiting, bytes
<1>4. q \in Alive' <=> Somewhere(out, waiting, bytes, q)
  BY <1>1, <1>2, <1>3, SomewhereIs
<1>. QED  BY <1>4 DEF out, waiting, bytes

\* The bytes of s and of s and t are there.
LEMMA ConcatHas ==
  ASSUME NEW s \in Seq(Byte), NEW t \in Seq(Byte)
  PROVE  /\ \A i \in 1..Len(s) : \E k \in 1..Len(s \o t) : (s \o t)[k] = s[i]
         /\ \A i \in 1..Len(t) : \E k \in 1..Len(s \o t) : (s \o t)[k] = t[i]
<1>. DEFINE m == Len(s)
            n == Len(t)
            u == s \o t
<1>1. /\ m \in Nat /\ n \in Nat /\ Len(u) = m + n
      /\ \A i \in 1..m + n : u[i] = IF i <= m THEN s[i] ELSE t[i - m]
  BY ConcatProperties
<1>. HIDE DEF m, n, u
<1>2. ASSUME NEW i \in 1..m PROVE i \in 1..Len(u) /\ u[i] = s[i]
  BY <1>1
<1>3. ASSUME NEW i \in 1..n PROVE \E k \in 1..Len(u) : u[k] = t[i]
  <2>. DEFINE k == m + i
  <2>1. k \in 1..m + n /\ ~(k <= m) /\ k - m = i
    BY <1>1
  <2>. HIDE DEF k
  <2>. QED  BY <1>1, <2>1
<1>. QED  BY <1>2, <1>3 DEF m, n, u

\* Lost, as AnswersKept has it: the queue is full of answers to later queries.
Forgotten(q) ==
  Len(deferred') = MaxDeferred /\ \A i \in 1..MaxDeferred : deferred'[i] > q

LEMMA ReaderReadLoses ==
  ASSUME IInv, NEW n \in 1..OutSize, ReaderRead(n), NEW q \in 1..asked,
         Somewhere(ptyout, deferred, Written, q)
  PROVE  Somewhere(ptyout', deferred', Written', q) \/ Forgotten(q)
<1>1. TypeOK /\ QueriesOK
  BY DEF IInv
<1>. DEFINE qs == Due(n)
            more == Answers(qs)
<1>2. /\ answer = <<>> /\ n <= Len(ptyout)
      /\ ptyout' = SubSeq(ptyout, n + 1, Len(ptyout))
      /\ \/ qs = <<>> /\ UNCHANGED <<answer, lock, deferred>>
         \/ qs # <<>> /\ lock = "free" /\ answer' = more /\ lock' = "reader" /\ deferred' = <<>>
         \/ qs # <<>> /\ lock # "free" /\ deferred' = Newest(qs, MaxDeferred) /\ UNCHANGED <<answer, lock>>
      /\ UNCHANGED <<ptyin, received, asked>>
  BY DEF ReaderRead, Defer
<1>3. ReadIs(n, qs, ptyout')
  BY <1>1, <1>2, DueOK
<1>. HIDE DEF qs
<1>4. /\ asked \in Nat /\ qs \in Seq(1..asked) /\ Ascending(qs) /\ MaxDeferred \in Nat
      /\ Len(qs) \in Nat /\ q \in Nat /\ q >= 1 /\ n \in Nat
      /\ ptyout \in Seq(0..asked) /\ Len(ptyout) \in Nat
      /\ \A k \in 1..Len(qs) : qs[k] \in 1..asked /\ qs[k] \in Nat
  <2>1. /\ asked \in Nat /\ qs \in Seq(1..asked) /\ Ascending(qs) /\ MaxDeferred \in Nat
        /\ ptyout \in Seq(0..asked)
    BY <1>1, <1>3, Numbers, SizesAssumption DEF ReadIs
  <2>2. \A k \in 1..Len(qs) : qs[k] \in 1..asked
    <3>. DEFINE T == 1..asked
    <3>1. qs \in Seq(T)
      BY <2>1
    <3>. HIDE DEF T
    <3>2. \A k \in 1..Len(qs) : qs[k] \in T
      BY <3>1, ElementsIn
    <3>. QED  BY <3>2 DEF T
  <2>3. Len(qs) \in Nat /\ Len(ptyout) \in Nat /\ q \in Nat /\ q >= 1 /\ n \in Nat
    BY <2>1, SizesAssumption
  <2>. QED  BY <2>1, <2>2, <2>3
<1>5. Stream \in Seq(Byte) /\ Written = Stream /\ Stream' = Stream
  <2>1. Stream \in Seq(Byte)
    BY <1>1, LineIs
  <2>2. Stream \o <<>> = Stream
    BY <2>1, ConcatEmptySeq
  <2>. QED  BY <1>2, <2>1, <2>2 DEF Written, Stream
<1>6. CASE \E i \in 1..Len(Written) : Written[i].by = -q
  <2>1. answer' \in Seq(Byte)
    <3>1. CASE answer' = more /\ qs # <<>>
      BY <1>4, <3>1, AnswersAre
    <3>2. CASE answer' = answer
      BY <1>1, <3>2 DEF TypeOK
    <3>. QED  BY <1>2, <3>1, <3>2
  <2>2. PICK i \in 1..Len(Stream) : Stream[i].by = -q
    BY <1>5, <1>6
  <2>. DEFINE b == answer'
  <2>3. \E k \in 1..Len(Stream \o b) : (Stream \o b)[k] = Stream[i]
    <3>. HIDE DEF b
    <3>. QED  BY <1>5, <2>1, ConcatHas DEF b
  <2>4. Written' = Stream \o b
    BY <1>5 DEF Written
  <2>5. \E k \in 1..Len(Written') : Written'[k].by = -q
    BY <2>2, <2>3, <2>4
  <2>. QED  BY <2>5 DEF Somewhere
<1>7. CASE \E i \in 1..Len(ptyout) : i > n /\ ptyout[i] = q
  <2>1. PICK i \in 1..Len(ptyout) : i > n /\ ptyout[i] = q
    BY <1>7
  <2>. DEFINE j == i - n
  <2>2. Len(ptyout') = Len(ptyout) - n /\ \A k \in 1..Len(ptyout') : ptyout'[k] = ptyout[n + k]
    BY <1>3 DEF ReadIs
  <2>3. j \in 1..Len(ptyout') /\ n + j = i
    BY <1>4, <2>1, <2>2
  <2>. HIDE DEF j
  <2>4. ptyout'[j] = q
    BY <2>1, <2>2, <2>3
  <2>. QED  BY <2>3, <2>4 DEF Somewhere
<1>8. CASE \E k \in 1..Len(qs) : qs[k] = q
  <2>1. PICK k \in 1..Len(qs) : qs[k] = q
    BY <1>8
  <2>2. qs # <<>>
    BY <2>1
  <2>3. CASE answer' = more
    <3>1. /\ more \in Seq(Byte)
          /\ \A l \in 1..Len(qs) : \E i \in 1..Len(more) : more[i].by = -qs[l]
      BY <1>4, AnswersAre
    <3>. HIDE DEF more
    <3>2. PICK i \in 1..Len(more) : more[i].by = -q
      BY <2>1, <3>1
    <3>3. \E l \in 1..Len(Stream \o more) : (Stream \o more)[l] = more[i]
      BY <1>5, <3>1, ConcatHas
    <3>4. Written' = Stream \o more
      BY <1>5, <2>3 DEF Written
    <3>5. \E l \in 1..Len(Written') : Written'[l].by = -q
      BY <3>2, <3>3, <3>4
    <3>. QED  BY <3>5 DEF Somewhere
  <2>4. CASE deferred' = Newest(qs, MaxDeferred)
    <3>. DEFINE left == Newest(qs, MaxDeferred)
                T == 1..asked
    <3>1. \E d \in 0..Len(qs) : /\ Len(left) = Len(qs) - d
                                /\ \A l \in 1..Len(qs) - d : left[l] = qs[d + l]
                                /\ d > 0 => Len(left) = MaxDeferred
      <4>. HIDE DEF T
      <4>1. qs \in Seq(T)
        BY <1>4 DEF T
      <4>. QED  BY <1>4, <4>1, NewestOK
    <3>. HIDE DEF left
    <3>2. PICK d \in 0..Len(qs) : /\ Len(left) = Len(qs) - d
                                  /\ \A l \in 1..Len(qs) - d : left[l] = qs[d + l]
                                  /\ d > 0 => Len(left) = MaxDeferred
      BY <3>1
    <3>3. deferred' = left
      BY <2>4 DEF left
    <3>4. CASE k > d
      <4>. DEFINE l == k - d
      <4>1. l \in 1..Len(qs) - d /\ d + l = k
        BY <1>4, <2>1, <3>4
      <4>. HIDE DEF l
      <4>2. l \in 1..Len(left) /\ left[l] = q
        BY <2>1, <3>2, <4>1
      <4>. QED  BY <3>3, <4>2 DEF Somewhere
    <3>5. CASE ~(k > d)
      <4>1. d > 0 /\ Len(left) = MaxDeferred
        BY <1>4, <3>2, <3>5
      <4>2. ASSUME NEW l \in 1..MaxDeferred PROVE left[l] > q
        <5>1. l \in 1..Len(qs) - d /\ d + l \in 1..Len(qs) /\ k < d + l
          BY <1>4, <3>2, <3>5, <4>1, SMTT(30)
        <5>2. left[l] = qs[d + l]
          BY <3>2, <5>1
        <5>3. qs[k] < qs[d + l]
          BY <1>4, <5>1 DEF Ascending
        <5>4. qs[d + l] \in Nat
          BY <1>4, <5>1
        <5>. QED  BY <1>4, <2>1, <5>2, <5>3, <5>4
      <4>. QED  BY <3>3, <4>1, <4>2 DEF Forgotten
    <3>. QED  BY <3>4, <3>5
  <2>. QED  BY <1>2, <2>2, <2>3, <2>4
<1>9. CASE \E i \in 1..Len(deferred) : deferred[i] = q
  BY <1>3, <1>8, <1>9 DEF ReadIs
<1>10. CASE \E i \in 1..Len(ptyout) : ~(i > n) /\ ptyout[i] = q
  <2>1. PICK i \in 1..Len(ptyout) : ~(i > n) /\ ptyout[i] = q
    BY <1>10
  <2>2. i \in 1..n /\ ptyout[i] # 0
    BY <1>4, <2>1
  <2>3. \E k \in 1..Len(qs) : qs[k] = ptyout[i]
    BY <1>3, <2>2 DEF ReadIs
  <2>. QED  BY <1>8, <2>1, <2>3
<1>. QED  BY <1>6, <1>7, <1>9, <1>10 DEF Somewhere

\* Any other step loses none.
LEMMA OthersLoseNone ==
  ASSUME IInv, [Next]_vars, \A n \in 1..OutSize : ~ReaderRead(n), NEW q \in Nat,
         Somewhere(ptyout, deferred, Written, q)
  PROVE  Somewhere(ptyout', deferred', Written', q)
<1>1. TypeOK
  BY DEF IInv
<1>2. /\ received \in Seq(Byte) /\ ptyin \in Seq(Byte) /\ job \in Seq(Byte) /\ answer \in Seq(Byte)
      /\ Stream \in Seq(Byte) /\ Written \in Seq(Byte)
  BY <1>1 DEF TypeOK, Stream, Written
<1>3. CASE UNCHANGED <<ptyout, deferred, received, ptyin, answer>>
  <2>1. Written' = Written
    BY <1>3 DEF Written, Stream
  <2>. QED  BY <1>3, <2>1 DEF Somewhere
<1>4. CASE JobWrite
  <2>1. answer = <<>>
    BY <1>1, <1>4 DEF TypeOK, JobWrite
  <2>. DEFINE h == Head(job)
  <2>2. /\ job # <<>> /\ ptyin' = Append(ptyin, h) /\ UNCHANGED <<received, ptyout, deferred, answer>>
    BY <1>4 DEF JobWrite
  <2>3. h \in Byte
    BY <1>2, <2>2, ConcatHead
  <2>. HIDE DEF h
  <2>4. Stream' = Append(Stream, h)
    BY <1>2, <2>2, <2>3, ConcatAppend DEF Stream
  <2>5. Written = Stream
    BY <1>2, <2>1, ConcatEmptySeq DEF Written
  <2>6. Written' = Append(Stream, h)
    <3>1. Append(Stream, h) \in Seq(Byte)
      BY <1>2, <2>3
    <3>2. Append(Stream, h) \o <<>> = Append(Stream, h)
      BY <3>1, ConcatEmptySeq
    <3>. QED  BY <2>1, <2>2, <2>4, <3>2 DEF Written
  <2>7. \A i \in 1..Len(Written) : i \in 1..Len(Written') /\ Written'[i] = Written[i]
    <3>1. \A i \in 1..Len(Stream) : i \in 1..Len(Append(Stream, h)) /\ Append(Stream, h)[i] = Stream[i]
      BY <1>2, <2>3
    <3>. QED  BY <2>5, <2>6, <3>1
  <2>. QED  BY <2>2, <2>7 DEF Somewhere
<1>5. CASE AppRead
  <2>1. /\ ptyin # <<>> /\ received' = Append(received, Head(ptyin)) /\ ptyin' = Tail(ptyin)
        /\ UNCHANGED <<ptyout, deferred, answer>>
    BY <1>5 DEF AppRead
  <2>2. Append(received, Head(ptyin)) \o Tail(ptyin) = received \o ptyin
    BY <1>2, <2>1, ConcatHead, SMTT(30)
  <2>3. Written' = Written
    BY <2>1, <2>2 DEF Written, Stream
  <2>. QED  BY <2>1, <2>3 DEF Somewhere
<1>6. CASE ReaderWrite
  <2>1. /\ answer # <<>> /\ ptyin' = Append(ptyin, Head(answer)) /\ answer' = Tail(answer)
        /\ UNCHANGED <<received, ptyout, deferred>>
    BY <1>6 DEF ReaderWrite
  <2>2. (received \o Append(ptyin, Head(answer))) \o Tail(answer) = (received \o ptyin) \o answer
    <3>1. received \in Seq(Byte) /\ ptyin \in Seq(Byte) /\ answer \in Seq(Byte) /\ answer # <<>>
      BY <1>2, <2>1
    <3>. QED  BY <3>1, HeadMoves
  <2>3. Written' = Written
    BY <2>1, <2>2 DEF Written, Stream
  <2>. QED  BY <2>1, <2>3 DEF Somewhere
<1>7. CASE AppAsk \/ AppPrint
  <2>1. PICK e \in Nat : ptyout' = Append(ptyout, e)
    <3>1. asked + 1 \in Nat /\ 0 \in Nat
      BY <1>1, Numbers
    <3>. QED  BY <1>7, <3>1 DEF AppAsk, AppPrint
  <2>2. UNCHANGED <<received, ptyin, deferred, answer>>
    BY <1>7 DEF AppAsk, AppPrint
  <2>3. Written' = Written
    BY <2>2 DEF Written, Stream
  <2>4. \A i \in 1..Len(ptyout) : i \in 1..Len(ptyout') /\ ptyout'[i] = ptyout[i]
    <3>. DEFINE T == 0..asked
    <3>1. ptyout \in Seq(T)
      BY <1>1, Numbers
    <3>. HIDE DEF T
    <3>2. Len(ptyout') = Len(ptyout) + 1 /\ Len(ptyout) \in Nat
      BY <2>1, <3>1
    <3>3. \A i \in 1..Len(ptyout) : Append(ptyout, e)[i] = ptyout[i]
      BY <3>1
    <3>. QED  BY <2>1, <3>2, <3>3
  <2>. QED  BY <2>2, <2>3, <2>4 DEF Somewhere
<1>8. \/ UNCHANGED <<ptyout, deferred, received, ptyin, answer>>
      \/ JobWrite \/ AppRead \/ ReaderWrite \/ AppAsk \/ AppPrint
  BY DEF Next, vars, Type, ReadStdin, EndOfInput, Serve, JobLock, serverVars
<1>. QED  BY <1>3, <1>4, <1>5, <1>6, <1>7, <1>8

LEMMA LosesOnlyOldest ==
  ASSUME IInv, IInv', [Next]_vars
  PROVE  \A q \in 1..asked : q \in Alive /\ q \notin Alive' =>
           Len(deferred') = MaxDeferred /\ \A i \in 1..MaxDeferred : deferred'[i] > q
<1>1. TypeOK /\ TypeOK'
  BY DEF IInv
<1>2. SUFFICES ASSUME NEW q \in 1..asked, q \in Alive, q \notin Alive' PROVE Forgotten(q)
  BY DEF Forgotten
<1>3. q \in Nat
  BY <1>1, Numbers
<1>4. Somewhere(ptyout, deferred, Written, q) /\ ~Somewhere(ptyout', deferred', Written', q)
  BY <1>1, <1>2, <1>3, AliveIs, AliveIsNext
<1>5. PICK n \in 1..OutSize : ReaderRead(n)
  BY <1>3, <1>4, OthersLoseNone
<1>. QED  BY <1>4, <1>5, ReaderReadLoses

\* persistent_reader_loop with deferred_responses: the answers to DA and DSR are
\* written in the order of the queries and once each, and one is lost only by
\* MAX_DEFERRED, when the queue is full of later ones.
THEOREM AnswersKeptHolds == Spec => AnswersKept
<1>1. IInv /\ IInv' /\ [Next]_vars =>
        [\A q \in 1..asked : q \in Alive /\ q \notin Alive' =>
          Len(deferred') = MaxDeferred /\ \A i \in 1..MaxDeferred : deferred'[i] > q]_vars
  BY LosesOnlyOldest
<1>. QED  BY <1>1, Invariance, OrderFollows, PTL DEF Spec, AnswersKept
=============================================================================
