----------------------------- MODULE MuxProofs -----------------------------
(***************************************************************************)
(* Proofs about Mux, for any number of streams, any windows and any cell   *)
(* size: the scheduler of take and the conservation of credit.             *)
(***************************************************************************)
EXTENDS Mux, FiniteSetTheorems, WellFoundedInduction, TLAPS

-----------------------------------------------------------------------------
(* Totals of sequences of numbers. *)

\* Every set of natural numbers has a least one ...
LEMMA LeastNat ==
  ASSUME NEW S \in SUBSET Nat, S # {}
  PROVE  \E n \in S : \A m \in S : n <= m
<1> DEFINE R == OpToRel(<, Nat)
<1>1. IsWellFoundedOn(R, Nat)
  BY NatLessThanWellFounded
<1>2. \A x, y \in Nat : x < y => <<x, y>> \in R
  BY DEF OpToRel
<1> HIDE DEF R
<1>3. \E x \in S : \A y \in S : ~(<<y, x>> \in R)
  BY <1>1, WFMin, Zenon
<1>4. PICK n \in S : \A y \in S : ~(<<y, n>> \in R)
  BY <1>3
<1>5. \A m \in S : n <= m
  <2> TAKE m \in S
  <2>1. m \in Nat /\ n \in Nat
    BY <1>4
  <2>2. ~(m < n)
    BY <1>2, <1>4, <2>1
  <2> QED BY <2>1, <2>2
<1> QED
  BY <1>4, <1>5

\* ... which is induction over the natural numbers, for sets.
LEMMA Induction ==
  ASSUME NEW S, 0 \in S, \A n \in Nat : n \in S => n + 1 \in S
  PROVE  \A n \in Nat : n \in S
<1> DEFINE T == Nat \ S
<1>1. SUFFICES ASSUME T # {} PROVE FALSE
  OBVIOUS
<1>2. PICK n \in T : \A m \in T : n <= m
  BY <1>1, LeastNat
<1>3. n # 0 /\ n - 1 \in Nat /\ n - 1 \notin T
  BY <1>2
<1> QED
  BY <1>2, <1>3

LEMMA ItemIsNat == ASSUME NEW s \in Seq(Nat), NEW k \in 1..Len(s) PROVE s[k] \in Nat
  OBVIOUS

\* f holds the sums of the first items of s.
Sums(s, n, f) == f[0] = 0 /\ \A k \in 1..n : f[k] = f[k - 1] + s[k]

\* Every sequence has its sums, and only one.
LEMMA SumsExist ==
  ASSUME NEW s \in Seq(Nat)
  PROVE  \A n \in 0..Len(s) : \E f \in [0..n -> Nat] : Sums(s, n, f)
<1> DEFINE P == {n \in Nat : n <= Len(s) => \E f \in [0..n -> Nat] : Sums(s, n, f)}
<1>1. 0 \in P
  <2> DEFINE g == [k \in 0..0 |-> 0]
  <2>1. g \in [0..0 -> Nat] /\ Sums(s, 0, g)
    BY DEF Sums
  <2> QED BY <2>1
<1>2. \A n \in Nat : n \in P => n + 1 \in P
  <2>0. SUFFICES ASSUME NEW n \in Nat, n \in P PROVE n + 1 \in P
    OBVIOUS
  <2> SUFFICES ASSUME n + 1 <= Len(s) PROVE \E f \in [0..(n + 1) -> Nat] : Sums(s, n + 1, f)
    OBVIOUS
  <2>1. PICK f \in [0..n -> Nat] : Sums(s, n, f)
    BY <2>0, Len(s) \in Nat
  <2> DEFINE g == [k \in 0..(n + 1) |-> IF k = n + 1 THEN f[n] + s[n + 1] ELSE f[k]]
  <2>2. s[n + 1] \in Nat /\ f[n] \in Nat
    BY <2>1
  <2>3. g \in [0..(n + 1) -> Nat]
    BY <2>1, <2>2
  <2>4. g[0] = 0 /\ g[n + 1] = f[n] + s[n + 1] /\ \A k \in 0..n : g[k] = f[k]
    BY <2>1 DEF Sums
  <2> HIDE DEF g
  <2>5. ASSUME NEW k \in 1..(n + 1) PROVE g[k] = g[k - 1] + s[k]
    <3>1. CASE k = n + 1
      BY <2>4, <3>1
    <3>2. CASE k \in 1..n
      <4>1. k \in 0..n /\ k - 1 \in 0..n
        BY <3>2
      <4> QED BY <2>1, <2>4, <3>2, <4>1 DEF Sums
    <3> QED BY <3>1, <3>2
  <2> QED BY <2>3, <2>4, <2>5 DEF Sums
<1> HIDE DEF P
<1>3. \A m \in Nat : m \in P
  BY <1>1, <1>2, Induction
<1> QED BY <1>3 DEF P

LEMMA SumsAgree ==
  ASSUME NEW s, NEW n \in Nat, NEW f, NEW g, Sums(s, n, f), Sums(s, n, g)
  PROVE  f[n] = g[n]
<1> DEFINE P == {m \in Nat : m <= n => f[m] = g[m]}
<1>1. 0 \in P
  BY DEF Sums
<1>2. \A m \in Nat : m \in P => m + 1 \in P
  <2>0. SUFFICES ASSUME NEW m \in Nat, m \in P PROVE m + 1 \in P
    OBVIOUS
  <2> SUFFICES ASSUME m + 1 <= n PROVE f[m + 1] = g[m + 1]
    OBVIOUS
  <2>1. m + 1 \in 1..n /\ (m + 1) - 1 = m /\ f[m] = g[m]
    BY <2>0
  <2> QED BY <2>1 DEF Sums
<1> HIDE DEF P
<1>4. \A m \in Nat : m \in P
  BY <1>1, <1>2, Induction
<1> QED BY <1>4 DEF P

\* The recursive definition has its value.
LEMMA TotalSums ==
  ASSUME NEW s \in Seq(Nat)
  PROVE  \E f \in [0..Len(s) -> Nat] : Sums(s, Len(s), f) /\ Total(s) = f[Len(s)]
<1> DEFINE sum == CHOOSE f : f = [k \in 0..Len(s) |-> IF k = 0 THEN 0 ELSE f[k - 1] + s[k]]
<1>1. PICK f \in [0..Len(s) -> Nat] : Sums(s, Len(s), f)
  BY SumsExist
<1>2. f = [k \in 0..Len(s) |-> IF k = 0 THEN 0 ELSE f[k - 1] + s[k]]
  BY <1>1 DEF Sums
<1>3. sum = [k \in 0..Len(s) |-> IF k = 0 THEN 0 ELSE sum[k - 1] + s[k]]
  BY <1>2
<1>4. Total(s) = sum[Len(s)]
  BY DEF Total
<1> HIDE DEF sum
<1>5. Sums(s, Len(s), sum)
  BY <1>3, SMTT(40) DEF Sums
<1> QED BY <1>1, <1>4, <1>5, SumsAgree

LEMMA TotalIsNat == ASSUME NEW s \in Seq(Nat) PROVE Total(s) \in Nat
  BY TotalSums

LEMMA TotalEmpty == Total(<<>>) = 0
<1>1. <<>> \in Seq(Nat) /\ Len(<<>>) = 0
  OBVIOUS
<1> QED BY <1>1, TotalSums DEF Sums

\* One item more at the end of s, which makes t.
LEMMA TotalAppend ==
  ASSUME NEW s \in Seq(Nat), NEW t \in Seq(Nat), Len(t) = Len(s) + 1,
         \A k \in 1..Len(s) : t[k] = s[k]
  PROVE  Total(t) = Total(s) + t[Len(t)]
<1>1. PICK f \in [0..Len(s) -> Nat] : Sums(s, Len(s), f) /\ Total(s) = f[Len(s)]
  BY TotalSums
<1>2. PICK g \in [0..Len(t) -> Nat] : Sums(t, Len(t), g) /\ Total(t) = g[Len(t)]
  BY TotalSums
<1>3. Len(s) \in Nat /\ Len(t) \in 1..Len(t) /\ Len(t) - 1 = Len(s)
  OBVIOUS
<1>4. Sums(s, Len(s), g)
  BY <1>2, <1>3 DEF Sums
<1>5. f[Len(s)] = g[Len(s)]
  BY <1>1, <1>3, <1>4, SumsAgree
<1> QED BY <1>1, <1>2, <1>3, <1>5 DEF Sums

\* The first item of s taken off, which makes t.
LEMMA TotalTail ==
  ASSUME NEW s \in Seq(Nat), NEW t \in Seq(Nat), Len(s) = Len(t) + 1,
         \A k \in 1..Len(t) : t[k] = s[k + 1]
  PROVE  Total(s) = s[1] + Total(t)
<1>1. PICK f \in [0..Len(s) -> Nat] : Sums(s, Len(s), f) /\ Total(s) = f[Len(s)]
  BY TotalSums
<1>2. PICK g \in [0..Len(t) -> Nat] : Sums(t, Len(t), g) /\ Total(t) = g[Len(t)]
  BY TotalSums
<1> DEFINE P == {m \in Nat : m <= Len(t) => f[m + 1] = s[1] + g[m]}
<1>3. s[1] \in Nat /\ Len(t) \in Nat
  OBVIOUS
<1>4. 0 \in P
  BY <1>1, <1>2, <1>3 DEF Sums
<1>5. \A m \in Nat : m \in P => m + 1 \in P
  <2>0. SUFFICES ASSUME NEW m \in Nat, m \in P PROVE m + 1 \in P
    OBVIOUS
  <2> SUFFICES ASSUME m + 1 <= Len(t) PROVE f[(m + 1) + 1] = s[1] + g[m + 1]
    OBVIOUS
  <2>1. /\ m + 1 \in 1..Len(t) /\ (m + 1) - 1 = m /\ m \in 0..Len(t)
        /\ (m + 1) + 1 \in 1..Len(s) /\ ((m + 1) + 1) - 1 = m + 1
    BY <1>3, SMTT(40)
  <2>2. g[m + 1] = g[(m + 1) - 1] + t[m + 1]
    BY <1>2, <2>1 DEF Sums
  <2>6. g[m] \in Nat /\ t[m + 1] \in Nat
    BY <2>1, ItemIsNat
  <2>3. f[(m + 1) + 1] = f[m + 1] + s[(m + 1) + 1]
    BY <1>1, <2>1 DEF Sums
  <2>4. f[m + 1] = s[1] + g[m]
    BY <1>3, <2>0, <2>1
  <2>5. s[(m + 1) + 1] = t[m + 1]
    BY <2>1
  <2> HIDE DEF P
  <2>7. f[(m + 1) + 1] = (s[1] + g[m]) + t[m + 1] /\ g[m + 1] = g[m] + t[m + 1]
    BY <2>1, <2>2, <2>3, <2>4, <2>5
  <2> QED BY <1>3, <2>6, <2>7, SMTT(40)
<1> HIDE DEF P
<1>7. \A m \in Nat : m \in P
  BY <1>4, <1>5, Induction
<1>8. f[Len(t) + 1] = s[1] + g[Len(t)]
  <2>1. Len(t) \in P
    BY <1>3, <1>7
  <2> QED BY <1>3, <2>1 DEF P
<1> QED BY <1>1, <1>2, <1>8

\* No item exceeds the total.
LEMMA TotalBounds ==
  ASSUME NEW s \in Seq(Nat), NEW k \in 1..Len(s)
  PROVE  s[k] <= Total(s)
<1>1. PICK f \in [0..Len(s) -> Nat] : Sums(s, Len(s), f) /\ Total(s) = f[Len(s)]
  BY TotalSums
<1> DEFINE P == {m \in Nat : m <= Len(s) /\ k <= m => s[k] <= f[m]}
<1>2. s[k] \in Nat /\ Len(s) \in Nat
  OBVIOUS
<1>3. 0 \in P
  OBVIOUS
<1>4. \A m \in Nat : m \in P => m + 1 \in P
  <2>0. SUFFICES ASSUME NEW m \in Nat, m \in P PROVE m + 1 \in P
    OBVIOUS
  <2> SUFFICES ASSUME m + 1 <= Len(s), k <= m + 1 PROVE s[k] <= f[m + 1]
    OBVIOUS
  <2>1. m + 1 \in 1..Len(s) /\ (m + 1) - 1 = m /\ m \in 0..Len(s)
    BY <1>2
  <2>3. f[m + 1] = f[(m + 1) - 1] + s[m + 1]
    BY <1>1, <2>1 DEF Sums
  <2>2. f[m + 1] = f[m] + s[m + 1] /\ f[m] \in Nat /\ s[m + 1] \in Nat
    BY <2>1, <2>3, ItemIsNat
  <2> QED BY <1>2, <2>0, <2>1, <2>2
<1> HIDE DEF P
<1>6. \A m \in Nat : m \in P
  BY <1>3, <1>4, Induction
<1> QED BY <1>1, <1>2, <1>6 DEF P

LEMMA TotalZero ==
  ASSUME NEW s \in Seq(Nat), \A k \in 1..Len(s) : s[k] = 0
  PROVE  Total(s) = 0
<1>1. PICK f \in [0..Len(s) -> Nat] : Sums(s, Len(s), f) /\ Total(s) = f[Len(s)]
  BY TotalSums
<1> DEFINE P == {m \in Nat : m <= Len(s) => f[m] = 0}
<1>3. 0 \in P
  BY <1>1 DEF Sums
<1>4. \A m \in Nat : m \in P => m + 1 \in P
  <2>0. SUFFICES ASSUME NEW m \in Nat, m \in P PROVE m + 1 \in P
    OBVIOUS
  <2> SUFFICES ASSUME m + 1 <= Len(s) PROVE f[m + 1] = 0
    OBVIOUS
  <2>1. m + 1 \in 1..Len(s) /\ (m + 1) - 1 = m /\ m \in 0..Len(s)
    OBVIOUS
  <2> QED BY <1>1, <2>0, <2>1 DEF Sums
<1> HIDE DEF P
<1>6. \A m \in Nat : m \in P
  BY <1>3, <1>4, Induction
<1> QED BY <1>1, <1>6 DEF P
-----------------------------------------------------------------------------
(* Types, and the operators of the model. *)

Kinds == {"OPEN", "OPENED", "DATA", "FIN", "CREDIT", "RESET"}
Frames == [kind : Kinds, stream : Ids, sequence : Nat, len : Nat]
Chunks == [sequence : Nat, len : Nat]

LEMMA MinOfTwo ==
  ASSUME NEW a \in Nat, NEW b \in Nat
  PROVE  Min({a, b}) \in {a, b} /\ Min({a, b}) <= a /\ Min({a, b}) <= b
<1>1. \E x \in {a, b} : \A y \in {a, b} : x <= y
  OBVIOUS
<1> QED BY <1>1 DEF Min

LEMMA MinOfThree ==
  ASSUME NEW a \in Nat, NEW b \in Nat, NEW c \in Nat
  PROVE  LET m == Min({a, b, c}) IN m \in {a, b, c} /\ m <= a /\ m <= b /\ m <= c
<1>1. \E x \in {a, b, c} : \A y \in {a, b, c} : x <= y
  OBVIOUS
<1> QED BY <1>1 DEF Min

LEMMA MaxOfTwo ==
  ASSUME NEW a \in Int, NEW b \in Int
  PROVE  Max({a, b}) = IF a >= b THEN a ELSE b
<1>1. \E x \in {a, b} : \A y \in {a, b} : x >= y
  OBVIOUS
<1>2. Max({a, b}) \in {a, b} /\ Max({a, b}) >= a /\ Max({a, b}) >= b
  BY <1>1 DEF Max
<1> QED BY <1>2

\* What a frame counts for.
Weight(f, kind, i) == IF f.kind = kind /\ f.stream = i THEN f.len ELSE 0
Weights(w, kind, i) == [k \in 1..Len(w) |-> Weight(w[k], kind, i)]

LEMMA WeightsAreNat ==
  ASSUME NEW w \in Seq(Frames), NEW kind, NEW i
  PROVE  /\ Weights(w, kind, i) \in Seq(Nat) /\ Len(Weights(w, kind, i)) = Len(w)
         /\ \A k \in 1..Len(w) : Weights(w, kind, i)[k] = Weight(w[k], kind, i)
<1>1. ASSUME NEW k \in 1..Len(w) PROVE Weight(w[k], kind, i) \in Nat
  <2>1. w[k] \in Frames
    OBVIOUS
  <2> QED BY <2>1 DEF Frames, Weight
<1>2. Len(w) \in Nat
  OBVIOUS
<1> QED BY <1>1, <1>2 DEF Weights

LEMMA CarriedWeights ==
  ASSUME NEW w, NEW kind, NEW i
  PROVE  Carried(w, kind, i) = Total(Weights(w, kind, i))
  BY DEF Carried, Weights, Weight

LEMMA CarriedIsNat ==
  ASSUME NEW w \in Seq(Frames), NEW kind, NEW i PROVE Carried(w, kind, i) \in Nat
  BY CarriedWeights, WeightsAreNat, TotalIsNat

LEMMA CarriedNone ==
  ASSUME NEW w \in Seq(Frames), NEW kind, NEW i,
         \A k \in 1..Len(w) : ~(w[k].kind = kind /\ w[k].stream = i)
  PROVE  Carried(w, kind, i) = 0
<1>1. \A k \in 1..Len(w) : Weight(w[k], kind, i) = 0
  BY DEF Weight
<1> QED BY <1>1, CarriedWeights, WeightsAreNat, TotalZero

LEMMA CarriedAppend ==
  ASSUME NEW w \in Seq(Frames), NEW f \in Frames, NEW kind, NEW i
  PROVE  Carried(Append(w, f), kind, i) = Carried(w, kind, i) + Weight(f, kind, i)
<1> DEFINE v == Append(w, f)
           s == Weights(w, kind, i)
           t == Weights(v, kind, i)
<1>1. /\ v \in Seq(Frames) /\ Len(v) = Len(w) + 1 /\ v[Len(v)] = f
      /\ \A k \in 1..Len(w) : v[k] = w[k] /\ k \in 1..Len(v)
      /\ Len(v) \in 1..Len(v)
  OBVIOUS
<1> HIDE DEF v
<1>2. /\ s \in Seq(Nat) /\ Len(s) = Len(w)
      /\ \A k \in 1..Len(w) : s[k] = Weight(w[k], kind, i)
  BY WeightsAreNat
<1>3. /\ t \in Seq(Nat) /\ Len(t) = Len(v)
      /\ \A k \in 1..Len(v) : t[k] = Weight(v[k], kind, i)
  BY <1>1, WeightsAreNat
<1> HIDE DEF s, t
<1>4. t[Len(t)] = Weight(f, kind, i)
  BY <1>1, <1>3
<1>5. Len(t) = Len(s) + 1 /\ \A k \in 1..Len(s) : t[k] = s[k]
  BY <1>1, <1>2, <1>3
<1>6. Total(t) = Total(s) + t[Len(t)]
  BY <1>2, <1>3, <1>5, TotalAppend
<1> QED BY <1>4, <1>6, CarriedWeights DEF s, t, v

LEMMA CarriedTail ==
  ASSUME NEW w \in Seq(Frames), w # <<>>, NEW kind, NEW i
  PROVE  Carried(w, kind, i) = Weight(Head(w), kind, i) + Carried(Tail(w), kind, i)
<1> DEFINE v == Tail(w)
           s == Weights(w, kind, i)
           t == Weights(v, kind, i)
<1>1. /\ v \in Seq(Frames) /\ Len(w) = Len(v) + 1 /\ w[1] = Head(w)
      /\ \A k \in 1..Len(v) : v[k] = w[k + 1] /\ k + 1 \in 1..Len(w)
      /\ 1 \in 1..Len(w)
  OBVIOUS
<1> HIDE DEF v
<1>2. /\ s \in Seq(Nat) /\ Len(s) = Len(w)
      /\ \A k \in 1..Len(w) : s[k] = Weight(w[k], kind, i)
  BY WeightsAreNat
<1>3. /\ t \in Seq(Nat) /\ Len(t) = Len(v)
      /\ \A k \in 1..Len(v) : t[k] = Weight(v[k], kind, i)
  BY <1>1, WeightsAreNat
<1> HIDE DEF s, t
<1>4. s[1] = Weight(Head(w), kind, i)
  BY <1>1, <1>2
<1>5. Len(s) = Len(t) + 1 /\ \A k \in 1..Len(t) : t[k] = s[k + 1]
  BY <1>1, <1>2, <1>3
<1>6. Total(s) = s[1] + Total(t)
  BY <1>2, <1>3, <1>5, TotalTail
<1> QED BY <1>4, <1>6, CarriedWeights DEF s, t, v

LEMMA CarriedBounds ==
  ASSUME NEW w \in Seq(Frames), NEW k \in 1..Len(w)
  PROVE  w[k].len <= Carried(w, w[k].kind, w[k].stream)
<1> DEFINE s == Weights(w, w[k].kind, w[k].stream)
<1>1. s \in Seq(Nat) /\ k \in 1..Len(s) /\ s[k] = w[k].len
  BY WeightsAreNat DEF Weight
<1> HIDE DEF s
<1>2. s[k] <= Total(s)
  BY <1>1, TotalBounds
<1> QED BY <1>1, <1>2, CarriedWeights DEF s
StreamRecords ==
  [cancelled : BOOLEAN, conn : {"none", "dialing", "open", "closed"},
   reader : {"none", "reading", "done"},
   writer : {"none", "idle", "wait", "data", "fin", "done"},
   input : Nat, inputFin : BOOLEAN, inputReady : BOOLEAN, writing : Nat,
   hand : Nat, output : Seq(Chunks), pending : Seq(Chunks),
   open : BOOLEAN, late : BOOLEAN, ack : BOOLEAN, reset : BOOLEAN,
   credit : Nat, budget : Nat, grant : Nat, nextIn : Nat, nextOut : Nat,
   remoteFin : BOOLEAN, remoteFinWritten : BOOLEAN, localFinSent : BOOLEAN]

StreamTables == [Ends -> [Ids -> StreamRecords]]

Shapes ==
  /\ scene \in Scenes
  /\ streams \in [Ends -> SUBSET Ids] /\ st \in StreamTables
  /\ order \in [Ends -> Seq(Ids)] /\ cursor \in [Ends -> Nat]
  /\ misses \in [Ends -> Nat] /\ room \in [Ends -> Nat] /\ highest \in [Ends -> 0..MaxId]
  /\ closed \in [Ends -> BOOLEAN] /\ changes \in [Ends -> BOOLEAN]
  /\ carrier \in [Ends -> {"check", "data", "controls", "sleep"}]
  /\ wire \in [Ends -> Seq(Frames)]
  /\ got \in [Ends -> [Ids -> Nat]] /\ put \in [Ends -> [Ids -> Nat]]

\* What the two streams agree in: amounts under flow control, the way out,
\* the way in, what is to be announced, the goroutines.
SameAmounts(s, t) ==
  /\ t.input = s.input /\ t.writing = s.writing
  /\ t.credit = s.credit /\ t.budget = s.budget /\ t.grant = s.grant
SameOut(s, t) ==
  /\ t.hand = s.hand /\ t.output = s.output /\ t.pending = s.pending
  /\ t.nextOut = s.nextOut /\ t.localFinSent = s.localFinSent
SameIn(s, t) ==
  /\ t.inputFin = s.inputFin /\ t.nextIn = s.nextIn
  /\ t.remoteFin = s.remoteFin /\ t.remoteFinWritten = s.remoteFinWritten
SameControl(s, t) == t.open = s.open /\ t.late = s.late /\ t.ack = s.ack
SameReset(s, t) == t.reset = s.reset
SameConn(s, t) == t.cancelled = s.cancelled /\ t.conn = s.conn
SameReader(s, t) == t.reader = s.reader
SameWriter(s, t) == t.writer = s.writer

LEMMA ClosedStreamKeeps ==
  ASSUME NEW s \in StreamRecords
  PROVE  LET t == ClosedStream(s) IN
         /\ t \in StreamRecords
         /\ SameAmounts(s, t) /\ SameOut(s, t) /\ SameIn(s, t) /\ SameControl(s, t) /\ SameReset(s, t)
         /\ SameReader(s, t) /\ SameWriter(s, t)
         /\ t.cancelled = TRUE /\ t.conn = (IF s.conn = "open" THEN "closed" ELSE s.conn)
<1> DEFINE c == IF s.conn = "open" THEN "closed" ELSE s.conn
<1>1. c \in {"none", "dialing", "open", "closed"}
  BY DEF StreamRecords
<1>2. ClosedStream(s) = [s EXCEPT !.cancelled = TRUE, !.conn = c]
  BY DEF ClosedStream
<1> HIDE DEF c
<1>3. /\ ClosedStream(s) \in StreamRecords /\ ClosedStream(s).cancelled = TRUE
      /\ ClosedStream(s).conn = c
  BY <1>1, <1>2, ZenonT(60) DEF StreamRecords
<1> QED
  BY <1>2, <1>3 DEF StreamRecords, c, SameAmounts, SameOut, SameIn, SameControl, SameReset,
     SameReader, SameWriter
LEMMA FailedStreamKeeps ==
  ASSUME NEW s \in StreamRecords
  PROVE  LET t == FailedStream(s) IN
         /\ t \in StreamRecords
         /\ SameAmounts(s, t) /\ SameOut(s, t) /\ SameIn(s, t) /\ SameControl(s, t)
         /\ SameReader(s, t) /\ SameWriter(s, t)
         /\ t.reset = TRUE /\ t.cancelled = TRUE
         /\ t.conn = (IF s.conn = "open" THEN "closed" ELSE s.conn)
<1> DEFINE r == [s EXCEPT !.reset = TRUE]
<1>1. /\ r \in StreamRecords /\ r.reset = TRUE /\ r.conn = s.conn
      /\ SameAmounts(s, r) /\ SameOut(s, r) /\ SameIn(s, r) /\ SameControl(s, r)
      /\ SameReader(s, r) /\ SameWriter(s, r)
  BY DEF StreamRecords, SameAmounts, SameOut, SameIn, SameControl, SameReader, SameWriter
<1>2. FailedStream(s) = ClosedStream(r)
  BY DEF FailedStream
<1> HIDE DEF r
<1>3. LET t == ClosedStream(r) IN
      /\ t \in StreamRecords
      /\ SameAmounts(r, t) /\ SameOut(r, t) /\ SameIn(r, t) /\ SameControl(r, t) /\ SameReset(r, t)
      /\ SameReader(r, t) /\ SameWriter(r, t)
      /\ t.cancelled = TRUE /\ t.conn = (IF r.conn = "open" THEN "closed" ELSE r.conn)
  BY <1>1, ClosedStreamKeeps
<1> QED
  BY <1>1, <1>2, <1>3 DEF SameAmounts, SameOut, SameIn, SameControl, SameReset, SameReader, SameWriter

\* Only stream i of end p changes.
Moved(p, i) ==
  /\ st' \in StreamTables
  /\ \A e \in Ends, j \in Ids : e # p \/ j # i => st'[e][j] = st[e][j]

LEMMA SetStreamMoves ==
  ASSUME st \in StreamTables, NEW p \in Ends, NEW i \in Ids, NEW s \in StreamRecords, SetStream(p, i, s)
  PROVE  Moved(p, i) /\ st'[p][i] = s
<1>1. st' = [st EXCEPT ![p] = [st[p] EXCEPT ![i] = s]]
  BY DEF SetStream
<1>2. st[p] \in [Ids -> StreamRecords] /\ st[p][i] \in StreamRecords
  BY DEF StreamTables
<1> DEFINE row == [st[p] EXCEPT ![i] = s]
<1>3. row \in [Ids -> StreamRecords] /\ row[i] = s /\ \A j \in Ids : j # i => row[j] = st[p][j]
  BY <1>2
<1> HIDE DEF row
<1>4. st' = [st EXCEPT ![p] = row]
  BY <1>1 DEF row
<1> QED
  BY <1>3, <1>4 DEF Moved, StreamTables

LEMMA OneStream ==
  ASSUME Shapes, NEW p \in Ends, NEW i \in Ids PROVE st[p][i] \in StreamRecords
  BY DEF Shapes, StreamTables

-----------------------------------------------------------------------------
(* What each step does to its stream. *)

LEMMA OpenStream ==
  ASSUME Shapes, NEW i \in Ids, Open(i)
  PROVE  LET t == st'["client"][i] IN
         /\ Moved("client", i)
         /\ SameOut(NoStream, t) /\ SameIn(NoStream, t) /\ t.ack = FALSE /\ t.reset = FALSE
         /\ t.open = TRUE /\ t.late = FALSE /\ t.cancelled = FALSE /\ t.conn = "open"
         /\ t.reader = "reading" /\ t.writer = "idle"
         /\ t.input = 0 /\ t.writing = 0 /\ t.grant = 0
         /\ t.credit = Window("server") /\ t.budget = Window("client")
<1> DEFINE t == [NoStream EXCEPT !.credit = Window("server"), !.budget = Window("client"),
                                 !.open = TRUE, !.conn = "open", !.reader = "reading",
                                 !.writer = "idle"]
<1>1. Window("client") \in Nat /\ Window("server") \in Nat /\ Other("client") = "server"
  BY MuxAssumption DEF Window, Other
<1>2. SetStream("client", i, t)
  BY <1>1 DEF Open, AddStream, AttachedStream, NewStream, NoStream
<1>3. <<>> \in Seq(Chunks)
  OBVIOUS
<1>4. t \in StreamRecords
  BY <1>1, <1>3 DEF StreamRecords, NoStream
<1>5. /\ SameOut(NoStream, t) /\ SameIn(NoStream, t) /\ t.ack = FALSE /\ t.reset = FALSE
      /\ t.open = TRUE /\ t.late = FALSE /\ t.cancelled = FALSE /\ t.conn = "open"
      /\ t.reader = "reading" /\ t.writer = "idle"
      /\ t.input = 0 /\ t.writing = 0 /\ t.grant = 0
      /\ t.credit = Window("server") /\ t.budget = Window("client")
  BY DEF NoStream, SameOut, SameIn
<1> HIDE DEF t
<1>6. Moved("client", i) /\ st'["client"][i] = t
  BY <1>2, <1>4, SetStreamMoves DEF Shapes, Ends
<1> QED BY <1>5, <1>6

LEMMA DialedStream ==
  ASSUME Shapes, NEW i \in Ids, NEW ok \in BOOLEAN, Dialed(i, ok)
  PROVE  LET s == st["server"][i]
             t == st'["server"][i] IN
         /\ s.conn = "dialing" /\ Moved("server", i)
         /\ SameAmounts(s, t) /\ SameOut(s, t) /\ SameIn(s, t) /\ t.open = s.open
         /\ \/ /\ ok /\ ~s.cancelled /\ SameReset(s, t) /\ t.conn = "open" /\ t.reader = "reading"
               /\ t.writer = "idle" /\ t.cancelled = FALSE
            \/ /\ ok /\ s.cancelled /\ SameReset(s, t) /\ t.conn = "closed" /\ t.cancelled = TRUE
               /\ SameReader(s, t) /\ SameWriter(s, t)
            \/ /\ ~ok /\ t.reset = TRUE /\ t.conn = "none" /\ t.cancelled = TRUE
               /\ SameReader(s, t) /\ SameWriter(s, t)
<1> USE DEF SameAmounts, SameOut, SameIn, SameControl, SameReset, SameReader, SameWriter
<1> DEFINE s == st["server"][i]
           z == [s EXCEPT !.conn = "none"]
           y == [z EXCEPT !.ack = TRUE]
           t == IF ok THEN AttachedStream(y) ELSE FailedStream(z)
<1>1. s \in StreamRecords /\ "server" \in Ends
  BY OneStream DEF Ends
<1>2. s.conn = "dialing" /\ SetStream("server", i, t)
  BY DEF Dialed
<1> HIDE DEF s
<1>3. /\ z \in StreamRecords /\ SameAmounts(s, z) /\ SameOut(s, z) /\ SameIn(s, z)
      /\ SameControl(s, z) /\ SameReset(s, z) /\ z.conn = "none" /\ z.cancelled = s.cancelled
      /\ SameReader(s, z) /\ SameWriter(s, z)
  BY <1>1 DEF StreamRecords
<1> HIDE DEF z
<1>4. /\ y \in StreamRecords /\ SameAmounts(z, y) /\ SameOut(z, y) /\ SameIn(z, y)
      /\ y.open = z.open /\ SameReset(z, y) /\ y.conn = "none" /\ y.cancelled = z.cancelled
      /\ SameReader(z, y) /\ SameWriter(z, y)
  BY <1>3 DEF StreamRecords
<1> HIDE DEF y
<1>5. CASE ok /\ ~y.cancelled
  <2> DEFINE u == [y EXCEPT !.conn = "open", !.reader = "reading", !.writer = "idle"]
  <2>1. t = u
    BY <1>5 DEF AttachedStream
  <2>2. /\ u \in StreamRecords /\ SameAmounts(y, u) /\ SameOut(y, u) /\ SameIn(y, u)
        /\ u.open = y.open /\ SameReset(y, u) /\ u.conn = "open" /\ u.cancelled = y.cancelled
        /\ u.reader = "reading" /\ u.writer = "idle"
    BY <1>4 DEF StreamRecords
  <2> HIDE DEF u, t
  <2>3. Moved("server", i) /\ st'["server"][i] = u
    BY <1>1, <1>2, <2>1, <2>2, SetStreamMoves DEF Shapes
  <2>4. s.cancelled = FALSE /\ u.cancelled = FALSE
    BY <1>1, <1>3, <1>4, <1>5, <2>2 DEF StreamRecords
  <2> QED BY <1>2, <1>3, <1>4, <1>5, <2>2, <2>3, <2>4 DEF s
<1>6. CASE ok /\ y.cancelled
  <2> DEFINE u == [y EXCEPT !.conn = "closed"]
  <2>1. t = u
    BY <1>6 DEF AttachedStream
  <2>2. /\ u \in StreamRecords /\ SameAmounts(y, u) /\ SameOut(y, u) /\ SameIn(y, u)
        /\ u.open = y.open /\ SameReset(y, u) /\ u.conn = "closed" /\ u.cancelled = y.cancelled
        /\ SameReader(y, u) /\ SameWriter(y, u)
    BY <1>4 DEF StreamRecords
  <2> HIDE DEF u, t
  <2>3. Moved("server", i) /\ st'["server"][i] = u
    BY <1>1, <1>2, <2>1, <2>2, SetStreamMoves DEF Shapes
  <2>4. s.cancelled = TRUE /\ u.cancelled = TRUE
    BY <1>1, <1>3, <1>4, <1>6, <2>2 DEF StreamRecords
  <2>5. /\ SameAmounts(s, u) /\ SameOut(s, u) /\ SameIn(s, u) /\ u.open = s.open
        /\ SameReader(s, u) /\ SameWriter(s, u) /\ SameReset(s, u)
    BY <1>3, <1>4, <2>2
  <2> QED BY <1>2, <1>6, <2>2, <2>3, <2>4, <2>5 DEF s
<1>7. CASE ~ok
  <2> DEFINE u == FailedStream(z)
  <2>1. t = u
    BY <1>7
  <2>2. /\ u \in StreamRecords /\ SameAmounts(z, u) /\ SameOut(z, u) /\ SameIn(z, u)
        /\ SameControl(z, u) /\ u.reset = TRUE /\ u.conn = "none" /\ u.cancelled = TRUE
        /\ SameReader(z, u) /\ SameWriter(z, u)
    BY <1>3, FailedStreamKeeps
  <2> HIDE DEF u, t
  <2>3. Moved("server", i) /\ st'["server"][i] = u
    BY <1>1, <1>2, <2>1, <2>2, SetStreamMoves DEF Shapes
  <2>4. /\ SameAmounts(s, u) /\ SameOut(s, u) /\ SameIn(s, u) /\ u.open = s.open
        /\ SameReader(s, u) /\ SameWriter(s, u)
    BY <1>3, <2>2
  <2> QED BY <1>2, <1>7, <2>2, <2>3, <2>4 DEF s
<1> QED BY <1>5, <1>6, <1>7
LEMMA ReadDataStream ==
  ASSUME Shapes, NEW p \in Ends, NEW i \in Ids, NEW n \in 1..StreamChunk, ReadData(p, i, n)
  PROVE  LET s == st[p][i]
             t == st'[p][i] IN
         /\ s.reader = "reading" /\ s.conn = "open" /\ s.hand = 0 /\ Moved(p, i)
         /\ SameAmounts(s, t) /\ SameIn(s, t) /\ SameControl(s, t) /\ SameReset(s, t)
         /\ SameConn(s, t) /\ SameReader(s, t) /\ SameWriter(s, t)
         /\ t.hand = n /\ t.output = s.output /\ t.pending = s.pending
         /\ t.nextOut = s.nextOut /\ t.localFinSent = s.localFinSent
<1> USE DEF SameAmounts, SameIn, SameControl, SameReset, SameConn, SameReader, SameWriter
<1> DEFINE s == st[p][i]
           t == [s EXCEPT !.hand = n]
<1>1. s \in StreamRecords /\ n \in Nat
  BY OneStream, MuxAssumption
<1>2. s.reader = "reading" /\ s.conn = "open" /\ s.hand = 0 /\ SetStream(p, i, t)
  BY DEF ReadData
<1> HIDE DEF s
<1>3. /\ t \in StreamRecords
      /\ SameAmounts(s, t) /\ SameIn(s, t) /\ SameControl(s, t) /\ SameReset(s, t)
      /\ SameConn(s, t) /\ SameReader(s, t) /\ SameWriter(s, t)
      /\ t.hand = n /\ t.output = s.output /\ t.pending = s.pending
      /\ t.nextOut = s.nextOut /\ t.localFinSent = s.localFinSent
  BY <1>1 DEF StreamRecords
<1> HIDE DEF t
<1>4. Moved(p, i) /\ st'[p][i] = t
  BY <1>2, <1>3, SetStreamMoves DEF Shapes
<1> QED BY <1>2, <1>3, <1>4 DEF s

LEMMA ReadQueueStream ==
  ASSUME Shapes, NEW p \in Ends, NEW i \in Ids, ReadQueue(p, i)
  PROVE  LET s == st[p][i]
             t == st'[p][i] IN
         /\ s.reader = "reading" /\ s.hand > 0 /\ Moved(p, i)
         /\ SameAmounts(s, t) /\ SameIn(s, t) /\ SameControl(s, t) /\ SameReset(s, t)
         /\ SameConn(s, t) /\ SameReader(s, t) /\ SameWriter(s, t)
         /\ t.hand = 0 /\ t.output = Append(s.output, [sequence |-> s.nextOut, len |-> s.hand])
         /\ t.pending = s.pending /\ t.nextOut = (s.nextOut + s.hand) % Offsets
         /\ t.localFinSent = s.localFinSent
<1> USE DEF SameAmounts, SameIn, SameControl, SameReset, SameConn, SameReader, SameWriter
<1> DEFINE s == st[p][i]
           o == Append(s.output, [sequence |-> s.nextOut, len |-> s.hand])
           n == (s.nextOut + s.hand) % Offsets
           t == [s EXCEPT !.output = o, !.nextOut = n, !.hand = 0]
<1>1. s \in StreamRecords
  BY OneStream
<1>2. s.reader = "reading" /\ s.hand > 0 /\ SetStream(p, i, t)
  BY DEF ReadQueue
<1> HIDE DEF s
<1>3. o \in Seq(Chunks) /\ n \in Nat
  <2>1. s.nextOut \in Nat /\ s.hand \in Nat /\ s.output \in Seq(Chunks)
    BY <1>1 DEF StreamRecords
  <2>2. [sequence |-> s.nextOut, len |-> s.hand] \in Chunks
    BY <2>1 DEF Chunks
  <2>3. o \in Seq(Chunks)
    BY <2>1, <2>2
  <2>4. n \in Nat
    BY <2>1, MuxAssumption
  <2> QED BY <2>3, <2>4
<1> HIDE DEF o, n
<1>4. /\ t \in StreamRecords
      /\ SameAmounts(s, t) /\ SameIn(s, t) /\ SameControl(s, t) /\ SameReset(s, t)
      /\ SameConn(s, t) /\ SameReader(s, t) /\ SameWriter(s, t)
      /\ t.hand = 0 /\ t.output = o /\ t.pending = s.pending
      /\ t.nextOut = n /\ t.localFinSent = s.localFinSent
  BY <1>1, <1>3 DEF StreamRecords
<1> HIDE DEF t
<1>5. Moved(p, i) /\ st'[p][i] = t
  BY <1>2, <1>4, SetStreamMoves DEF Shapes
<1> QED BY <1>2, <1>4, <1>5 DEF s, o, n

LEMMA ReadDropStream ==
  ASSUME Shapes, NEW p \in Ends, NEW i \in Ids, ReadDrop(p, i)
  PROVE  LET s == st[p][i]
             t == st'[p][i] IN
         /\ s.reader = "reading" /\ s.cancelled /\ Moved(p, i)
         /\ SameAmounts(s, t) /\ SameIn(s, t) /\ SameControl(s, t) /\ SameReset(s, t)
         /\ SameConn(s, t) /\ t.reader = "done" /\ SameWriter(s, t)
         /\ t.hand = 0 /\ t.output = s.output /\ t.pending = s.pending
         /\ t.nextOut = s.nextOut /\ t.localFinSent = s.localFinSent
<1> USE DEF SameAmounts, SameIn, SameControl, SameReset, SameConn, SameReader, SameWriter
<1> DEFINE s == st[p][i]
           t == [s EXCEPT !.hand = 0, !.reader = "done"]
<1>1. s \in StreamRecords
  BY OneStream
<1>2. s.reader = "reading" /\ s.cancelled /\ SetStream(p, i, t)
  BY DEF ReadDrop
<1> HIDE DEF s
<1>3. /\ t \in StreamRecords
      /\ SameAmounts(s, t) /\ SameIn(s, t) /\ SameControl(s, t) /\ SameReset(s, t)
      /\ SameConn(s, t) /\ t.reader = "done" /\ SameWriter(s, t)
      /\ t.hand = 0 /\ t.output = s.output /\ t.pending = s.pending
      /\ t.nextOut = s.nextOut /\ t.localFinSent = s.localFinSent
  BY <1>1 DEF StreamRecords
<1> HIDE DEF t
<1>4. Moved(p, i) /\ st'[p][i] = t
  BY <1>2, <1>3, SetStreamMoves DEF Shapes
<1> QED BY <1>2, <1>3, <1>4 DEF s

LEMMA ReadEOFStream ==
  ASSUME Shapes, NEW p \in Ends, NEW i \in Ids, ReadEOF(p, i)
  PROVE  LET s == st[p][i]
             t == st'[p][i] IN
         /\ s.reader = "reading" /\ s.hand = 0 /\ Moved(p, i)
         /\ SameAmounts(s, t) /\ SameIn(s, t) /\ SameControl(s, t) /\ SameReset(s, t)
         /\ SameConn(s, t) /\ t.reader = "done" /\ SameWriter(s, t)
         /\ t.hand = 0 /\ t.output = Append(s.output, [sequence |-> s.nextOut, len |-> 0])
         /\ t.pending = s.pending /\ t.nextOut = s.nextOut /\ t.localFinSent = s.localFinSent
<1> USE DEF SameAmounts, SameIn, SameControl, SameReset, SameConn, SameReader, SameWriter
<1> DEFINE s == st[p][i]
           o == Append(s.output, [sequence |-> s.nextOut, len |-> 0])
           t == [s EXCEPT !.output = o, !.reader = "done"]
<1>1. s \in StreamRecords
  BY OneStream
<1>2. s.reader = "reading" /\ s.hand = 0 /\ SetStream(p, i, t)
  BY DEF ReadEOF
<1> HIDE DEF s
<1>3. o \in Seq(Chunks)
  <2>1. s.nextOut \in Nat /\ s.output \in Seq(Chunks)
    BY <1>1 DEF StreamRecords
  <2>2. [sequence |-> s.nextOut, len |-> 0] \in Chunks
    BY <2>1 DEF Chunks
  <2> QED BY <2>1, <2>2
<1> HIDE DEF o
<1>4. /\ t \in StreamRecords
      /\ SameAmounts(s, t) /\ SameIn(s, t) /\ SameControl(s, t) /\ SameReset(s, t)
      /\ SameConn(s, t) /\ t.reader = "done" /\ SameWriter(s, t)
      /\ t.hand = 0 /\ t.output = o /\ t.pending = s.pending
      /\ t.nextOut = s.nextOut /\ t.localFinSent = s.localFinSent
  BY <1>1, <1>2, <1>3 DEF StreamRecords
<1> HIDE DEF t
<1>5. Moved(p, i) /\ st'[p][i] = t
  BY <1>2, <1>4, SetStreamMoves DEF Shapes
<1> QED BY <1>2, <1>4, <1>5 DEF s, o

LEMMA ReadErrorStream ==
  ASSUME Shapes, NEW p \in Ends, NEW i \in Ids, ReadError(p, i)
  PROVE  LET s == st[p][i]
             t == st'[p][i] IN
         /\ s.reader = "reading" /\ s.hand = 0 /\ Moved(p, i)
         /\ SameAmounts(s, t) /\ SameIn(s, t) /\ SameOut(s, t) /\ SameControl(s, t)
         /\ t.reader = "done" /\ SameWriter(s, t)
         /\ \/ s.cancelled /\ SameConn(s, t) /\ SameReset(s, t)
            \/ /\ ~s.cancelled /\ t.cancelled = TRUE /\ t.reset = TRUE
               /\ t.conn = (IF s.conn = "open" THEN "closed" ELSE s.conn)
<1> USE DEF SameAmounts, SameOut, SameIn, SameControl, SameReset, SameConn, SameReader, SameWriter
<1> DEFINE s == st[p][i]
           u == [s EXCEPT !.reader = "done"]
           t == IF u.cancelled THEN u ELSE FailedStream(u)
<1>1. s \in StreamRecords
  BY OneStream
<1>2. s.reader = "reading" /\ u.hand = 0 /\ SetStream(p, i, t)
  BY DEF ReadError
<1> HIDE DEF s
<1>3. /\ u \in StreamRecords
      /\ SameAmounts(s, u) /\ SameIn(s, u) /\ SameOut(s, u) /\ SameControl(s, u) /\ SameReset(s, u)
      /\ SameConn(s, u) /\ u.reader = "done" /\ SameWriter(s, u)
  BY <1>1 DEF StreamRecords
<1> HIDE DEF u
<1>4. LET v == FailedStream(u) IN
      /\ v \in StreamRecords
      /\ SameAmounts(u, v) /\ SameIn(u, v) /\ SameOut(u, v) /\ SameControl(u, v)
      /\ v.reset = TRUE /\ v.cancelled = TRUE /\ SameReader(u, v) /\ SameWriter(u, v)
      /\ v.conn = (IF u.conn = "open" THEN "closed" ELSE u.conn)
  BY <1>3, FailedStreamKeeps
<1>5. t \in StreamRecords
  BY <1>3, <1>4
<1>6. Moved(p, i) /\ st'[p][i] = t
  <2> HIDE DEF t
  <2> QED BY <1>2, <1>5, SetStreamMoves DEF Shapes
<1>7. CASE u.cancelled
  BY <1>2, <1>3, <1>6, <1>7 DEF s
<1>8. CASE ~u.cancelled
  <2>1. t = FailedStream(u)
    BY <1>8
  <2>2. /\ SameAmounts(s, t) /\ SameIn(s, t) /\ SameOut(s, t) /\ SameControl(s, t)
        /\ t.reader = "done" /\ SameWriter(s, t)
        /\ t.conn = (IF s.conn = "open" THEN "closed" ELSE s.conn)
    BY <1>3, <1>4, <2>1
  <2>3. ~s.cancelled /\ t.cancelled = TRUE /\ t.reset = TRUE /\ s.hand = 0
    BY <1>2, <1>3, <1>4, <1>8, <2>1
  <2> HIDE DEF t
  <2> QED BY <1>2, <1>6, <2>2, <2>3 DEF s
<1> QED BY <1>7, <1>8
\* The stream as WritePop finds it, and leaves it.
LEMMA WritePopStream ==
  ASSUME Shapes, NEW p \in Ends, NEW i \in Ids, WritePop(p, i)
  PROVE  LET s == st[p][i]
             t == st'[p][i] IN
         /\ s.writer \in {"idle", "wait"} /\ Moved(p, i)
         /\ SameOut(s, t) /\ SameControl(s, t) /\ SameReset(s, t) /\ SameConn(s, t) /\ SameReader(s, t)
         /\ t.credit = s.credit /\ t.budget = s.budget /\ t.grant = s.grant
         /\ t.nextIn = s.nextIn /\ t.remoteFin = s.remoteFin
         /\ t.remoteFinWritten = s.remoteFinWritten
         /\ \/ /\ t.writer = "done" /\ t.input = s.input /\ t.writing = s.writing
               /\ t.inputFin = s.inputFin
            \/ /\ t.writer = "data" /\ t.inputFin = s.inputFin /\ s.input > 0
               /\ \E n \in 1..s.input : t.writing = n /\ t.input = s.input - n
            \/ /\ t.writer = "fin" /\ s.inputFin /\ t.inputFin = FALSE /\ s.input = 0
               /\ t.input = 0 /\ t.writing = s.writing
            \/ /\ t.writer = "wait" /\ t.input = s.input /\ t.writing = s.writing
               /\ t.inputFin = s.inputFin
<1> USE DEF SameAmounts, SameOut, SameIn, SameControl, SameReset, SameConn, SameReader, SameWriter
<1> DEFINE s == st[p][i]
           b == IF s.writer = "wait" THEN FALSE ELSE s.inputReady
           u == [s EXCEPT !.inputReady = b]
           n == Min({u.input, StreamChunk})
           t == IF u.cancelled THEN [u EXCEPT !.writer = "done"]
                ELSE IF u.input > 0
                  THEN [u EXCEPT !.writer = "data", !.writing = n, !.input = @ - n]
                ELSE IF u.inputFin THEN [u EXCEPT !.writer = "fin", !.inputFin = FALSE]
                ELSE [u EXCEPT !.writer = "wait"]
<1>1. s \in StreamRecords
  BY OneStream
<1>2. SetStream(p, i, t) /\ (u.writer = "idle" \/ u.writer = "wait")
  BY DEF WritePop
<1> HIDE DEF s
<1>3. b \in BOOLEAN
  BY <1>1 DEF StreamRecords
<1> HIDE DEF b
<1>4. /\ u \in StreamRecords
      /\ SameAmounts(s, u) /\ SameIn(s, u) /\ SameOut(s, u) /\ SameControl(s, u) /\ SameReset(s, u)
      /\ SameConn(s, u) /\ SameReader(s, u) /\ SameWriter(s, u)
  BY <1>1, <1>3 DEF StreamRecords
<1> HIDE DEF u
<1>5. /\ s.writer \in {"idle", "wait"}
      /\ u.input \in Nat /\ s.input = u.input /\ u.inputFin \in BOOLEAN /\ u.cancelled \in BOOLEAN
  BY <1>2, <1>4 DEF StreamRecords
<1> DEFINE Kept(v) ==
             /\ SameOut(s, v) /\ SameControl(s, v) /\ SameReset(s, v) /\ SameConn(s, v) /\ SameReader(s, v)
             /\ v.credit = s.credit /\ v.budget = s.budget /\ v.grant = s.grant
             /\ v.nextIn = s.nextIn /\ v.remoteFin = s.remoteFin
             /\ v.remoteFinWritten = s.remoteFinWritten
<1>6. CASE u.cancelled
  <2> DEFINE v == [u EXCEPT !.writer = "done"]
  <2>1. t = v
    BY <1>6
  <2>2. /\ v \in StreamRecords /\ Kept(v)
        /\ v.writer = "done" /\ v.input = s.input /\ v.writing = s.writing /\ v.inputFin = s.inputFin
    BY <1>4 DEF StreamRecords
  <2> HIDE DEF v, t
  <2>3. Moved(p, i) /\ st'[p][i] = v
    BY <1>2, <2>1, <2>2, SetStreamMoves DEF Shapes
  <2> QED BY <1>5, <2>2, <2>3 DEF s
<1>7. CASE ~u.cancelled /\ u.input > 0
  <2>1. n \in 1..u.input
    BY <1>5, <1>7, MinOfTwo, MuxAssumption
  <2> HIDE DEF n
  <2> DEFINE m == u.input - n
             v == [u EXCEPT !.writer = "data", !.writing = n, !.input = m]
  <2>2. t = v
    BY <1>7
  <2>3. m \in Nat /\ n \in Nat
    BY <1>5, <2>1
  <2> HIDE DEF m
  <2>4. /\ v \in StreamRecords /\ Kept(v)
        /\ v.writer = "data" /\ v.input = m /\ v.writing = n /\ v.inputFin = s.inputFin
    BY <1>4, <2>3 DEF StreamRecords
  <2> HIDE DEF v, t
  <2>5. Moved(p, i) /\ st'[p][i] = v
    BY <1>2, <2>2, <2>4, SetStreamMoves DEF Shapes
  <2>6. s.input > 0 /\ n \in 1..s.input /\ v.writing = n /\ v.input = s.input - n
    BY <1>5, <1>7, <2>1, <2>4 DEF m
  <2> QED BY <1>5, <2>4, <2>5, <2>6 DEF s
<1>8. CASE ~u.cancelled /\ ~(u.input > 0) /\ u.inputFin
  <2> DEFINE v == [u EXCEPT !.writer = "fin", !.inputFin = FALSE]
  <2>1. t = v
    BY <1>8
  <2>2. /\ v \in StreamRecords /\ Kept(v)
        /\ v.writer = "fin" /\ v.input = s.input /\ v.writing = s.writing /\ v.inputFin = FALSE
    BY <1>4 DEF StreamRecords
  <2> HIDE DEF v, t
  <2>3. Moved(p, i) /\ st'[p][i] = v
    BY <1>2, <2>1, <2>2, SetStreamMoves DEF Shapes
  <2>4. s.input = 0 /\ s.inputFin
    BY <1>4, <1>5, <1>8
  <2> QED BY <1>5, <2>2, <2>3, <2>4 DEF s
<1>9. CASE ~u.cancelled /\ ~(u.input > 0) /\ ~u.inputFin
  <2> DEFINE v == [u EXCEPT !.writer = "wait"]
  <2>1. t = v
    BY <1>9
  <2>2. /\ v \in StreamRecords /\ Kept(v)
        /\ v.writer = "wait" /\ v.input = s.input /\ v.writing = s.writing /\ v.inputFin = s.inputFin
    BY <1>4 DEF StreamRecords
  <2> HIDE DEF v, t
  <2>3. Moved(p, i) /\ st'[p][i] = v
    BY <1>2, <2>1, <2>2, SetStreamMoves DEF Shapes
  <2> QED BY <1>5, <2>2, <2>3 DEF s
<1> QED BY <1>6, <1>7, <1>8, <1>9

LEMMA WriteDoneStream ==
  ASSUME Shapes, NEW p \in Ends, NEW i \in Ids, WriteDone(p, i)
  PROVE  LET s == st[p][i]
             t == st'[p][i] IN
         /\ s.writer = "data" /\ Moved(p, i)
         /\ SameOut(s, t) /\ SameIn(s, t) /\ SameControl(s, t) /\ SameReset(s, t)
         /\ SameConn(s, t) /\ SameReader(s, t)
         /\ t.writer = "idle" /\ t.input = s.input /\ t.writing = 0 /\ t.credit = s.credit
         /\ t.budget = s.budget + s.writing /\ t.grant = s.grant + s.writing
<1> USE DEF SameAmounts, SameOut, SameIn, SameControl, SameReset, SameConn, SameReader, SameWriter
<1> DEFINE s == st[p][i]
           b == s.budget + s.writing
           g == s.grant + s.writing
           t == [s EXCEPT !.writer = "idle", !.writing = 0, !.budget = b, !.grant = g]
<1>1. s \in StreamRecords
  BY OneStream
<1>2. s.writer = "data" /\ SetStream(p, i, t)
  BY DEF WriteDone
<1> HIDE DEF s
<1>3. b \in Nat /\ g \in Nat
  BY <1>1 DEF StreamRecords
<1> HIDE DEF b, g
<1>4. /\ t \in StreamRecords
      /\ SameOut(s, t) /\ SameIn(s, t) /\ SameControl(s, t) /\ SameReset(s, t)
      /\ SameConn(s, t) /\ SameReader(s, t)
      /\ t.writer = "idle" /\ t.input = s.input /\ t.writing = 0 /\ t.credit = s.credit
      /\ t.budget = b /\ t.grant = g
  BY <1>1, <1>3 DEF StreamRecords
<1> HIDE DEF t
<1>5. Moved(p, i) /\ st'[p][i] = t
  BY <1>2, <1>4, SetStreamMoves DEF Shapes
<1> QED BY <1>2, <1>4, <1>5 DEF s, b, g

LEMMA WriteFinStream ==
  ASSUME Shapes, NEW p \in Ends, NEW i \in Ids, WriteFin(p, i)
  PROVE  LET s == st[p][i]
             t == st'[p][i] IN
         /\ s.writer = "fin" /\ Moved(p, i)
         /\ SameAmounts(s, t) /\ SameOut(s, t) /\ SameControl(s, t) /\ SameReset(s, t) /\ SameReader(s, t)
         /\ t.inputFin = s.inputFin /\ t.nextIn = s.nextIn /\ t.remoteFin = s.remoteFin
         /\ t.remoteFinWritten = TRUE /\ t.writer = "done"
         /\ \/ Retirable(t) /\ i \in streams[p] /\ RemoveStream(p, i, cursor[p])
            \/ /\ ~(Retirable(t) /\ i \in streams[p]) /\ SameConn(s, t)
               /\ UNCHANGED <<streams, order, cursor>>
<1> USE DEF SameAmounts, SameOut, SameIn, SameControl, SameReset, SameConn, SameReader, SameWriter
<1> DEFINE s == st[p][i]
           u == [s EXCEPT !.writer = "done", !.remoteFinWritten = TRUE]
           retire == Retirable(u) /\ i \in streams[p]
           t == IF retire THEN ClosedStream(u) ELSE u
<1>1. s \in StreamRecords
  BY OneStream
<1>2. /\ s.writer = "fin" /\ SetStream(p, i, t)
      /\ \/ retire /\ RemoveStream(p, i, cursor[p])
         \/ ~retire /\ UNCHANGED <<streams, order, cursor>>
  BY DEF WriteFin
<1> HIDE DEF s
<1>3. /\ u \in StreamRecords
      /\ SameAmounts(s, u) /\ SameOut(s, u) /\ SameControl(s, u) /\ SameReset(s, u) /\ SameReader(s, u)
      /\ SameConn(s, u) /\ u.inputFin = s.inputFin /\ u.nextIn = s.nextIn /\ u.remoteFin = s.remoteFin
      /\ u.remoteFinWritten = TRUE /\ u.writer = "done"
  BY <1>1 DEF StreamRecords
<1> HIDE DEF u
<1>4. LET v == ClosedStream(u) IN
      /\ v \in StreamRecords
      /\ SameAmounts(u, v) /\ SameOut(u, v) /\ SameIn(u, v) /\ SameControl(u, v) /\ SameReset(u, v)
      /\ SameReader(u, v) /\ SameWriter(u, v)
  BY <1>3, ClosedStreamKeeps
<1>5. CASE retire
  <2> DEFINE v == ClosedStream(u)
  <2>1. t = v
    BY <1>5
  <2> HIDE DEF v, t
  <2>2. /\ SameAmounts(s, v) /\ SameOut(s, v) /\ SameControl(s, v) /\ SameReset(s, v) /\ SameReader(s, v)
        /\ v.inputFin = s.inputFin /\ v.nextIn = s.nextIn /\ v.remoteFin = s.remoteFin
        /\ v.remoteFinWritten = TRUE /\ v.writer = "done" /\ v \in StreamRecords
    BY <1>3, <1>4 DEF v
  <2>3. Retirable(v)
    BY <1>3, <1>4, <1>5 DEF Retirable, v
  <2>4. Moved(p, i) /\ st'[p][i] = v
    BY <1>2, <2>1, <2>2, SetStreamMoves DEF Shapes
  <2> QED BY <1>2, <1>5, <2>2, <2>3, <2>4 DEF s
<1>6. CASE ~retire
  <2>1. t = u
    BY <1>6
  <2> HIDE DEF t
  <2>2. Moved(p, i) /\ st'[p][i] = u
    BY <1>2, <1>3, <2>1, SetStreamMoves DEF Shapes
  <2> QED BY <1>2, <1>3, <1>6, <2>2 DEF s
<1> QED BY <1>5, <1>6

LEMMA WriteErrorStream ==
  ASSUME Shapes, NEW p \in Ends, NEW i \in Ids, WriteError(p, i)
  PROVE  LET s == st[p][i]
             t == st'[p][i] IN
         /\ s.writer \in {"data", "fin"} /\ Moved(p, i)
         /\ SameAmounts(s, t) /\ SameIn(s, t) /\ SameOut(s, t) /\ SameControl(s, t)
         /\ SameReader(s, t) /\ t.writer = "done" /\ t.cancelled = TRUE /\ t.reset = TRUE
         /\ t.conn = (IF s.conn = "open" THEN "closed" ELSE s.conn)
<1> USE DEF SameAmounts, SameOut, SameIn, SameControl, SameReset, SameConn, SameReader, SameWriter
<1> DEFINE s == st[p][i]
           u == [s EXCEPT !.writer = "done"]
           t == FailedStream(u)
<1>1. s \in StreamRecords
  BY OneStream
<1>2. s.writer \in {"data", "fin"} /\ SetStream(p, i, t)
  BY DEF WriteError
<1> HIDE DEF s
<1>3. /\ u \in StreamRecords
      /\ SameAmounts(s, u) /\ SameIn(s, u) /\ SameOut(s, u) /\ SameControl(s, u)
      /\ SameConn(s, u) /\ SameReader(s, u) /\ u.writer = "done"
  BY <1>1 DEF StreamRecords
<1> HIDE DEF u
<1>4. /\ t \in StreamRecords
      /\ SameAmounts(u, t) /\ SameIn(u, t) /\ SameOut(u, t) /\ SameControl(u, t)
      /\ t.reset = TRUE /\ t.cancelled = TRUE /\ SameReader(u, t) /\ SameWriter(u, t)
      /\ t.conn = (IF u.conn = "open" THEN "closed" ELSE u.conn)
  BY <1>3, FailedStreamKeeps
<1> HIDE DEF t
<1>5. Moved(p, i) /\ st'[p][i] = t
  BY <1>2, <1>4, SetStreamMoves DEF Shapes
<1>6. /\ SameAmounts(s, t) /\ SameIn(s, t) /\ SameOut(s, t) /\ SameControl(s, t)
      /\ SameReader(s, t) /\ t.writer = "done"
      /\ t.conn = (IF s.conn = "open" THEN "closed" ELSE s.conn)
  BY <1>3, <1>4
<1> QED BY <1>2, <1>4, <1>5, <1>6 DEF s
LEMMA HeadItem ==
  ASSUME NEW S, NEW w \in Seq(S), w # <<>>
  PROVE  /\ Head(w) = w[1] /\ w[1] \in S /\ Len(w) \in Nat \ {0}
         /\ Tail(w) \in Seq(S) /\ Len(Tail(w)) = Len(w) - 1
         /\ \A k \in 1..Len(w) - 1 : Tail(w)[k] = w[k + 1]
  OBVIOUS

LEMMA ChunkFields ==
  ASSUME NEW f \in Chunks PROVE f.len \in Nat /\ f.sequence \in Nat
  BY DEF Chunks

LEMMA PulledForm ==
  ASSUME NEW s \in StreamRecords
  PROVE  LET q == Pulled(s) IN
         /\ q \in StreamRecords
         /\ SameAmounts(s, q) /\ SameIn(s, q) /\ SameControl(s, q) /\ SameReset(s, q)
         /\ SameConn(s, q) /\ SameReader(s, q) /\ SameWriter(s, q)
         /\ q.hand = s.hand /\ q.nextOut = s.nextOut /\ q.localFinSent = s.localFinSent
         /\ \/ /\ s.pending = <<>> /\ s.output # <<>>
               /\ q.pending = <<Head(s.output)>> /\ q.output = Tail(s.output)
            \/ /\ s.pending # <<>> \/ s.output = <<>>
               /\ q.pending = s.pending /\ q.output = s.output
<1> USE DEF SameAmounts, SameIn, SameControl, SameReset, SameConn, SameReader, SameWriter
<1>1. s.pending \in Seq(Chunks) /\ s.output \in Seq(Chunks)
  BY DEF StreamRecords
<1>2. CASE s.pending = <<>> /\ s.output # <<>>
  <2> DEFINE h == <<Head(s.output)>>
             o == Tail(s.output)
             v == [s EXCEPT !.pending = h, !.output = o]
  <2>1. Pulled(s) = v
    BY <1>2 DEF Pulled
  <2>2. h \in Seq(Chunks) /\ o \in Seq(Chunks)
    BY <1>1, <1>2
  <2> HIDE DEF h, o
  <2>3. /\ v \in StreamRecords /\ SameAmounts(s, v) /\ SameIn(s, v) /\ SameControl(s, v)
        /\ SameReset(s, v) /\ SameConn(s, v) /\ SameReader(s, v) /\ SameWriter(s, v)
        /\ v.hand = s.hand /\ v.nextOut = s.nextOut /\ v.localFinSent = s.localFinSent
        /\ v.pending = h /\ v.output = o
    BY <2>2 DEF StreamRecords
  <2> HIDE DEF v
  <2> QED BY <1>2, <2>1, <2>3 DEF h, o
<1>3. CASE ~(s.pending = <<>> /\ s.output # <<>>)
  <2>1. Pulled(s) = s
    BY <1>3 DEF Pulled
  <2> QED BY <1>3, <2>1
<1> QED BY <1>2, <1>3

\* The outcomes of take for stream i, found as s and left as a, with the
\* frames m.  The data frames come from q, s with the head of output pulled.
TakesReset(i, s, a, m) == s.reset /\ m = <<Frame("RESET", i, 0, 0)>> /\ a = s
TakesOpen(i, s, a, m) ==
  /\ ~s.reset /\ s.open /\ m = <<Frame("OPEN", i, 0, OpenBody[i])>>
  /\ SameAmounts(s, a) /\ SameOut(s, a) /\ a.open = FALSE /\ a.late = s.late /\ a.ack = s.ack
TakesLate(i, s, a, m, space) ==
  /\ ~s.reset /\ s.open /\ m = <<>> /\ ~(OpenBody[i] <= space)
  /\ SameAmounts(s, a) /\ SameOut(s, a) /\ a.open = TRUE /\ a.late = TRUE /\ a.ack = s.ack
TakesOpened(i, s, a, m) ==
  /\ ~s.reset /\ ~s.open /\ s.ack /\ m = <<Frame("OPENED", i, 0, 0)>>
  /\ SameAmounts(s, a) /\ SameOut(s, a) /\ a.open = s.open /\ a.late = s.late /\ a.ack = FALSE
TakesCredit(i, s, a, m) ==
  /\ ~s.reset /\ ~s.open /\ s.grant > 0 /\ m = <<Frame("CREDIT", i, 0, s.grant)>>
  /\ SameOut(s, a) /\ SameControl(s, a) /\ a.grant = 0 /\ a.credit = s.credit
  /\ a.input = s.input /\ a.writing = s.writing /\ a.budget = s.budget
TakesQueue(s, q, a) ==
  /\ ~s.reset /\ ~s.open /\ ~s.ack
  /\ SameControl(s, a) /\ a.hand = s.hand /\ a.nextOut = s.nextOut /\ a.output = q.output
  /\ a.input = s.input /\ a.writing = s.writing /\ a.budget = s.budget /\ a.grant = s.grant
TakesNone(s, q, a, m, space, controlsOnly) ==
  /\ m = <<>> /\ a.credit = s.credit /\ a.pending = q.pending
  /\ a.localFinSent = s.localFinSent
  /\ s.grant > 0 => space < CreditBody
  /\ q.pending # <<>> =>
       q.pending[1].len > 0 /\ (controlsOnly \/ space = 0 \/ s.credit = 0)
TakesFin(i, s, q, a, m) ==
  /\ q.pending # <<>> /\ q.pending[1].len = 0 /\ m = <<Frame("FIN", i, q.pending[1].sequence, 0)>>
  /\ a.credit = s.credit /\ a.pending = <<>> /\ a.localFinSent = TRUE
TakesData(i, s, q, a, m) ==
  /\ q.pending # <<>> /\ a.localFinSent = s.localFinSent
  /\ \E n \in 1..q.pending[1].len :
       /\ n <= s.credit /\ a.credit = s.credit - n
       /\ m = <<Frame("DATA", i, q.pending[1].sequence, n)>>
       /\ a.pending = IF q.pending[1].len = n THEN <<>>
                      ELSE <<[sequence |-> (q.pending[1].sequence + n) % Offsets,
                              len |-> q.pending[1].len - n]>>
Takes(i, s, a, m, space, controlsOnly) ==
  LET q == Pulled(s) IN
  /\ a \in StreamRecords /\ SameIn(s, a) /\ SameConn(s, a) /\ SameReader(s, a)
  /\ SameWriter(s, a) /\ SameReset(s, a)
  /\ \/ TakesReset(i, s, a, m) \/ TakesOpen(i, s, a, m) \/ TakesLate(i, s, a, m, space)
     \/ TakesOpened(i, s, a, m) \/ TakesCredit(i, s, a, m)
     \/ /\ TakesQueue(s, q, a)
        /\ \/ TakesNone(s, q, a, m, space, controlsOnly)
           \/ TakesFin(i, s, q, a, m) \/ TakesData(i, s, q, a, m)

LEMMA TakenForm ==
  ASSUME NEW i, NEW s \in StreamRecords, NEW controlsOnly \in BOOLEAN, NEW space \in Nat
  PROVE  LET t == Taken(i, s, controlsOnly, space) IN
         Takes(i, s, t.after, t.frame, space, controlsOnly)
<1> USE DEF SameAmounts, SameIn, SameControl, SameReset, SameConn, SameReader, SameWriter
<1> DEFINE t == Taken(i, s, controlsOnly, space)
<1>1. CASE s.reset
  <2>1. t.after = s /\ t.frame = <<Frame("RESET", i, 0, 0)>>
    BY <1>1 DEF Taken
  <2> QED BY <1>1, <2>1 DEF Takes, TakesReset
<1>2. CASE ~s.reset /\ s.open /\ OpenBody[i] <= space
  <2> DEFINE v == [s EXCEPT !.open = FALSE]
  <2>1. t.after = v /\ t.frame = <<Frame("OPEN", i, 0, OpenBody[i])>>
    BY <1>2 DEF Taken
  <2>2. /\ v \in StreamRecords /\ SameIn(s, v) /\ SameConn(s, v) /\ SameReader(s, v)
        /\ SameWriter(s, v) /\ SameReset(s, v)
        /\ SameAmounts(s, v) /\ SameOut(s, v) /\ v.open = FALSE /\ v.late = s.late /\ v.ack = s.ack
    BY DEF StreamRecords, SameOut
  <2> HIDE DEF v, t
  <2> QED BY <1>2, <2>1, <2>2 DEF Takes, TakesOpen, t
<1>6. CASE ~s.reset /\ s.open /\ ~(OpenBody[i] <= space)
  <2> DEFINE v == [s EXCEPT !.late = TRUE]
  <2>1. t.after = v /\ t.frame = <<>>
    BY <1>6 DEF Taken
  <2>2. s.open \in BOOLEAN
    BY DEF StreamRecords
  <2>3. /\ v \in StreamRecords /\ SameIn(s, v) /\ SameConn(s, v) /\ SameReader(s, v)
        /\ SameWriter(s, v) /\ SameReset(s, v)
        /\ SameAmounts(s, v) /\ SameOut(s, v) /\ v.open = TRUE /\ v.late = TRUE /\ v.ack = s.ack
    BY <1>6, <2>2 DEF StreamRecords, SameOut
  <2> HIDE DEF v, t
  <2> QED BY <1>6, <2>1, <2>3 DEF Takes, TakesLate, t
<1>3. CASE ~s.reset /\ ~s.open /\ s.ack
  <2> DEFINE v == [s EXCEPT !.ack = FALSE]
  <2>1. t.after = v /\ t.frame = <<Frame("OPENED", i, 0, 0)>>
    BY <1>3 DEF Taken
  <2>2. /\ v \in StreamRecords /\ SameIn(s, v) /\ SameConn(s, v) /\ SameReader(s, v)
        /\ SameWriter(s, v) /\ SameReset(s, v)
        /\ SameAmounts(s, v) /\ SameOut(s, v) /\ v.open = s.open /\ v.late = s.late
        /\ v.ack = FALSE
    BY DEF StreamRecords, SameOut
  <2> HIDE DEF v, t
  <2> QED BY <1>3, <2>1, <2>2 DEF Takes, TakesOpened, t
<1>4. CASE ~s.reset /\ ~s.open /\ ~s.ack /\ s.grant > 0 /\ space >= CreditBody
  <2> DEFINE v == [s EXCEPT !.grant = 0]
  <2>1. t.after = v /\ t.frame = <<Frame("CREDIT", i, 0, s.grant)>>
    BY <1>4 DEF Taken
  <2>2. /\ v \in StreamRecords /\ SameIn(s, v) /\ SameConn(s, v) /\ SameReader(s, v)
        /\ SameWriter(s, v) /\ SameReset(s, v)
        /\ SameOut(s, v) /\ SameControl(s, v) /\ v.grant = 0 /\ v.credit = s.credit
        /\ v.input = s.input /\ v.writing = s.writing /\ v.budget = s.budget
    BY DEF StreamRecords, SameOut
  <2> HIDE DEF v, t
  <2> QED BY <1>4, <2>1, <2>2 DEF Takes, TakesCredit, t
<1>5. CASE ~s.reset /\ ~s.open /\ ~s.ack /\ ~(s.grant > 0 /\ space >= CreditBody)
  <2> DEFINE q == Pulled(s)
             f == Head(q.pending)
             n == Min({f.len, space, q.credit})
             rest == IF f.len = n THEN <<>>
                     ELSE <<[sequence |-> (f.sequence + n) % Offsets, len |-> f.len - n]>>
             c == q.credit - n
  <2>0. t = CASE q.pending = <<>> -> [frame |-> <<>>, after |-> q]
              [] q.pending # <<>> /\ f.len = 0 ->
                   [frame |-> <<Frame("FIN", i, f.sequence, 0)>>,
                    after |-> [q EXCEPT !.pending = <<>>, !.localFinSent = TRUE]]
              [] q.pending # <<>> /\ f.len > 0 /\ (controlsOnly \/ n = 0) ->
                   [frame |-> <<>>, after |-> q]
              [] OTHER ->
                   [frame |-> <<Frame("DATA", i, f.sequence, n)>>,
                    after |-> [q EXCEPT !.credit = @ - n, !.pending = rest]]
    BY <1>5 DEF Taken
  <2>1. /\ q \in StreamRecords
        /\ SameAmounts(s, q) /\ SameIn(s, q) /\ SameControl(s, q) /\ SameReset(s, q)
        /\ SameConn(s, q) /\ SameReader(s, q) /\ SameWriter(s, q)
        /\ q.hand = s.hand /\ q.nextOut = s.nextOut /\ q.localFinSent = s.localFinSent
    BY PulledForm
  <2>2. q.pending \in Seq(Chunks) /\ q.credit \in Nat /\ q.credit = s.credit
        /\ s.grant \in Nat /\ s.reset \in BOOLEAN /\ CreditBody \in Nat
    BY <2>1, MuxAssumption DEF StreamRecords
  <2>3. s.grant > 0 => space < CreditBody
    BY <1>5, <2>2
  <2> HIDE DEF t, q
  <2>4. q.pending # <<>> =>
          f = q.pending[1] /\ f.len \in Nat /\ f.sequence \in Nat
    <3>1. q.pending # <<>> => f = q.pending[1] /\ f \in Chunks
      BY <2>2, HeadItem
    <3> QED BY <3>1, ChunkFields
  <2>5. CASE q.pending = <<>>
    <3>1. t.after = q /\ t.frame = <<>>
      BY <2>0, <2>5
    <3>2. TakesQueue(s, q, q) /\ TakesNone(s, q, q, <<>>, space, controlsOnly)
      BY <1>5, <2>1, <2>3, <2>5 DEF TakesQueue, TakesNone
    <3> QED BY <2>1, <3>1, <3>2 DEF Takes, q, t
  <2>6. CASE q.pending # <<>> /\ f.len = 0
    <3> DEFINE v == [q EXCEPT !.pending = <<>>, !.localFinSent = TRUE]
    <3>1. t.after = v /\ t.frame = <<Frame("FIN", i, f.sequence, 0)>>
      BY <2>0, <2>6
    <3>2. <<>> \in Seq(Chunks)
      OBVIOUS
    <3>3. /\ v \in StreamRecords /\ SameIn(q, v) /\ SameConn(q, v) /\ SameReader(q, v)
          /\ SameWriter(q, v) /\ SameReset(q, v) /\ SameControl(q, v) /\ SameAmounts(q, v)
          /\ v.hand = q.hand /\ v.nextOut = q.nextOut /\ v.output = q.output
          /\ v.pending = <<>> /\ v.localFinSent = TRUE
      BY <2>1, <3>2 DEF StreamRecords
    <3> HIDE DEF v
    <3>4. TakesQueue(s, q, v)
      BY <1>5, <2>1, <3>3 DEF TakesQueue
    <3>5. TakesFin(i, s, q, v, t.frame)
      BY <2>1, <2>4, <2>6, <3>1, <3>3 DEF TakesFin
    <3>6. SameIn(s, v) /\ SameConn(s, v) /\ SameReader(s, v) /\ SameWriter(s, v) /\ SameReset(s, v)
      BY <2>1, <3>3
    <3> QED BY <3>1, <3>3, <3>4, <3>5, <3>6 DEF Takes, q, t
  <2>7. CASE q.pending # <<>> /\ f.len # 0
    <3>1. f.len \in Nat \ {0} /\ n \in Nat /\ n <= f.len /\ n <= space /\ n <= q.credit
          /\ n \in {f.len, space, q.credit}
      <4> DEFINE l == f.len
                 r == q.credit
      <4>1. l \in Nat /\ l # 0 /\ r \in Nat
        BY <2>2, <2>4, <2>7
      <4> HIDE DEF l, r
      <4>2. LET m == Min({l, space, r}) IN
            m \in {l, space, r} /\ m <= l /\ m <= space /\ m <= r
        BY <4>1, MinOfThree
      <4> QED BY <4>1, <4>2 DEF l, r
    <3> HIDE DEF n
    <3>2. CASE controlsOnly \/ n = 0
      <4>1. t.after = q /\ t.frame = <<>>
        BY <2>0, <2>7, <3>1, <3>2
      <4>2. q.pending[1].len > 0 /\ (controlsOnly \/ space = 0 \/ s.credit = 0)
        BY <2>2, <2>4, <2>7, <3>1, <3>2
      <4>3. TakesQueue(s, q, q) /\ TakesNone(s, q, q, <<>>, space, controlsOnly)
        BY <1>5, <2>1, <2>3, <4>2 DEF TakesQueue, TakesNone
      <4> QED BY <2>1, <4>1, <4>3 DEF Takes, q, t
    <3>3. CASE ~(controlsOnly \/ n = 0)
      <4> DEFINE v == [q EXCEPT !.credit = c, !.pending = rest]
      <4>1. t.after = v /\ t.frame = <<Frame("DATA", i, f.sequence, n)>>
        BY <2>0, <2>7, <3>1, <3>3
      <4>2. n \in 1..f.len /\ c \in Nat /\ c = s.credit - n /\ n <= s.credit
        BY <2>2, <3>1, <3>3
      <4>3. rest \in Seq(Chunks)
        <5>1. f.len # n => [sequence |-> (f.sequence + n) % Offsets, len |-> f.len - n] \in Chunks
          BY <2>4, <2>7, <3>1, MuxAssumption DEF Chunks
        <5> QED BY <5>1
      <4> HIDE DEF c, rest
      <4>4. /\ v \in StreamRecords /\ SameIn(q, v) /\ SameConn(q, v) /\ SameReader(q, v)
            /\ SameWriter(q, v) /\ SameReset(q, v) /\ SameControl(q, v)
            /\ v.input = q.input /\ v.writing = q.writing /\ v.budget = q.budget /\ v.grant = q.grant
            /\ v.hand = q.hand /\ v.nextOut = q.nextOut /\ v.output = q.output
            /\ v.pending = rest /\ v.credit = c /\ v.localFinSent = q.localFinSent
        BY <2>1, <4>2, <4>3, ZenonT(60) DEF StreamRecords
      <4> HIDE DEF v
      <4>5. TakesQueue(s, q, v)
        BY <1>5, <2>1, <4>4 DEF TakesQueue
      <4>6. TakesData(i, s, q, v, t.frame)
        <5> HIDE DEF f
        <5>1. /\ f = q.pending[1] /\ n \in 1..f.len /\ n <= s.credit /\ v.credit = s.credit - n
              /\ t.frame = <<Frame("DATA", i, f.sequence, n)>>
              /\ v.pending = IF f.len = n THEN <<>>
                   ELSE <<[sequence |-> (f.sequence + n) % Offsets, len |-> f.len - n]>>
          BY <2>4, <2>7, <4>1, <4>2, <4>4 DEF rest
        <5>2. v.localFinSent = s.localFinSent /\ q.pending # <<>>
          BY <2>1, <2>7, <4>4
        <5> QED BY <5>1, <5>2, Zenon DEF TakesData
      <4>7. SameIn(s, v) /\ SameConn(s, v) /\ SameReader(s, v) /\ SameWriter(s, v) /\ SameReset(s, v)
        BY <2>1, <4>4
      <4> QED BY <4>1, <4>4, <4>5, <4>6, <4>7 DEF Takes, q, t
    <3> QED BY <3>2, <3>3
  <2> QED BY <2>5, <2>6, <2>7
<1> QED BY <1>1, <1>2, <1>3, <1>4, <1>5, <1>6
-----------------------------------------------------------------------------
(* The tables of the scheduler. *)

LEMMA RemoveAtItems ==
  ASSUME NEW S, NEW w \in Seq(S), NEW k \in 1..Len(w)
  PROVE  LET v == RemoveAt(w, k) IN
         /\ v \in Seq(S) /\ Len(v) = Len(w) - 1
         /\ \A j \in 1..Len(w) - 1 : v[j] = IF j < k THEN w[j] ELSE w[j + 1]
<1> DEFINE a == SubSeq(w, 1, k - 1)
           b == SubSeq(w, k + 1, Len(w))
<1>1. Len(w) \in Nat /\ k \in Nat /\ \A j \in 1..Len(w) : w[j] \in S
  OBVIOUS
<1>2. a = [j \in 1..k - 1 |-> w[j]] /\ a \in Seq(S) /\ Len(a) = k - 1
  BY <1>1
<1>3. b \in Seq(S) /\ Len(b) = Len(w) - k /\ \A j \in 1..Len(w) - k : b[j] = w[j + k]
  BY <1>1
<1> HIDE DEF a, b
<1>4. RemoveAt(w, k) = a \o b
  BY DEF RemoveAt, a, b
<1>5. a \o b \in Seq(S) /\ Len(a \o b) = Len(w) - 1
  BY <1>1, <1>2, <1>3
<1>6. ASSUME NEW j \in 1..Len(w) - 1 PROVE (a \o b)[j] = IF j < k THEN w[j] ELSE w[j + 1]
  <2>1. CASE j < k
    <3>1. j \in 1..k - 1 /\ j \in 1..Len(a) + Len(b) /\ j <= Len(a)
      BY <1>1, <1>2, <1>3, <2>1
    <3>2. (a \o b)[j] = a[j]
      BY <1>2, <1>3, <3>1
    <3> QED BY <1>2, <2>1, <3>1, <3>2
  <2>2. CASE ~(j < k)
    <3>1. j \in 1..Len(a) + Len(b) /\ j > Len(a) /\ j - Len(a) = j + 1 - k /\ j + 1 - k \in 1..Len(w) - k
      BY <1>1, <1>2, <1>3, <2>2
    <3>2. (a \o b)[j] = b[j - Len(a)]
      BY <1>2, <1>3, <3>1
    <3>3. b[j + 1 - k] = w[j + 1]
      BY <1>1, <1>3, <3>1
    <3> QED BY <2>2, <3>1, <3>2, <3>3
  <2> QED BY <2>1, <2>2
<1> QED BY <1>4, <1>5, <1>6

Listed(p) ==
  /\ streams[p] \subseteq 1..highest[p]
  /\ \A j, k \in 1..Len(order[p]) : order[p][j] = order[p][k] => j = k
  /\ \A k \in 1..Len(order[p]) : order[p][k] \in streams[p]
  /\ \A i \in streams[p] : \E k \in 1..Len(order[p]) : order[p][k] = i
  /\ cursor[p] <= Len(order[p])

Active(p) == \A i \in streams[p] : ~Retirable(st[p][i])

Scheduling == \A p \in Ends : Listed(p) /\ Active(p)

\* The tables after stream i, at position k of the turn, left end p.
Removes(p, i, k, from) ==
  /\ order[p][k] = i /\ streams' = [streams EXCEPT ![p] = @ \ {i}]
  /\ order' = [order EXCEPT ![p] = RemoveAt(@, k)]
  /\ cursor' \in [Ends -> Nat] /\ \A e \in Ends : e # p => cursor'[e] = cursor[e]
  /\ cursor'[p] = LET c == IF k - 1 < from THEN from - 1 ELSE from IN
                  IF c >= Len(order[p]) - 1 THEN 0 ELSE c

LEMMA RemoveStreamForm ==
  ASSUME Shapes, NEW p \in Ends, Listed(p), NEW i \in streams[p], NEW from \in Nat,
         RemoveStream(p, i, from)
  PROVE  \E k \in 1..Len(order[p]) : Removes(p, i, k, from)
<1> DEFINE k == CHOOSE k \in 1..Len(order[p]) : order[p][k] = i
           c == IF k - 1 < from THEN from - 1 ELSE from
           d == IF c >= Len(order[p]) - 1 THEN 0 ELSE c
<1>1. \E j \in 1..Len(order[p]) : order[p][j] = i
  BY DEF Listed
<1>2. k \in 1..Len(order[p]) /\ order[p][k] = i
  BY <1>1
<1>3. /\ streams' = [streams EXCEPT ![p] = @ \ {i}]
      /\ order' = [order EXCEPT ![p] = RemoveAt(@, k)]
      /\ cursor' = [cursor EXCEPT ![p] = d]
  BY DEF RemoveStream
<1> HIDE DEF k
<1>4. order[p] \in Seq(Ids) /\ cursor \in [Ends -> Nat] /\ Len(order[p]) \in Nat
  BY DEF Shapes
<1>5. d \in Nat
  BY <1>2, <1>4
<1>6. d = LET b == IF k - 1 < from THEN from - 1 ELSE from IN
          IF b >= Len(order[p]) - 1 THEN 0 ELSE b
  OBVIOUS
<1> HIDE DEF d
<1>7. cursor' \in [Ends -> Nat] /\ cursor'[p] = d /\ \A e \in Ends : e # p => cursor'[e] = cursor[e]
  BY <1>3, <1>4, <1>5
<1> QED BY <1>2, <1>3, <1>6, <1>7 DEF Removes

\* The ids after the removed one move up.
Shortened(p, i, k) ==
  /\ streams'[p] = streams[p] \ {i} /\ order'[p] \in Seq(Ids)
  /\ Len(order'[p]) = Len(order[p]) - 1 /\ Len(order[p]) \in Nat
  /\ \A j \in 1..Len(order[p]) - 1 :
       order'[p][j] = IF j < k THEN order[p][j] ELSE order[p][j + 1]
  /\ \A e \in Ends : e # p => /\ streams'[e] = streams[e] /\ order'[e] = order[e]
                              /\ cursor'[e] = cursor[e]
  /\ streams' \in [Ends -> SUBSET Ids] /\ order' \in [Ends -> Seq(Ids)]

LEMMA RemovedTables ==
  ASSUME Shapes, NEW p \in Ends, NEW i, NEW from,
         NEW k \in 1..Len(order[p]), Removes(p, i, k, from)
  PROVE  Shortened(p, i, k)
<1>1. /\ order \in [Ends -> Seq(Ids)] /\ streams \in [Ends -> SUBSET Ids]
      /\ order[p] \in Seq(Ids) /\ Len(order[p]) \in Nat
  BY DEF Shapes
<1>2. /\ streams' = [streams EXCEPT ![p] = @ \ {i}]
      /\ order' = [order EXCEPT ![p] = RemoveAt(@, k)]
      /\ \A e \in Ends : e # p => cursor'[e] = cursor[e]
  BY DEF Removes
<1> DEFINE v == RemoveAt(order[p], k)
<1>3. /\ v \in Seq(Ids) /\ Len(v) = Len(order[p]) - 1
      /\ \A j \in 1..Len(order[p]) - 1 : v[j] = IF j < k THEN order[p][j] ELSE order[p][j + 1]
  BY <1>1, RemoveAtItems
<1>4. order' = [order EXCEPT ![p] = v]
  BY <1>2
<1> HIDE DEF v
<1>5. order'[p] = v /\ order' \in [Ends -> Seq(Ids)] /\ \A e \in Ends : e # p => order'[e] = order[e]
  BY <1>1, <1>3, <1>4
<1>6. /\ streams'[p] = streams[p] \ {i} /\ streams' \in [Ends -> SUBSET Ids]
      /\ \A e \in Ends : e # p => streams'[e] = streams[e]
  BY <1>1, <1>2
<1> QED BY <1>1, <1>2, <1>3, <1>5, <1>6 DEF Shortened

LEMMA RemovedListed ==
  ASSUME Shapes, NEW p \in Ends, Listed(p), NEW i, NEW from \in Nat,
         NEW k \in 1..Len(order[p]), Removes(p, i, k, from), highest' = highest
  PROVE  Listed(p)'
<1> DEFINE o == order[p]
           v == order'[p]
           n == Len(order[p])
<1>1. /\ streams'[p] = streams[p] \ {i} /\ Len(v) = n - 1 /\ n \in Nat /\ o[k] = i
      /\ \A j \in 1..n - 1 : v[j] = IF j < k THEN o[j] ELSE o[j + 1]
  <2>1. o[k] = i
    BY DEF Removes
  <2>2. /\ streams'[p] = streams[p] \ {i} /\ order'[p] \in Seq(Ids)
        /\ Len(order'[p]) = Len(order[p]) - 1 /\ Len(order[p]) \in Nat
        /\ \A j \in 1..Len(order[p]) - 1 :
             order'[p][j] = IF j < k THEN order[p][j] ELSE order[p][j + 1]
    <3> HIDE DEF o, v, n
    <3>1. Shortened(p, i, k)
      BY RemovedTables, Zenon
    <3> QED BY <3>1 DEF Shortened
  <2> QED BY <2>1, <2>2
<1>2. /\ \A j, l \in 1..n : o[j] = o[l] => j = l
      /\ \A j \in 1..n : o[j] \in streams[p]
      /\ \A j \in streams[p] : \E l \in 1..n : o[l] = j
      /\ streams[p] \subseteq 1..highest[p]
  BY DEF Listed
<1>3. cursor'[p] <= n - 1
  <2>1. cursor'[p] = LET c == IF k - 1 < from THEN from - 1 ELSE from IN IF c >= n - 1 THEN 0 ELSE c
    BY DEF Removes
  <2> HIDE DEF n
  <2>2. k \in 1..n
    BY DEF n
  <2> QED BY <1>1, <2>1, <2>2
<1> HIDE DEF o, v, n
<1>4. k \in 1..n
  BY DEF n
<1>5. \A j, l \in 1..Len(v) : v[j] = v[l] => j = l
  <2> TAKE j, l \in 1..Len(v)
  <2> HAVE v[j] = v[l]
  <2>1. j \in 1..n - 1 /\ l \in 1..n - 1 /\ j + 1 \in 1..n /\ l + 1 \in 1..n /\ j \in 1..n /\ l \in 1..n
    BY <1>1
  <2>2. /\ v[j] = IF j < k THEN o[j] ELSE o[j + 1]
        /\ v[l] = IF l < k THEN o[l] ELSE o[l + 1]
    BY <1>1, <2>1
  <2> DEFINE a == IF j < k THEN j ELSE j + 1
             b == IF l < k THEN l ELSE l + 1
  <2>3. a \in 1..n /\ b \in 1..n /\ (a = b => j = l)
    BY <1>4, <2>1
  <2>4. v[j] = o[a] /\ v[l] = o[b]
    BY <2>2
  <2> HIDE DEF a, b
  <2>5. o[a] = o[b]
    BY <2>4
  <2> QED BY <1>2, <2>3, <2>5
<1>6. \A j \in 1..Len(v) : v[j] \in streams[p] \ {i}
  <2> TAKE j \in 1..Len(v)
  <2>1. j \in 1..n - 1 /\ j + 1 \in 1..n /\ j \in 1..n
    BY <1>1
  <2> DEFINE l == IF j < k THEN j ELSE j + 1
  <2>2. v[j] = o[l] /\ l \in 1..n /\ l # k
    BY <1>1, <1>4, <2>1
  <2> HIDE DEF l
  <2> QED BY <1>1, <1>2, <1>4, <2>2
<1>7. \A j \in streams[p] \ {i} : \E l \in 1..Len(v) : v[l] = j
  <2> TAKE j \in streams[p] \ {i}
  <2>1. PICK l \in 1..n : o[l] = j
    BY <1>2
  <2>2. l # k
    BY <1>1, <2>1
  <2>3. CASE l < k
    <3>1. l \in 1..n - 1 /\ l \in 1..Len(v)
      BY <1>1, <1>4, <2>3
    <3>2. v[l] = o[l]
      BY <1>1, <2>3, <3>1
    <3> QED BY <2>1, <3>1, <3>2
  <2>4. CASE l > k
    <3>1. l - 1 \in 1..n - 1 /\ l - 1 \in 1..Len(v) /\ ~(l - 1 < k) /\ l - 1 + 1 = l
      BY <1>1, <1>4, <2>4
    <3>2. v[l - 1] = o[l]
      BY <1>1, <3>1
    <3> QED BY <2>1, <3>1, <3>2
  <2> QED BY <1>4, <2>2, <2>3, <2>4
<1> QED BY <1>1, <1>2, <1>3, <1>5, <1>6, <1>7 DEF Listed, v

LEMMA AddedListed ==
  ASSUME Shapes, NEW p \in Ends, Listed(p), NEW i \in Ids, i > highest[p], NEW s, AddStream(p, i, s),
         cursor' = cursor
  PROVE  /\ Listed(p)' /\ streams'[p] = streams[p] \cup {i} /\ highest'[p] = i
         /\ order'[p] = Append(order[p], i)
         /\ streams' \in [Ends -> SUBSET Ids] /\ order' \in [Ends -> Seq(Ids)]
         /\ highest' \in [Ends -> 0..MaxId]
         /\ \A e \in Ends : e # p => /\ streams'[e] = streams[e] /\ order'[e] = order[e]
                                     /\ highest'[e] = highest[e]
<1>1. /\ order \in [Ends -> Seq(Ids)] /\ streams \in [Ends -> SUBSET Ids] /\ order[p] \in Seq(Ids)
      /\ Len(order[p]) \in Nat /\ highest \in [Ends -> 0..MaxId] /\ highest[p] \in 0..MaxId
      /\ cursor[p] \in Nat /\ i \in Nat /\ i \in 0..MaxId
  BY MuxAssumption DEF Shapes, Ids
<1>2. /\ streams' = [streams EXCEPT ![p] = @ \cup {i}]
      /\ order' = [order EXCEPT ![p] = Append(@, i)]
      /\ highest' = [highest EXCEPT ![p] = i]
  BY DEF AddStream
<1>3. /\ streams'[p] = streams[p] \cup {i} /\ streams' \in [Ends -> SUBSET Ids]
      /\ \A e \in Ends : e # p => streams'[e] = streams[e]
  BY <1>1, <1>2
<1>4. /\ highest'[p] = i /\ highest' \in [Ends -> 0..MaxId]
      /\ \A e \in Ends : e # p => highest'[e] = highest[e]
  BY <1>1, <1>2
<1> DEFINE o == order[p]
           v == Append(o, i)
<1>5. v \in Seq(Ids) /\ Len(v) = Len(o) + 1 /\ v[Len(o) + 1] = i /\ \A j \in 1..Len(o) : v[j] = o[j]
  BY <1>1
<1>6. order' = [order EXCEPT ![p] = v]
  BY <1>2
<1> HIDE DEF v
<1>7. order'[p] = v /\ order' \in [Ends -> Seq(Ids)] /\ \A e \in Ends : e # p => order'[e] = order[e]
  BY <1>1, <1>5, <1>6
<1>8. /\ \A j, l \in 1..Len(o) : o[j] = o[l] => j = l
      /\ \A j \in 1..Len(o) : o[j] \in streams[p]
      /\ \A j \in streams[p] : \E l \in 1..Len(o) : o[l] = j
      /\ streams[p] \subseteq 1..highest[p] /\ cursor[p] <= Len(o) /\ Len(o) \in Nat
  BY <1>1 DEF Listed
<1> HIDE DEF o
<1>9. i \notin streams[p] /\ streams[p] \cup {i} \subseteq 1..i
  BY <1>1, <1>8
<1>10. \A j, l \in 1..Len(v) : v[j] = v[l] => j = l
  <2> TAKE j, l \in 1..Len(v)
  <2>1. (j \in 1..Len(o) \/ j = Len(o) + 1) /\ (l \in 1..Len(o) \/ l = Len(o) + 1)
    BY <1>5, <1>8
  <2> QED BY <1>5, <1>8, <1>9, <2>1
<1>11. \A j \in 1..Len(v) : v[j] \in streams[p] \cup {i}
  <2> TAKE j \in 1..Len(v)
  <2>1. j \in 1..Len(o) \/ j = Len(o) + 1
    BY <1>5, <1>8
  <2> QED BY <1>5, <1>8, <2>1
<1>12. \A j \in streams[p] \cup {i} : \E l \in 1..Len(v) : v[l] = j
  <2>1. Len(o) + 1 \in 1..Len(v) /\ \A l \in 1..Len(o) : l \in 1..Len(v)
    BY <1>5, <1>8
  <2> QED BY <1>5, <1>8, <2>1
<1>13. cursor'[p] <= Len(v)
  BY <1>1, <1>5, <1>8
<1>14. Listed(p)'
  BY <1>3, <1>4, <1>7, <1>9, <1>10, <1>11, <1>12, <1>13 DEF Listed
<1> QED BY <1>3, <1>4, <1>7, <1>14 DEF v, o
-----------------------------------------------------------------------------
(* What Receive, take and Close do. *)

LEMMA EndsPair ==
  ASSUME NEW p \in Ends
  PROVE  /\ Other(p) \in Ends /\ Other(p) # p /\ Other(Other(p)) = p
         /\ \A e \in Ends : e = p \/ e = Other(p)
  BY DEF Ends, Other

LEMMA WindowIsNat == ASSUME NEW p PROVE Window(p) \in Nat \ {0}
  BY MuxAssumption DEF Window

\* The head of the wire towards p is gone.
Consumed(p) ==
  /\ wire' \in [Ends -> Seq(Frames)] /\ wire[Other(p)] # <<>>
  /\ wire'[Other(p)] = Tail(wire[Other(p)]) /\ wire'[p] = wire[p]
  /\ Head(wire[Other(p)]) \in Frames

LEMMA ConsumeForm ==
  ASSUME Shapes, NEW p \in Ends, Arriving(p), Consume(p)
  PROVE  Consumed(p)
<1>1. Other(p) \in Ends /\ Other(p) # p
  BY EndsPair
<1>2. wire[Other(p)] \in Seq(Frames) /\ wire[Other(p)] # <<>> /\ wire \in [Ends -> Seq(Frames)]
  BY <1>1 DEF Shapes, Arriving
<1> DEFINE v == Tail(wire[Other(p)])
<1>3. v \in Seq(Frames) /\ Head(wire[Other(p)]) \in Frames
  BY <1>2, HeadItem
<1>4. wire' = [wire EXCEPT ![Other(p)] = v]
  BY DEF Consume
<1> HIDE DEF v
<1>5. wire' \in [Ends -> Seq(Frames)] /\ wire'[Other(p)] = v /\ wire'[p] = wire[p]
  BY <1>1, <1>2, <1>3, <1>4
<1> QED BY <1>2, <1>3, <1>5 DEF Consumed, v

LEMMA ReceiveOpenStream ==
  ASSUME Shapes, NEW p \in Ends, ReceiveOpen(p)
  PROVE  LET i == Head(wire["client"]).stream
             t == st'["server"][i] IN
         /\ p = "server" /\ Consumed("server") /\ Head(wire["client"]).kind = "OPEN"
         /\ i \in Ids /\ i > highest["server"] /\ Moved("server", i)
         /\ SameOut(NoStream, t) /\ SameIn(NoStream, t) /\ t.ack = FALSE /\ t.reset = FALSE
         /\ t.open = FALSE /\ t.cancelled = FALSE /\ t.conn = "dialing"
         /\ t.reader = "none" /\ t.writer = "none"
         /\ t.input = 0 /\ t.writing = 0 /\ t.grant = 0
         /\ t.credit = Window("client") /\ t.budget = Window("server")
<1> DEFINE f == Head(wire["client"])
           i == f.stream
           t == [NoStream EXCEPT !.credit = Window("client"), !.budget = Window("server"),
                                 !.conn = "dialing"]
<1>1. /\ Window("client") \in Nat /\ Window("server") \in Nat /\ Other("server") = "client"
      /\ "server" \in Ends /\ p = "server"
  BY WindowIsNat DEF Other, Ends, ReceiveOpen, ValidOpen
<1>2. Consumed("server")
  BY <1>1, ConsumeForm DEF ReceiveOpen
<1>3. f \in Frames /\ i \in Ids
  BY <1>1, <1>2 DEF Consumed, Frames
<1>4. f.kind = "OPEN" /\ i > highest["server"] /\ AddStream("server", i, [NewStream("server") EXCEPT !.conn = "dialing"])
  BY <1>1 DEF ReceiveOpen, ValidOpen
<1> HIDE DEF f
<1>5. SetStream("server", i, t)
  BY <1>1, <1>4 DEF AddStream, NewStream, NoStream
<1>6. <<>> \in Seq(Chunks)
  OBVIOUS
<1>7. t \in StreamRecords
  BY <1>1, <1>6 DEF StreamRecords, NoStream
<1>8. /\ SameOut(NoStream, t) /\ SameIn(NoStream, t) /\ t.ack = FALSE /\ t.reset = FALSE
      /\ t.open = FALSE /\ t.cancelled = FALSE /\ t.conn = "dialing"
      /\ t.reader = "none" /\ t.writer = "none"
      /\ t.input = 0 /\ t.writing = 0 /\ t.grant = 0
      /\ t.credit = Window("client") /\ t.budget = Window("server")
  BY DEF NoStream, SameOut, SameIn
<1> HIDE DEF t
<1>9. Moved("server", i) /\ st'["server"][i] = t
  BY <1>1, <1>3, <1>5, <1>7, SetStreamMoves DEF Shapes
<1> QED BY <1>1, <1>2, <1>3, <1>4, <1>8, <1>9 DEF f

\* The outcomes of Receive for a stream found as s and left as t.
GetsData(s, t, f) ==
  /\ f.kind = "DATA" /\ ~s.remoteFin /\ f.sequence = s.nextIn /\ f.len <= s.budget
  /\ t.input = s.input + f.len /\ t.nextIn = (s.nextIn + f.len) % Offsets
  /\ t.budget = s.budget - f.len /\ t.writing = s.writing /\ t.credit = s.credit /\ t.grant = s.grant
  /\ t.inputFin = s.inputFin /\ t.remoteFin = s.remoteFin /\ t.remoteFinWritten = s.remoteFinWritten
  /\ SameConn(s, t)
GetsFin(s, t, f) ==
  /\ f.kind = "FIN" /\ ~s.remoteFin /\ f.sequence = s.nextIn /\ t.inputFin = TRUE /\ t.remoteFin = TRUE
  /\ t.nextIn = s.nextIn /\ t.remoteFinWritten = s.remoteFinWritten
  /\ SameAmounts(s, t) /\ SameConn(s, t)
GetsCredit(p, s, t, f) ==
  /\ f.kind = "CREDIT" /\ t.credit = s.credit + f.len
  /\ t.input = s.input /\ t.budget = s.budget /\ t.writing = s.writing /\ t.grant = s.grant
  /\ SameIn(s, t) /\ SameConn(s, t)
GetsOpened(p, s, t, f) == f.kind = "OPENED" /\ p = "client" /\ t = s
GetsReset(s, t, f) ==
  /\ f.kind = "RESET" /\ SameAmounts(s, t) /\ SameIn(s, t) /\ t.cancelled = TRUE
  /\ t.conn = IF s.conn = "open" THEN "closed" ELSE s.conn
Gets(p, s, t, f) ==
  /\ SameOut(s, t) /\ SameControl(s, t) /\ SameReset(s, t) /\ SameReader(s, t) /\ SameWriter(s, t)
  /\ \/ GetsData(s, t, f) \/ GetsFin(s, t, f) \/ GetsCredit(p, s, t, f)
     \/ GetsOpened(p, s, t, f) \/ GetsReset(s, t, f)

LEMMA ReceivedForm ==
  ASSUME NEW p \in Ends, NEW f \in Frames, NEW s \in StreamRecords, f.kind # "OPEN",
         s = st[p][f.stream], Valid(p, f)
  PROVE  Gets(p, s, Received(s, f), f) /\ Received(s, f) \in StreamRecords
<1> USE DEF SameAmounts, SameOut, SameIn, SameControl, SameReset, SameConn, SameReader, SameWriter
<1> DEFINE t == Received(s, f)
<1>1. f.len \in Nat /\ f.kind \in Kinds
  BY DEF Frames
<1>2. s.input \in Nat /\ s.nextIn \in Nat /\ s.budget \in Nat /\ s.credit \in Nat
  BY DEF StreamRecords
<1>3. CASE f.kind = "DATA"
  <2>1. ~s.remoteFin /\ f.sequence = s.nextIn /\ f.len <= s.budget
    BY <1>3 DEF Valid
  <2> DEFINE a == s.input + f.len
             n == (s.nextIn + f.len) % Offsets
             b == s.budget - f.len
             v == [s EXCEPT !.input = a, !.nextIn = n, !.budget = b, !.inputReady = TRUE]
  <2>2. t = v
    BY <1>3 DEF Received
  <2>3. a \in Nat /\ n \in Nat /\ b \in Nat
    BY <1>1, <1>2, <2>1, MuxAssumption
  <2> HIDE DEF a, n, b
  <2>4. v \in StreamRecords
    BY <2>3, ZenonT(60) DEF StreamRecords
  <2>5. /\ SameOut(s, v) /\ SameControl(s, v) /\ SameReset(s, v) /\ SameReader(s, v) /\ SameWriter(s, v)
        /\ v.input = a /\ v.nextIn = n /\ v.budget = b /\ SameConn(s, v)
        /\ v.writing = s.writing /\ v.credit = s.credit /\ v.grant = s.grant
        /\ v.inputFin = s.inputFin /\ v.remoteFin = s.remoteFin /\ v.remoteFinWritten = s.remoteFinWritten
    BY DEF StreamRecords
  <2> HIDE DEF v, t
  <2>6. GetsData(s, v, f)
    BY <1>3, <2>1, <2>5 DEF GetsData, a, n, b
  <2> QED BY <2>2, <2>4, <2>5, <2>6 DEF Gets, t
<1>4. CASE f.kind = "FIN"
  <2>1. ~s.remoteFin /\ f.sequence = s.nextIn
    BY <1>4 DEF Valid
  <2> DEFINE v == [s EXCEPT !.inputFin = TRUE, !.remoteFin = TRUE, !.inputReady = TRUE]
  <2>2. t = v
    BY <1>4 DEF Received
  <2>4. v \in StreamRecords
    BY ZenonT(60) DEF StreamRecords
  <2>5. /\ SameOut(s, v) /\ SameControl(s, v) /\ SameReset(s, v) /\ SameReader(s, v) /\ SameWriter(s, v)
        /\ v.inputFin = TRUE /\ v.remoteFin = TRUE /\ v.nextIn = s.nextIn
        /\ v.remoteFinWritten = s.remoteFinWritten /\ SameAmounts(s, v) /\ SameConn(s, v)
    BY DEF StreamRecords
  <2> HIDE DEF v, t
  <2>6. GetsFin(s, v, f)
    BY <1>4, <2>1, <2>5 DEF GetsFin
  <2> QED BY <2>2, <2>4, <2>5, <2>6 DEF Gets, t
<1>5. CASE f.kind = "CREDIT"
  <2> DEFINE a == s.credit + f.len
             v == [s EXCEPT !.credit = a]
  <2>2. t = v
    BY <1>5 DEF Received
  <2>3. a \in Nat
    BY <1>1, <1>2
  <2> HIDE DEF a
  <2>4. v \in StreamRecords
    BY <2>3, ZenonT(60) DEF StreamRecords
  <2>5. /\ SameOut(s, v) /\ SameControl(s, v) /\ SameReset(s, v) /\ SameReader(s, v) /\ SameWriter(s, v)
        /\ v.credit = a /\ v.input = s.input /\ v.budget = s.budget /\ v.writing = s.writing
        /\ v.grant = s.grant /\ SameIn(s, v) /\ SameConn(s, v)
    BY DEF StreamRecords
  <2> HIDE DEF v, t
  <2>6. GetsCredit(p, s, v, f)
    BY <1>5, <2>5 DEF GetsCredit, a
  <2> QED BY <2>2, <2>4, <2>5, <2>6 DEF Gets, t
<1>6. CASE f.kind = "OPENED"
  <2>0. p = "client" /\ t = s
    <3>1. /\ "OPENED" # "DATA" /\ "OPENED" # "FIN" /\ "OPENED" # "CREDIT" /\ "OPENED" # "RESET"
      OBVIOUS
    <3>2. p = "client"
      BY <1>6, <3>1 DEF Valid
    <3>3. t = s
      BY <1>6, <3>1 DEF Received
    <3> QED BY <3>2, <3>3
  <2> HIDE DEF t
  <2>1. /\ SameOut(s, s) /\ SameControl(s, s) /\ SameReset(s, s) /\ SameReader(s, s)
        /\ SameWriter(s, s)
    OBVIOUS
  <2>2. GetsOpened(p, s, t, f)
    BY <1>6, <2>0 DEF GetsOpened
  <2> QED BY <2>0, <2>1, <2>2 DEF Gets, t
<1>7. CASE f.kind = "RESET"
  <2> DEFINE v == ClosedStream(s)
  <2>1. t = v
    BY <1>7 DEF Received
  <2>2. /\ v \in StreamRecords
        /\ SameAmounts(s, v) /\ SameOut(s, v) /\ SameIn(s, v) /\ SameControl(s, v) /\ SameReset(s, v)
        /\ SameReader(s, v) /\ SameWriter(s, v)
        /\ v.cancelled = TRUE /\ v.conn = (IF s.conn = "open" THEN "closed" ELSE s.conn)
    BY ClosedStreamKeeps
  <2> HIDE DEF t, v
  <2>3. GetsReset(s, v, f)
    BY <1>7, <2>2 DEF GetsReset
  <2> QED BY <2>1, <2>2, <2>3 DEF Gets, t
<1> QED BY <1>1, <1>3, <1>4, <1>5, <1>6, <1>7 DEF Kinds

LEMMA ReceiveFrameStream ==
  ASSUME Shapes, NEW p \in Ends, ReceiveFrame(p)
  PROVE  LET f == Head(wire[Other(p)])
             i == f.stream IN
         /\ Consumed(p) /\ f \in Frames /\ i \in Ids /\ i \in streams[p] /\ Moved(p, i)
         /\ Gets(p, st[p][i], st'[p][i], f)
         /\ \/ f.kind = "RESET" /\ RemoveStream(p, i, cursor[p])
            \/ f.kind # "RESET" /\ UNCHANGED <<streams, order, cursor>>
<1> DEFINE f == Head(wire[Other(p)])
           i == f.stream
           s == st[p][i]
           t == Received(s, f)
<1>1. Consumed(p)
  BY ConsumeForm DEF ReceiveFrame
<1>2. f \in Frames
  BY <1>1 DEF Consumed
<1>3. /\ i \in streams[p] /\ f.kind # "OPEN" /\ Valid(p, f) /\ SetStream(p, i, t)
      /\ \/ f.kind = "RESET" /\ RemoveStream(p, i, cursor[p])
         \/ f.kind # "RESET" /\ UNCHANGED <<streams, order, cursor>>
  BY DEF ReceiveFrame
<1> HIDE DEF f
<1>4. i \in Ids
  BY <1>2 DEF Frames
<1>5. s \in StreamRecords
  BY <1>4, OneStream
<1>6. Gets(p, s, t, f) /\ t \in StreamRecords
  BY <1>2, <1>3, <1>5, ReceivedForm
<1> HIDE DEF t
<1>7. Moved(p, i) /\ st'[p][i] = t
  BY <1>3, <1>4, <1>6, SetStreamMoves DEF Shapes
<1> QED BY <1>1, <1>2, <1>3, <1>4, <1>6, <1>7 DEF f

\* Close cancels the streams in the table and changes nothing else of them.
LEMMA CloseStreams ==
  ASSUME Shapes, NEW p \in Ends, Close(p)
  PROVE  /\ st' \in StreamTables
         /\ \A e \in Ends, j \in Ids : e # p \/ j \notin streams[p] => st'[e][j] = st[e][j]
         /\ \A j \in Ids : j \in streams[p] => st'[p][j] = ClosedStream(st[p][j])
<1> DEFINE row == [i \in Ids |-> IF i \in streams[p] THEN ClosedStream(st[p][i]) ELSE st[p][i]]
<1>1. st' = [st EXCEPT ![p] = row]
  BY DEF Close
<1>2. \A i \in Ids : st[p][i] \in StreamRecords /\ ClosedStream(st[p][i]) \in StreamRecords
  BY OneStream, ClosedStreamKeeps
<1>3. /\ row \in [Ids -> StreamRecords]
      /\ \A j \in Ids : row[j] = IF j \in streams[p] THEN ClosedStream(st[p][j]) ELSE st[p][j]
  BY <1>2
<1> HIDE DEF row
<1> QED BY <1>1, <1>3 DEF Shapes, StreamTables
LEMMA TakesFrames ==
  ASSUME NEW i \in Ids, NEW s \in StreamRecords, NEW a, NEW m, NEW space, NEW controlsOnly,
         Takes(i, s, a, m, space, controlsOnly)
  PROVE  m = <<>> \/ \E f \in Frames : m = <<f>> /\ f.stream = i
<1> DEFINE q == Pulled(s)
<1>1. q \in StreamRecords /\ q.pending \in Seq(Chunks) /\ s.grant \in Nat
  BY PulledForm DEF StreamRecords
<1>2. q.pending # <<>> => q.pending[1].sequence \in Nat /\ q.pending[1].len \in Nat
  BY <1>1, HeadItem, ChunkFields
<1>3. /\ \A kind \in Kinds, x \in Nat, n \in Nat :
           Frame(kind, i, x, n) \in Frames /\ Frame(kind, i, x, n).stream = i
      /\ "RESET" \in Kinds /\ "OPEN" \in Kinds /\ "OPENED" \in Kinds /\ "CREDIT" \in Kinds
      /\ "FIN" \in Kinds /\ "DATA" \in Kinds /\ 0 \in Nat
  BY DEF Frame, Frames, Kinds
<1> HIDE DEF q
<1>4. \/ TakesReset(i, s, a, m) \/ TakesOpen(i, s, a, m) \/ TakesLate(i, s, a, m, space)
      \/ TakesOpened(i, s, a, m) \/ TakesCredit(i, s, a, m)
      \/ TakesNone(s, q, a, m, space, controlsOnly)
      \/ TakesFin(i, s, q, a, m) \/ TakesData(i, s, q, a, m)
  BY DEF Takes, q
<1>5. CASE TakesReset(i, s, a, m)
  BY <1>3, <1>5 DEF TakesReset
<1>6. CASE TakesOpen(i, s, a, m)
  <2>1. OpenBody[i] \in Nat
    BY OpenAssumption DEF Ids
  <2> QED BY <1>3, <1>6, <2>1 DEF TakesOpen
<1>12. CASE TakesLate(i, s, a, m, space)
  BY <1>12 DEF TakesLate
<1>7. CASE TakesOpened(i, s, a, m)
  BY <1>3, <1>7 DEF TakesOpened
<1>8. CASE TakesCredit(i, s, a, m)
  BY <1>1, <1>3, <1>8 DEF TakesCredit
<1>9. CASE TakesNone(s, q, a, m, space, controlsOnly)
  BY <1>9 DEF TakesNone
<1>10. CASE TakesFin(i, s, q, a, m)
  BY <1>2, <1>3, <1>10 DEF TakesFin
<1>11. CASE TakesData(i, s, q, a, m)
  <2>1. PICK n \in 1..q.pending[1].len : m = <<Frame("DATA", i, q.pending[1].sequence, n)>>
    BY <1>11 DEF TakesData
  <2>2. n \in Nat /\ q.pending[1].sequence \in Nat
    BY <1>2, <1>11, <2>1 DEF TakesData
  <2> QED BY <1>3, <2>1, <2>2
<1> QED BY <1>4, <1>5, <1>6, <1>7, <1>8, <1>9, <1>10, <1>11, <1>12

\* The stream leaves the table with its frame.
Leaves(s, a, m) == s.reset \/ (m # <<>> /\ Retirable(a))

\* The turn of stream i, at position c + 1, which take leaves as a with the
\* frames m sent.
Turn(p, c, i, a, m) ==
  /\ c \in 0..Len(order[p]) - 1 /\ (c = cursor[p] \/ (c = 0 /\ cursor[p] = Len(order[p])))
  /\ i = order[p][c + 1] /\ i \in streams[p] /\ i \in Ids
  /\ room[p] - FrameHeader \in Nat /\ misses[p] < Len(order[p]) /\ ~closed[p] /\ Taking(p)
  /\ Takes(i, st[p][i], a, m, room[p] - FrameHeader, carrier[p] = "controls") /\ Moved(p, i)
  /\ m = <<>> \/ \E f \in Frames : m = <<f>> /\ f.stream = i
  /\ wire' \in [Ends -> Seq(Frames)] /\ wire'[p] = wire[p] \o m /\ wire'[Other(p)] = wire[Other(p)]
  /\ misses' = [misses EXCEPT ![p] = IF m = <<>> THEN @ + 1 ELSE 0]
  /\ room' = [room EXCEPT ![p] = IF m = <<>> THEN @ ELSE Max({0, @ - FrameSize(Head(m))})]
  /\ st'[p][i] = IF m # <<>> /\ Retirable(a) THEN ClosedStream(a) ELSE a
  /\ \/ Leaves(st[p][i], a, m) /\ RemoveStream(p, i, c + 1)
     \/ /\ ~Leaves(st[p][i], a, m) /\ UNCHANGED <<streams, order>>
        /\ cursor' = [cursor EXCEPT ![p] = c + 1]

LEMMA TakeForm ==
  ASSUME Shapes, Scheduling, NEW p \in Ends, Take(p)
  PROVE  \E c \in Nat, i \in Ids : \E a, m : Turn(p, c, i, a, m)
<1> DEFINE c == cursor[p] % Len(order[p])
           i == order[p][c + 1]
           s == st[p][i]
           space == room[p] - FrameHeader
           only == carrier[p] = "controls"
           t == Taken(i, s, only, space)
           a == t.after
           m == t.frame
           u == IF m # <<>> /\ Retirable(a) THEN ClosedStream(a) ELSE a
<1>1. /\ ~closed[p] /\ Taking(p) /\ misses[p] < Len(order[p]) /\ room[p] >= FrameHeader
  <2>1. ~closed[p] /\ Taking(p) /\ TakeGoesOn(p)
    BY Zenon DEF Take
  <2> QED BY <2>1 DEF TakeGoesOn
<1>2. /\ order[p] \in Seq(Ids) /\ Len(order[p]) \in Nat /\ cursor[p] \in Nat /\ misses[p] \in Nat
      /\ room[p] \in Nat /\ wire \in [Ends -> Seq(Frames)] /\ wire[p] \in Seq(Frames)
      /\ FrameHeader \in Nat
  BY MuxAssumption DEF Shapes
<1>3. cursor[p] <= Len(order[p]) /\ Len(order[p]) > 0 /\ space \in Nat
  BY <1>1, <1>2 DEF Scheduling, Listed
<1>4. c \in 0..Len(order[p]) - 1 /\ (c = cursor[p] \/ (c = 0 /\ cursor[p] = Len(order[p])))
  <2> DEFINE n == Len(order[p])
             k == cursor[p]
  <2>1. n \in Nat \ {0} /\ k \in Nat /\ k <= n
    BY <1>2, <1>3
  <2> HIDE DEF n, k
  <2>2. k < n => k % n = k
    BY <2>1
  <2>3. k = n => k % n = 0
    BY <2>1
  <2>4. k % n \in 0..n - 1 /\ (k % n = k \/ (k % n = 0 /\ k = n))
    BY <2>1, <2>2, <2>3
  <2> QED BY <2>4 DEF n, k
<1> HIDE DEF c, space, only
<1>5. c \in Nat /\ c + 1 \in 1..Len(order[p])
  BY <1>2, <1>4
<1>6. i \in streams[p] /\ i \in Ids
  BY <1>2, <1>5 DEF Scheduling, Listed
<1>7. s \in StreamRecords /\ ~Retirable(s)
  BY <1>6, OneStream DEF Scheduling, Active
<1>8. Takes(i, s, a, m, space, only)
  BY <1>3, <1>7, TakenForm DEF only
<1>9. /\ SetStream(p, i, u)
      /\ wire' = [wire EXCEPT ![p] = @ \o m]
      /\ misses' = [misses EXCEPT ![p] = IF m = <<>> THEN @ + 1 ELSE 0]
      /\ room' = [room EXCEPT ![p] = IF m = <<>> THEN @ ELSE Max({0, @ - FrameSize(Head(m))})]
      /\ \/ Leaves(s, a, m) /\ RemoveStream(p, i, c + 1)
         \/ /\ ~Leaves(s, a, m) /\ UNCHANGED <<streams, order>>
            /\ cursor' = [cursor EXCEPT ![p] = c + 1]
  <2> DEFINE finished == m # <<>> /\ Retirable(a)
  <2>1. /\ IF Retirable(s)
             THEN SetStream(p, i, ClosedStream(s)) /\ UNCHANGED <<wire, misses, room>>
             ELSE /\ SetStream(p, i, IF finished THEN ClosedStream(a) ELSE a)
                  /\ wire' = [wire EXCEPT ![p] = @ \o m]
                  /\ misses' = [misses EXCEPT ![p] = IF m = <<>> THEN @ + 1 ELSE 0]
                  /\ room' = [room EXCEPT ![p] =
                                IF m = <<>> THEN @ ELSE Max({0, @ - FrameSize(Head(m))})]
        /\ IF Retirable(s) \/ s.reset \/ finished
             THEN RemoveStream(p, i, c + 1)
             ELSE cursor' = [cursor EXCEPT ![p] = c + 1] /\ UNCHANGED <<streams, order>>
    BY Zenon DEF Take, c, space, only
  <2> HIDE DEF s, t, i, u, a, m
  <2>2. /\ SetStream(p, i, u)
        /\ wire' = [wire EXCEPT ![p] = @ \o m]
        /\ misses' = [misses EXCEPT ![p] = IF m = <<>> THEN @ + 1 ELSE 0]
        /\ room' = [room EXCEPT ![p] = IF m = <<>> THEN @ ELSE Max({0, @ - FrameSize(Head(m))})]
    BY <1>7, <2>1 DEF u
  <2>3. Leaves(s, a, m) <=> s.reset \/ finished
    BY DEF Leaves
  <2>4. IF s.reset \/ finished THEN RemoveStream(p, i, c + 1)
        ELSE cursor' = [cursor EXCEPT ![p] = c + 1] /\ UNCHANGED <<streams, order>>
    BY <1>7, <2>1
  <2> QED BY <2>2, <2>3, <2>4
<1> HIDE DEF t, s
<1>10. a \in StreamRecords /\ ClosedStream(a) \in StreamRecords
  BY <1>8, ClosedStreamKeeps DEF Takes
<1>11. m = <<>> \/ \E f \in Frames : m = <<f>> /\ f.stream = i
  BY <1>6, <1>7, <1>8, TakesFrames
<1> HIDE DEF a, m
<1>12. u \in StreamRecords
  BY <1>10
<1>13. Moved(p, i) /\ st'[p][i] = u
  <2> HIDE DEF u
  <2> QED BY <1>6, <1>9, <1>12, SetStreamMoves DEF Shapes
<1>14. wire[p] \o m \in Seq(Frames)
  <2>1. m \in Seq(Frames)
    <3>1. \A f \in Frames : <<f>> \in Seq(Frames)
      OBVIOUS
    <3>2. <<>> \in Seq(Frames)
      OBVIOUS
    <3> QED BY <1>11, <3>1, <3>2
  <2> QED BY <1>2, <2>1
<1>15. /\ wire' \in [Ends -> Seq(Frames)] /\ wire'[p] = wire[p] \o m
       /\ wire'[Other(p)] = wire[Other(p)]
  BY <1>2, <1>9, <1>14, EndsPair
<1>16. Turn(p, c, i, a, m)
  <2> HIDE DEF i
  <2>1. i = order[p][c + 1]
    BY DEF i
  <2> QED BY <1>1, <1>3, <1>4, <1>6, <1>8, <1>9, <1>11, <1>13, <1>15, <2>1 DEF Turn, s, space, only
<1> QED BY <1>5, <1>6, <1>16
-----------------------------------------------------------------------------
(* The types and the tables are invariant. *)

\* Only stream i of end p changes, by one of its own goroutines.
LocalStep(p, i) ==
  /\ Moved(p, i) /\ UNCHANGED <<streams, pvars, cvars, wire>>
  /\ changes' \in [Ends -> BOOLEAN] /\ \A e \in Ends : e # p => changes'[e] = changes[e]
  /\ got' \in [Ends -> [Ids -> Nat]] /\ put' \in [Ends -> [Ids -> Nat]]

LocalAction(p, i) ==
  \/ p = "server" /\ \E ok \in BOOLEAN : Dialed(i, ok)
  \/ \E n \in 1..StreamChunk : ReadData(p, i, n)
  \/ ReadQueue(p, i) \/ ReadDrop(p, i) \/ ReadEOF(p, i) \/ ReadError(p, i)
  \/ WritePop(p, i) \/ WriteDone(p, i) \/ WriteError(p, i)

LEMMA NotifyKeeps ==
  ASSUME Shapes, NEW p \in Ends, Notify(p)
  PROVE  /\ changes' \in [Ends -> BOOLEAN] /\ changes'[p] = TRUE
         /\ \A e \in Ends : e # p => changes'[e] = changes[e]
  BY DEF Shapes, Notify

LEMMA CountKeeps ==
  ASSUME NEW h \in [Ends -> [Ids -> Nat]], NEW p \in Ends, NEW i \in Ids, NEW n \in Nat
  PROVE  LET g == [h EXCEPT ![p][i] = @ + n] IN
         /\ g \in [Ends -> [Ids -> Nat]] /\ g[p][i] = h[p][i] + n
         /\ \A e \in Ends, j \in Ids : e # p \/ j # i => g[e][j] = h[e][j]
<1> DEFINE row == [h[p] EXCEPT ![i] = h[p][i] + n]
           g == [h EXCEPT ![p] = row]
<1>1. h[p] \in [Ids -> Nat] /\ h[p][i] \in Nat
  OBVIOUS
<1>2. row \in [Ids -> Nat] /\ row[i] = h[p][i] + n /\ \A j \in Ids : j # i => row[j] = h[p][j]
  BY <1>1
<1> HIDE DEF row
<1>3. g \in [Ends -> [Ids -> Nat]] /\ g[p] = row /\ \A e \in Ends : e # p => g[e] = h[e]
  BY <1>2
<1> HIDE DEF g
<1>4. g = [h EXCEPT ![p][i] = @ + n]
  BY DEF g, row
<1>5. /\ g[p][i] = h[p][i] + n
      /\ \A e \in Ends, j \in Ids : e # p \/ j # i => g[e][j] = h[e][j]
  BY <1>2, <1>3
<1> QED BY <1>3, <1>4, <1>5

LEMMA LocalActionIsLocal ==
  ASSUME Shapes, NEW p \in Ends, NEW i \in Ids, LocalAction(p, i)
  PROVE  LocalStep(p, i)
<1> USE DEF LocalStep
<1>1. /\ got \in [Ends -> [Ids -> Nat]] /\ put \in [Ends -> [Ids -> Nat]]
      /\ changes \in [Ends -> BOOLEAN]
  BY DEF Shapes
<1>2. ASSUME p = "server", NEW ok \in BOOLEAN, Dialed(i, ok) PROVE LocalStep(p, i)
  <2>1. Moved(p, i)
    BY <1>2, DialedStream
  <2>2. Notify(p) /\ UNCHANGED <<streams, pvars, cvars, wire, got, put>>
    BY <1>2 DEF Dialed
  <2> QED BY <1>1, <2>1, <2>2, NotifyKeeps
<1>3. ASSUME NEW n \in 1..StreamChunk, ReadData(p, i, n) PROVE LocalStep(p, i)
  <2>1. Moved(p, i)
    BY <1>3, ReadDataStream
  <2>2. got' = [got EXCEPT ![p][i] = @ + n] /\ UNCHANGED <<streams, pvars, changes, cvars, wire, put>>
    BY <1>3 DEF ReadData
  <2>3. n \in Nat
    BY <1>3, MuxAssumption
  <2>4. got' \in [Ends -> [Ids -> Nat]]
    BY <1>1, <2>2, <2>3, CountKeeps
  <2> QED BY <1>1, <2>1, <2>2, <2>4
<1>4. CASE ReadQueue(p, i)
  <2>1. Moved(p, i)
    BY <1>4, ReadQueueStream
  <2>2. Notify(p) /\ UNCHANGED <<streams, pvars, cvars, wire, got, put>>
    BY <1>4 DEF ReadQueue
  <2> QED BY <1>1, <2>1, <2>2, NotifyKeeps
<1>5. CASE ReadDrop(p, i)
  <2>1. Moved(p, i)
    BY <1>5, ReadDropStream
  <2>2. UNCHANGED <<streams, pvars, changes, cvars, wire, got, put>>
    BY <1>5 DEF ReadDrop
  <2> QED BY <1>1, <2>1, <2>2
<1>6. CASE ReadEOF(p, i)
  <2>1. Moved(p, i)
    BY <1>6, ReadEOFStream
  <2>2. Notify(p) /\ UNCHANGED <<streams, pvars, cvars, wire, got, put>>
    BY <1>6 DEF ReadEOF
  <2> QED BY <1>1, <2>1, <2>2, NotifyKeeps
<1>7. CASE ReadError(p, i)
  <2>1. Moved(p, i)
    BY <1>7, ReadErrorStream
  <2>2. (UNCHANGED changes \/ Notify(p)) /\ UNCHANGED <<streams, pvars, cvars, wire, got, put>>
    BY <1>7 DEF ReadError
  <2> QED BY <1>1, <2>1, <2>2, NotifyKeeps
<1>8. CASE WritePop(p, i)
  <2>1. Moved(p, i)
    BY <1>8, WritePopStream
  <2>2. UNCHANGED <<streams, pvars, changes, cvars, wire, got, put>>
    BY <1>8 DEF WritePop
  <2> QED BY <1>1, <2>1, <2>2
<1>9. CASE WriteDone(p, i)
  <2>1. Moved(p, i)
    BY <1>9, WriteDoneStream
  <2>2. /\ Notify(p) /\ UNCHANGED <<streams, pvars, cvars, wire, got>>
        /\ put' = [put EXCEPT ![p][i] = @ + st[p][i].writing]
    BY <1>9 DEF WriteDone
  <2>3. st[p][i].writing \in Nat
    BY OneStream DEF StreamRecords
  <2>4. put' \in [Ends -> [Ids -> Nat]]
    BY <1>1, <2>2, <2>3, CountKeeps
  <2> QED BY <1>1, <2>1, <2>2, <2>4, NotifyKeeps
<1>10. CASE WriteError(p, i)
  <2>1. Moved(p, i)
    BY <1>10, WriteErrorStream
  <2>2. Notify(p) /\ UNCHANGED <<streams, pvars, cvars, wire, got, put>>
    BY <1>10 DEF WriteError
  <2> QED BY <1>1, <2>1, <2>2, NotifyKeeps
<1> QED
  BY <1>2, <1>3, <1>4, <1>5, <1>6, <1>7, <1>8, <1>9, <1>10 DEF LocalAction

\* The steps of Next, the local ones together.
LEMMA NextCases ==
  ASSUME Next
  PROVE  /\ UNCHANGED scene
         /\ \/ \E i \in Ids : Open(i)
            \/ \E p \in Ends, i \in Ids : LocalAction(p, i)
            \/ \E p \in Ends, i \in Ids : WriteFin(p, i)
            \/ \E p \in Ends : \/ ReceiveOpen(p) \/ ReceiveFrame(p) \/ ReceiveRetired(p)
                               \/ Take(p) \/ CarrierCheck(p) \/ TakeEnd(p) \/ Close(p)
<1> USE DEF LocalAction
<1>1. "server" \in Ends
  BY DEF Ends
<1>2. ASSUME NEW i \in Ids, NEW ok \in BOOLEAN, Dialed(i, ok)
      PROVE  \E p \in Ends, j \in Ids : LocalAction(p, j)
  BY <1>1, <1>2
<1>3. ASSUME NEW p \in Ends, NEW i \in Ids, Reader(p, i)
      PROVE  \E e \in Ends, j \in Ids : LocalAction(e, j)
  BY <1>3 DEF Reader
<1>4. ASSUME NEW p \in Ends, NEW i \in Ids, Writer(p, i)
      PROVE  WriteFin(p, i) \/ \E e \in Ends, j \in Ids : LocalAction(e, j)
  BY <1>4 DEF Writer
<1> QED BY <1>2, <1>3, <1>4, Zenon DEF Next, Receive, Carrier
LEMMA FrameSizeIsNat == ASSUME NEW f \in Frames PROVE FrameSize(f) \in Nat /\ FrameSize(f) >= FrameHeader
<1>1. f.len \in Nat /\ FrameHeader \in Nat /\ CreditBody \in Nat
  BY MuxAssumption DEF Frames
<1>2. CASE f.kind = "DATA"
  BY <1>1, <1>2 DEF FrameSize
<1>3. CASE f.kind = "CREDIT"
  BY <1>1, <1>3 DEF FrameSize
<1>4. CASE f.kind # "DATA" /\ f.kind # "CREDIT"
  BY <1>1, <1>4 DEF FrameSize
<1> QED BY <1>2, <1>3, <1>4

LEMMA TurnTypes ==
  ASSUME Shapes, NEW p \in Ends, NEW c, NEW i, NEW a, NEW m, Turn(p, c, i, a, m)
  PROVE  /\ misses' \in [Ends -> Nat] /\ misses'[p] = IF m = <<>> THEN misses[p] + 1 ELSE 0
         /\ misses'[Other(p)] = misses[Other(p)]
         /\ room' \in [Ends -> Nat] /\ room'[Other(p)] = room[Other(p)]
         /\ IF m = <<>> THEN room'[p] = room[p] ELSE room'[p] < CellBudget \/ room[p] > CellBudget
<1> DEFINE x == IF m = <<>> THEN misses[p] + 1 ELSE 0
           y == IF m = <<>> THEN room[p] ELSE Max({0, room[p] - FrameSize(Head(m))})
<1>1. misses' = [misses EXCEPT ![p] = x] /\ room' = [room EXCEPT ![p] = y]
  BY DEF Turn
<1>2. /\ misses \in [Ends -> Nat] /\ room \in [Ends -> Nat] /\ misses[p] \in Nat /\ room[p] \in Nat
      /\ FrameHeader \in Nat \ {0} /\ CellBudget \in Nat /\ CellBudget > 0
  BY MuxAssumption, SMTT(40) DEF Shapes
<1>3. x \in Nat
  BY <1>2
<1>4. /\ y \in Nat
      /\ IF m = <<>> THEN y = room[p] ELSE y < CellBudget \/ room[p] > CellBudget
  <2>1. CASE m = <<>>
    BY <1>2, <2>1
  <2>2. CASE m # <<>>
    <3>1. PICK f \in Frames : m = <<f>>
      BY <2>2 DEF Turn
    <3> DEFINE z == FrameSize(f)
               r == room[p]
    <3>2. z \in Nat /\ z >= FrameHeader /\ r \in Nat
      BY <1>2, FrameSizeIsNat
    <3>3. y = Max({0, r - z})
      BY <2>2, <3>1
    <3> HIDE DEF y, z, r
    <3>4. y = IF 0 >= r - z THEN 0 ELSE r - z
      BY <3>2, <3>3, MaxOfTwo
    <3>5. y \in Nat /\ (y < CellBudget \/ r > CellBudget)
      BY <1>2, <3>2, <3>4
    <3> QED BY <2>2, <3>5 DEF r
  <2> QED BY <2>1, <2>2
<1> HIDE DEF x, y
<1>5. Other(p) \in Ends /\ Other(p) # p
  BY EndsPair
<1> QED BY <1>1, <1>2, <1>3, <1>4, <1>5 DEF x

LEMMA ShapesStep ==
  ASSUME Shapes, Scheduling, [Next]_vars
  PROVE  Shapes'
<1> USE DEF pvars, cvars
<1>1. CASE UNCHANGED vars
  BY <1>1 DEF vars, Shapes, StreamTables
<1>2. ASSUME UNCHANGED scene, NEW i \in Ids, Open(i) PROVE Shapes'
  <2>1. Moved("client", i) /\ "client" \in Ends
    BY <1>2, OpenStream DEF Ends
  <2>2. /\ AddStream("client", i, AttachedStream([NewStream("client") EXCEPT !.open = TRUE]))
        /\ Notify("client") /\ UNCHANGED <<cursor, closed, cvars, wire, got, put>>
        /\ i = highest["client"] + 1
    BY <1>2 DEF Open
  <2>3. highest["client"] \in 0..MaxId /\ Listed("client")
    BY <2>1 DEF Shapes, Scheduling
  <2>4. i > highest["client"]
    BY <2>2, <2>3, MuxAssumption
  <2>5. /\ streams' \in [Ends -> SUBSET Ids] /\ order' \in [Ends -> Seq(Ids)]
        /\ highest' \in [Ends -> 0..MaxId]
    BY <2>1, <2>2, <2>3, <2>4, AddedListed
  <2>6. changes' \in [Ends -> BOOLEAN]
    BY <2>1, <2>2, NotifyKeeps
  <2> QED BY <1>2, <2>1, <2>2, <2>5, <2>6 DEF Shapes, Moved
<1>3. ASSUME UNCHANGED scene, NEW p \in Ends, NEW i \in Ids, LocalAction(p, i) PROVE Shapes'
  <2>1. LocalStep(p, i)
    BY <1>3, LocalActionIsLocal
  <2> QED BY <1>3, <2>1 DEF LocalStep, Moved, Shapes
<1>4. ASSUME UNCHANGED scene, NEW p \in Ends, NEW i \in Ids, WriteFin(p, i) PROVE Shapes'
  <2>0. UNCHANGED <<highest, closed, changes, cvars, wire, got, put>>
    BY <1>4 DEF WriteFin
  <2>1. /\ Moved(p, i)
        /\ \/ i \in streams[p] /\ RemoveStream(p, i, cursor[p])
           \/ UNCHANGED <<streams, order, cursor>>
    BY <1>4, WriteFinStream
  <2>2. CASE i \in streams[p] /\ RemoveStream(p, i, cursor[p])
    <3>1. cursor[p] \in Nat /\ Listed(p)
      BY DEF Shapes, Scheduling
    <3>2. PICK k \in 1..Len(order[p]) : Removes(p, i, k, cursor[p])
      BY <2>2, <3>1, RemoveStreamForm
    <3>3. Shortened(p, i, k) /\ cursor' \in [Ends -> Nat]
      BY <3>2, RemovedTables DEF Removes
    <3> QED BY <1>4, <2>0, <2>1, <3>3 DEF Shapes, Moved, Shortened
  <2>3. CASE UNCHANGED <<streams, order, cursor>>
    BY <1>4, <2>0, <2>1, <2>3 DEF Shapes, Moved
  <2> QED BY <2>1, <2>2, <2>3
<1>5. ASSUME UNCHANGED scene, NEW p \in Ends, ReceiveOpen(p) PROVE Shapes'
  <2> DEFINE i == Head(wire["client"]).stream
  <2>1. /\ p = "server" /\ Consumed("server") /\ i \in Ids /\ i > highest["server"]
        /\ Moved("server", i)
    BY <1>5, ReceiveOpenStream
  <2>2. /\ AddStream("server", i, [NewStream("server") EXCEPT !.conn = "dialing"])
        /\ Notify(p) /\ UNCHANGED <<cursor, closed, cvars, got, put>>
    <3>1. Other("server") = "client"
      BY DEF Other
    <3> QED BY <1>5, <2>1, <3>1, Zenon DEF ReceiveOpen
  <2> HIDE DEF i
  <2>3. Listed("server")
    BY <2>1 DEF Scheduling
  <2>4. /\ streams' \in [Ends -> SUBSET Ids] /\ order' \in [Ends -> Seq(Ids)]
        /\ highest' \in [Ends -> 0..MaxId]
    BY <2>1, <2>2, <2>3, AddedListed
  <2>5. changes' \in [Ends -> BOOLEAN]
    BY <2>2, NotifyKeeps
  <2> QED BY <1>5, <2>1, <2>2, <2>4, <2>5 DEF Shapes, Moved, Consumed
<1>6. ASSUME UNCHANGED scene, NEW p \in Ends, ReceiveFrame(p) PROVE Shapes'
  <2> DEFINE i == Head(wire[Other(p)]).stream
  <2>1. /\ Moved(p, i) /\ Consumed(p) /\ i \in streams[p]
        /\ \/ RemoveStream(p, i, cursor[p])
           \/ UNCHANGED <<streams, order, cursor>>
    BY <1>6, ReceiveFrameStream
  <2>2. Notify(p) /\ UNCHANGED <<highest, closed, cvars, got, put>>
    BY <1>6 DEF ReceiveFrame
  <2>3. changes' \in [Ends -> BOOLEAN]
    BY <2>2, NotifyKeeps
  <2> HIDE DEF i
  <2>4. CASE RemoveStream(p, i, cursor[p])
    <3>1. cursor[p] \in Nat /\ Listed(p)
      BY DEF Shapes, Scheduling
    <3>2. PICK k \in 1..Len(order[p]) : Removes(p, i, k, cursor[p])
      BY <2>1, <2>4, <3>1, RemoveStreamForm
    <3>3. Shortened(p, i, k) /\ cursor' \in [Ends -> Nat]
      BY <3>2, RemovedTables DEF Removes
    <3> QED BY <1>6, <2>1, <2>2, <2>3, <3>3 DEF Shapes, Moved, Shortened, Consumed
  <2>5. CASE UNCHANGED <<streams, order, cursor>>
    BY <1>6, <2>1, <2>2, <2>3, <2>5 DEF Shapes, Moved, Consumed
  <2> QED BY <2>1, <2>4, <2>5
<1>7. ASSUME UNCHANGED scene, NEW p \in Ends, ReceiveRetired(p) PROVE Shapes'
  <2>1. Arriving(p) /\ Consume(p) /\ Notify(p) /\ UNCHANGED <<streams, st, pvars, cvars, got, put>>
    BY <1>7 DEF ReceiveRetired
  <2>2. Consumed(p) /\ changes' \in [Ends -> BOOLEAN]
    BY <2>1, ConsumeForm, NotifyKeeps
  <2> QED BY <1>7, <2>1, <2>2 DEF Shapes, Consumed, StreamTables
<1>8. ASSUME UNCHANGED scene, NEW p \in Ends, Take(p) PROVE Shapes'
  <2>1. PICK c \in Nat, i \in Ids : \E a, m : Turn(p, c, i, a, m)
    BY <1>8, TakeForm
  <2>2. PICK a, m : Turn(p, c, i, a, m)
    BY <2>1
  <2>3. UNCHANGED <<highest, closed, changes, carrier, got, put>>
    BY <1>8 DEF Take
  <2>4. misses' \in [Ends -> Nat] /\ room' \in [Ends -> Nat]
    BY <2>2, TurnTypes
  <2>5. /\ Moved(p, i) /\ wire' \in [Ends -> Seq(Frames)] /\ i \in streams[p]
        /\ \/ RemoveStream(p, i, c + 1)
           \/ UNCHANGED <<streams, order>> /\ cursor' = [cursor EXCEPT ![p] = c + 1]
    BY <2>2 DEF Turn
  <2>6. streams' \in [Ends -> SUBSET Ids] /\ order' \in [Ends -> Seq(Ids)] /\ cursor' \in [Ends -> Nat]
    <3>1. CASE RemoveStream(p, i, c + 1)
      <4>1. c + 1 \in Nat /\ Listed(p)
        BY DEF Scheduling
      <4>2. PICK k \in 1..Len(order[p]) : Removes(p, i, k, c + 1)
        BY <2>5, <3>1, <4>1, RemoveStreamForm
      <4> QED BY <4>2, RemovedTables DEF Removes, Shortened
    <3>2. CASE UNCHANGED <<streams, order>> /\ cursor' = [cursor EXCEPT ![p] = c + 1]
      BY <3>2 DEF Shapes
    <3> QED BY <2>5, <3>1, <3>2
  <2> QED BY <1>8, <2>3, <2>4, <2>5, <2>6 DEF Shapes, Moved
<1>9. ASSUME UNCHANGED scene, NEW p \in Ends, CarrierCheck(p) PROVE Shapes'
  <2>1. UNCHANGED <<streams, st, pvars, misses, room, wire, got, put>>
    BY <1>9 DEF CarrierCheck
  <2>2. changes' \in [Ends -> BOOLEAN] /\ carrier' \in [Ends -> {"check", "data", "controls", "sleep"}]
    <3> DEFINE x == IF PressureBytes(p) THEN "data" ELSE IF PressureControls(p) THEN "controls" ELSE "sleep"
               y == changes[p] /\ carrier[p] = "check"
    <3>1. carrier' = [carrier EXCEPT ![p] = x] /\ changes' = [changes EXCEPT ![p] = y]
      BY <1>9 DEF CarrierCheck
    <3>2. x \in {"check", "data", "controls", "sleep"} /\ y \in BOOLEAN
      BY DEF Shapes
    <3> HIDE DEF x, y
    <3> QED BY <3>1, <3>2 DEF Shapes
  <2> QED BY <1>9, <2>1, <2>2 DEF Shapes, StreamTables
<1>10. ASSUME UNCHANGED scene, NEW p \in Ends, TakeEnd(p) PROVE Shapes'
  <2>1. UNCHANGED <<streams, st, pvars, changes, wire, got, put>>
    BY <1>10 DEF TakeEnd
  <2>2. /\ carrier' \in [Ends -> {"check", "data", "controls", "sleep"}]
        /\ misses' \in [Ends -> Nat] /\ room' \in [Ends -> Nat]
    BY <1>10, MuxAssumption DEF TakeEnd, Shapes
  <2> QED BY <1>10, <2>1, <2>2 DEF Shapes, StreamTables
<1>11. ASSUME UNCHANGED scene, NEW p \in Ends, Close(p) PROVE Shapes'
  <2>1. st' \in StreamTables
    BY <1>11, CloseStreams
  <2>2. /\ UNCHANGED <<streams, order, cursor, highest, changes, cvars, wire, got, put>>
        /\ closed' \in [Ends -> BOOLEAN]
    BY <1>11 DEF Close, Shapes
  <2> QED BY <1>11, <2>1, <2>2 DEF Shapes
<1> QED
  BY <1>1, <1>2, <1>3, <1>4, <1>5, <1>6, <1>7, <1>8, <1>9, <1>10, <1>11, NextCases
LEMMA ListedSame ==
  ASSUME NEW e, Listed(e), streams'[e] = streams[e], order'[e] = order[e],
         highest'[e] = highest[e], cursor'[e] = cursor[e]
  PROVE  Listed(e)'
  BY DEF Listed

LEMMA ActiveKept ==
  ASSUME Shapes, \A e \in Ends : Active(e), NEW p \in Ends, NEW i \in Ids, Moved(p, i),
         \A e \in Ends : streams'[e] \subseteq streams[e] \cup (IF e = p THEN {i} ELSE {}),
         i \in streams'[p] => ~Retirable(st'[p][i])
  PROVE  \A e \in Ends : Active(e)'
<1> TAKE e \in Ends
<1>1. SUFFICES ASSUME NEW j \in streams'[e] PROVE ~Retirable(st'[e][j])
  BY DEF Active
<1>2. CASE e = p /\ j = i
  BY <1>2
<1>3. CASE ~(e = p /\ j = i)
  <2>1. j \in streams[e] /\ j \in Ids
    BY <1>3 DEF Shapes
  <2>2. st'[e][j] = st[e][j]
    BY <1>3, <2>1 DEF Moved
  <2>3. ~Retirable(st[e][j])
    BY <2>1 DEF Active
  <2> QED BY <2>2, <2>3
<1> QED BY <1>2, <1>3

LEMMA LocalKeepsActive ==
  ASSUME Shapes, NEW p \in Ends, NEW i \in Ids, LocalAction(p, i)
  PROVE  Retirable(st'[p][i]) => Retirable(st[p][i])
<1> USE DEF Retirable, SameAmounts, SameOut, SameIn
<1>0. st[p][i].grant \in Nat /\ st[p][i].writing \in Nat
  BY OneStream DEF StreamRecords
<1>1. ASSUME p = "server", NEW ok \in BOOLEAN, Dialed(i, ok)
      PROVE Retirable(st'[p][i]) => Retirable(st[p][i])
  BY <1>1, DialedStream
<1>2. ASSUME NEW n \in 1..StreamChunk, ReadData(p, i, n)
      PROVE Retirable(st'[p][i]) => Retirable(st[p][i])
  BY <1>2, ReadDataStream
<1>3. CASE ReadQueue(p, i)
  BY <1>3, ReadQueueStream
<1>4. CASE ReadDrop(p, i)
  BY <1>4, ReadDropStream
<1>5. CASE ReadEOF(p, i)
  BY <1>5, ReadEOFStream
<1>6. CASE ReadError(p, i)
  BY <1>6, ReadErrorStream
<1>7. CASE WritePop(p, i)
  BY <1>7, WritePopStream
<1>8. CASE WriteDone(p, i)
  <2>1. LET s == st[p][i]
            t == st'[p][i] IN
        /\ t.localFinSent = s.localFinSent /\ t.remoteFinWritten = s.remoteFinWritten
        /\ t.grant = s.grant + s.writing
    BY <1>8, WriteDoneStream
  <2> QED BY <1>0, <2>1
<1>9. CASE WriteError(p, i)
  BY <1>9, WriteErrorStream
<1> QED BY <1>1, <1>2, <1>3, <1>4, <1>5, <1>6, <1>7, <1>8, <1>9 DEF LocalAction

LEMMA ClosedRetirable ==
  ASSUME NEW s \in StreamRecords PROVE Retirable(ClosedStream(s)) <=> Retirable(s)
<1> DEFINE t == ClosedStream(s)
<1>1. SameAmounts(s, t) /\ SameOut(s, t) /\ SameIn(s, t)
  BY ClosedStreamKeeps
<1> HIDE DEF t
<1>2. t.grant = s.grant /\ t.localFinSent = s.localFinSent /\ t.remoteFinWritten = s.remoteFinWritten
  BY <1>1 DEF SameAmounts, SameOut, SameIn
<1> QED BY <1>2 DEF Retirable, t

LEMMA GetsActive ==
  ASSUME NEW p, NEW s, NEW t, NEW f, Gets(p, s, t, f)
  PROVE  Retirable(t) => Retirable(s)
<1>1. SameOut(s, t)
  BY DEF Gets
<1>2. t.grant = s.grant /\ t.remoteFinWritten = s.remoteFinWritten
  BY DEF Gets, GetsData, GetsFin, GetsCredit, GetsOpened, GetsReset, SameAmounts, SameIn
<1> QED BY <1>1, <1>2 DEF Retirable, SameOut

\* take retires a stream with the frame that finished it.
LEMMA TurnActive ==
  ASSUME Shapes, NEW p \in Ends, NEW c, NEW i \in Ids, NEW a, NEW m, Turn(p, c, i, a, m),
         ~Retirable(st[p][i]), ~Leaves(st[p][i], a, m)
  PROVE  ~Retirable(st'[p][i]) /\ ~Retirable(a)
<1> DEFINE s == st[p][i]
           q == Pulled(s)
<1>1. Takes(i, s, a, m, room[p] - FrameHeader, carrier[p] = "controls")
  BY DEF Turn
<1>2. s \in StreamRecords
  BY OneStream
<1>3. ~s.reset /\ (m # <<>> => ~Retirable(a))
  BY DEF Leaves
<1>4. st'[p][i] = a
  BY <1>3 DEF Turn
<1> HIDE DEF s
<1>5. m = <<>> => ~Retirable(a)
  <2> HAVE m = <<>>
  <2>0. SameIn(s, a)
    BY <1>1 DEF Takes
  <2>1. \A kind, x, n : <<Frame(kind, i, x, n)>> # <<>>
    OBVIOUS
  <2>2. ~TakesReset(i, s, a, m) /\ ~TakesOpen(i, s, a, m) /\ ~TakesOpened(i, s, a, m)
        /\ ~TakesCredit(i, s, a, m) /\ ~TakesFin(i, s, q, a, m) /\ ~TakesData(i, s, q, a, m)
    BY <2>1 DEF TakesReset, TakesOpen, TakesOpened, TakesCredit, TakesFin, TakesData
  <2>3. \/ TakesLate(i, s, a, m, room[p] - FrameHeader)
        \/ TakesQueue(s, q, a) /\ TakesNone(s, q, a, m, room[p] - FrameHeader, carrier[p] = "controls")
    BY <1>1, <2>2 DEF Takes
  <2>4. a.grant = s.grant /\ a.localFinSent = s.localFinSent /\ a.remoteFinWritten = s.remoteFinWritten
    BY <2>0, <2>3 DEF TakesQueue, TakesNone, TakesLate, SameAmounts, SameOut, SameIn
  <2> QED BY <2>4 DEF Retirable, s
<1> QED BY <1>3, <1>4, <1>5

LEMMA SchedulingStep ==
  ASSUME Shapes, Scheduling, [Next]_vars
  PROVE  Scheduling'
<1> USE DEF pvars, cvars
<1>0. /\ \A e \in Ends : Listed(e) /\ Active(e) /\ cursor[e] \in Nat /\ Len(order[e]) \in Nat
      /\ "client" \in Ends /\ "server" \in Ends
  BY DEF Scheduling, Shapes, Ends
<1>1. CASE UNCHANGED vars
  BY <1>1 DEF vars, Scheduling, Listed, Active
<1>2. ASSUME NEW i \in Ids, Open(i) PROVE Scheduling'
  <2>1. Moved("client", i) /\ st'["client"][i].remoteFinWritten = FALSE
    <3>1. Moved("client", i) /\ SameIn(NoStream, st'["client"][i])
      BY <1>2, OpenStream
    <3> QED BY <3>1 DEF SameIn, NoStream
  <2>2. /\ AddStream("client", i, AttachedStream([NewStream("client") EXCEPT !.open = TRUE]))
        /\ cursor' = cursor /\ i = highest["client"] + 1
    BY <1>2 DEF Open
  <2>3. highest["client"] \in 0..MaxId
    BY <1>0 DEF Shapes
  <2>4. i > highest["client"]
    BY <2>2, <2>3, MuxAssumption
  <2>5. /\ Listed("client")' /\ streams'["client"] = streams["client"] \cup {i}
        /\ \A e \in Ends : e # "client" => /\ streams'[e] = streams[e] /\ order'[e] = order[e]
                                           /\ highest'[e] = highest[e]
    BY <1>0, <2>2, <2>4, AddedListed
  <2>6. \A e \in Ends : Listed(e)'
    BY <1>0, <2>2, <2>5, ListedSame
  <2>7. ~Retirable(st'["client"][i])
    BY <2>1 DEF Retirable
  <2>8. \A e \in Ends : Active(e)'
    BY <1>0, <2>1, <2>5, <2>7, ActiveKept
  <2> QED BY <2>6, <2>8 DEF Scheduling
<1>3. ASSUME NEW p \in Ends, NEW i \in Ids, LocalAction(p, i) PROVE Scheduling'
  <2>1. LocalStep(p, i)
    BY <1>3, LocalActionIsLocal
  <2>2. Moved(p, i) /\ UNCHANGED <<streams, order, cursor, highest>>
    BY <2>1 DEF LocalStep
  <2>3. \A e \in Ends : Listed(e)'
    BY <1>0, <2>2, ListedSame
  <2>4. i \in streams'[p] => ~Retirable(st'[p][i])
    BY <1>0, <1>3, <2>2, LocalKeepsActive DEF Active
  <2>5. \A e \in Ends : Active(e)'
    BY <1>0, <2>2, <2>4, ActiveKept
  <2> QED BY <2>3, <2>5 DEF Scheduling
<1>4. ASSUME NEW p \in Ends, NEW i \in Ids, Moved(p, i), i \in streams[p], highest' = highest,
             NEW from \in Nat, RemoveStream(p, i, from)
      PROVE Scheduling'
  <2>1. PICK k \in 1..Len(order[p]) : Removes(p, i, k, from)
    BY <1>0, <1>4, RemoveStreamForm
  <2>2. Shortened(p, i, k) /\ Listed(p)'
    BY <1>0, <1>4, <2>1, RemovedTables, RemovedListed
  <2>3. /\ streams'[p] = streams[p] \ {i}
        /\ \A e \in Ends : e # p => /\ streams'[e] = streams[e] /\ order'[e] = order[e]
                                    /\ cursor'[e] = cursor[e]
    BY <2>2 DEF Shortened
  <2>4. \A e \in Ends : Listed(e)'
    BY <1>0, <1>4, <2>2, <2>3, ListedSame
  <2>5. \A e \in Ends : streams'[e] \subseteq streams[e] \cup (IF e = p THEN {i} ELSE {})
    BY <2>3
  <2>6. i \notin streams'[p]
    BY <2>3
  <2>7. \A e \in Ends : Active(e)'
    BY <1>0, <1>4, <2>5, <2>6, ActiveKept
  <2> QED BY <2>4, <2>7 DEF Scheduling
<1>5. ASSUME NEW p \in Ends, NEW i \in Ids, WriteFin(p, i) PROVE Scheduling'
  <2>0. highest' = highest
    BY <1>5 DEF WriteFin
  <2>1. /\ Moved(p, i)
        /\ \/ i \in streams[p] /\ RemoveStream(p, i, cursor[p])
           \/ ~(Retirable(st'[p][i]) /\ i \in streams[p]) /\ UNCHANGED <<streams, order, cursor>>
    BY <1>5, WriteFinStream
  <2>2. CASE i \in streams[p] /\ RemoveStream(p, i, cursor[p])
    BY <1>0, <1>4, <2>0, <2>1, <2>2
  <2>3. CASE ~(Retirable(st'[p][i]) /\ i \in streams[p]) /\ UNCHANGED <<streams, order, cursor>>
    <3>1. \A e \in Ends : Listed(e)'
      BY <1>0, <2>0, <2>3, ListedSame
    <3>2. \A e \in Ends : Active(e)'
      BY <1>0, <2>1, <2>3, ActiveKept
    <3> QED BY <3>1, <3>2 DEF Scheduling
  <2> QED BY <2>1, <2>2, <2>3
<1>6. ASSUME NEW p \in Ends, ReceiveOpen(p) PROVE Scheduling'
  <2> DEFINE i == Head(wire["client"]).stream
  <2>1. /\ p = "server" /\ i \in Ids /\ i > highest["server"]
        /\ Moved("server", i) /\ SameIn(NoStream, st'["server"][i])
    BY <1>6, ReceiveOpenStream
  <2>2. /\ AddStream("server", i, [NewStream("server") EXCEPT !.conn = "dialing"])
        /\ cursor' = cursor
    <3>1. Other("server") = "client"
      BY DEF Other
    <3> QED BY <1>6, <2>1, <3>1, Zenon DEF ReceiveOpen
  <2> HIDE DEF i
  <2>5. /\ Listed("server")' /\ streams'["server"] = streams["server"] \cup {i}
        /\ \A e \in Ends : e # "server" => /\ streams'[e] = streams[e] /\ order'[e] = order[e]
                                           /\ highest'[e] = highest[e]
    BY <1>0, <2>1, <2>2, AddedListed
  <2>6. \A e \in Ends : Listed(e)'
    BY <1>0, <2>2, <2>5, ListedSame
  <2>7. ~Retirable(st'["server"][i])
    BY <2>1 DEF Retirable, SameIn, NoStream
  <2>8. \A e \in Ends : Active(e)'
    BY <1>0, <2>1, <2>5, <2>7, ActiveKept
  <2> QED BY <2>6, <2>8 DEF Scheduling
<1>7. ASSUME NEW p \in Ends, ReceiveFrame(p) PROVE Scheduling'
  <2> DEFINE f == Head(wire[Other(p)])
             i == f.stream
  <2>0. highest' = highest
    BY <1>7 DEF ReceiveFrame
  <2>1. /\ Moved(p, i) /\ i \in streams[p] /\ i \in Ids /\ Gets(p, st[p][i], st'[p][i], f)
        /\ \/ RemoveStream(p, i, cursor[p])
           \/ UNCHANGED <<streams, order, cursor>>
    BY <1>7, ReceiveFrameStream
  <2> HIDE DEF f, i
  <2>2. CASE RemoveStream(p, i, cursor[p])
    BY <1>0, <1>4, <2>0, <2>1, <2>2
  <2>3. CASE UNCHANGED <<streams, order, cursor>>
    <3>1. \A e \in Ends : Listed(e)'
      BY <1>0, <2>0, <2>3, ListedSame
    <3>2. ~Retirable(st'[p][i])
      BY <1>0, <2>1, GetsActive DEF Active
    <3>3. \A e \in Ends : Active(e)'
      BY <1>0, <2>1, <2>3, <3>2, ActiveKept
    <3> QED BY <3>1, <3>3 DEF Scheduling
  <2> QED BY <2>1, <2>2, <2>3
<1>8. ASSUME UNCHANGED <<streams, order, cursor, highest, st>> PROVE Scheduling'
  BY <1>0, <1>8 DEF Scheduling, Listed, Active
<1>9. ASSUME NEW p \in Ends, Take(p) PROVE Scheduling'
  <2>1. PICK c \in Nat, i \in Ids : \E a, m : Turn(p, c, i, a, m)
    BY <1>9, TakeForm
  <2>2. PICK a, m : Turn(p, c, i, a, m)
    BY <2>1
  <2>3. highest' = highest
    BY <1>9 DEF Take
  <2>4. /\ Moved(p, i) /\ i \in streams[p] /\ c \in 0..Len(order[p]) - 1 /\ c + 1 \in Nat
        /\ \/ RemoveStream(p, i, c + 1)
           \/ /\ UNCHANGED <<streams, order>> /\ cursor' = [cursor EXCEPT ![p] = c + 1]
              /\ ~Leaves(st[p][i], a, m)
    BY <2>2 DEF Turn
  <2>5. CASE RemoveStream(p, i, c + 1)
    BY <1>4, <2>3, <2>4, <2>5
  <2>6. CASE /\ UNCHANGED <<streams, order>> /\ cursor' = [cursor EXCEPT ![p] = c + 1]
             /\ ~Leaves(st[p][i], a, m)
    <3>1. /\ cursor'[p] = c + 1 /\ cursor'[p] <= Len(order[p])
          /\ \A e \in Ends : e # p => cursor'[e] = cursor[e]
      BY <1>0, <2>4, <2>6 DEF Shapes
    <3>2. Listed(p)'
      BY <1>0, <2>3, <2>6, <3>1 DEF Listed
    <3>3. \A e \in Ends : Listed(e)'
      BY <1>0, <2>3, <2>6, <3>1, <3>2, ListedSame
    <3>4. ~Retirable(st[p][i])
      BY <1>0, <2>4 DEF Active
    <3>5. ~Retirable(st'[p][i])
      BY <2>2, <2>6, <3>4, TurnActive
    <3>6. \A e \in Ends : Active(e)'
      BY <1>0, <2>4, <2>6, <3>5, ActiveKept
    <3> QED BY <3>3, <3>6 DEF Scheduling
  <2> QED BY <2>4, <2>5, <2>6
<1>10. ASSUME NEW p \in Ends, Close(p) PROVE Scheduling'
  <2>1. UNCHANGED <<streams, order, cursor, highest>>
    BY <1>10 DEF Close
  <2>2. \A e \in Ends : Listed(e)'
    BY <1>0, <2>1, ListedSame
  <2>3. \A e \in Ends : Active(e)'
    <3> TAKE e \in Ends
    <3>1. SUFFICES ASSUME NEW j \in streams[e] PROVE ~Retirable(st'[e][j])
      BY <2>1 DEF Active
    <3>2. j \in Ids /\ ~Retirable(st[e][j])
      BY <1>0 DEF Active, Shapes
    <3>3. st'[e][j] = st[e][j] \/ st'[e][j] = ClosedStream(st[e][j])
      BY <1>10, <3>2, CloseStreams
    <3> QED BY <3>2, <3>3, OneStream, ClosedRetirable
  <2> QED BY <2>2, <2>3 DEF Scheduling
<1>11. ASSUME NEW p \in Ends, ReceiveRetired(p) \/ CarrierCheck(p) \/ TakeEnd(p) PROVE Scheduling'
  <2>1. CASE ReceiveRetired(p)
    BY <1>8, <2>1 DEF ReceiveRetired
  <2>2. CASE CarrierCheck(p)
    BY <1>8, <2>2 DEF CarrierCheck
  <2>3. CASE TakeEnd(p)
    BY <1>8, <2>3 DEF TakeEnd
  <2> QED BY <1>11, <2>1, <2>2, <2>3
<1> QED
  BY <1>1, <1>2, <1>3, <1>5, <1>6, <1>7, <1>9, <1>10, <1>11, NextCases
LEMMA ShapesInit == ASSUME Init PROVE Shapes /\ Scheduling
<1>1. NoStream \in StreamRecords
  <2>1. <<>> \in Seq(Chunks)
    OBVIOUS
  <2> QED BY <2>1 DEF NoStream, StreamRecords
<1>2. st \in StreamTables
  BY <1>1 DEF Init, StreamTables
<1>3. /\ streams \in [Ends -> SUBSET Ids] /\ order \in [Ends -> Seq(Ids)] /\ wire \in [Ends -> Seq(Frames)]
  BY DEF Init
<1>4. /\ cursor \in [Ends -> Nat] /\ misses \in [Ends -> Nat] /\ room \in [Ends -> Nat]
      /\ highest \in [Ends -> 0..MaxId] /\ closed \in [Ends -> BOOLEAN] /\ changes \in [Ends -> BOOLEAN]
      /\ carrier \in [Ends -> {"check", "data", "controls", "sleep"}]
      /\ got \in [Ends -> [Ids -> Nat]] /\ put \in [Ends -> [Ids -> Nat]]
  BY MuxAssumption DEF Init
<1>5. Shapes
  BY <1>2, <1>3, <1>4 DEF Init, Shapes
<1>6. ASSUME NEW p \in Ends PROVE Listed(p) /\ Active(p)
  <2>1. streams[p] = {} /\ order[p] = <<>> /\ cursor[p] = 0
    BY DEF Init
  <2> QED BY <2>1 DEF Listed, Active
<1> QED BY <1>5, <1>6 DEF Scheduling

LEMMA ListedExact ==
  ASSUME Shapes, NEW p \in Ends, Listed(p)
  PROVE  /\ {order[p][k] : k \in 1..Len(order[p])} = streams[p]
         /\ Len(order[p]) = Cardinality(streams[p]) /\ IsFiniteSet(streams[p])
<1> DEFINE o == order[p]
           n == Len(order[p])
           S == streams[p]
<1>1. o \in Seq(Ids) /\ n \in Nat
  BY DEF Shapes
<1>2. /\ \A j, k \in 1..n : o[j] = o[k] => j = k
      /\ \A k \in 1..n : o[k] \in S
      /\ \A i \in S : \E k \in 1..n : o[k] = i
  BY DEF Listed
<1>3. o = [k \in 1..n |-> o[k]]
  BY <1>1
<1> HIDE DEF o, n, S
<1>4. o \in [1..n -> S]
  BY <1>2, <1>3
<1>5. o \in Bijection(1..n, S)
  BY <1>2, <1>4 DEF Bijection, Injection, Surjection, IsInjective
<1>6. ExistsBijection(1..n, S)
  BY <1>5 DEF ExistsBijection
<1>7. Cardinality(S) = n
  BY <1>1, <1>6, FS_CountingElements
<1>8. IsFiniteSet(S)
  BY <1>1, <1>6, FS_NatBijection
<1>9. {o[k] : k \in 1..n} = S
  BY <1>2
<1> QED BY <1>7, <1>8, <1>9 DEF o, n, S

\* removeStream, take, write and the OPEN of Receive keep the scheduler exact:
\* Peer.order holds every active stream once and no other, the cursor stays in
\* it, and no stream stays active once both halves are over and its credit is
\* returned, whatever the number of streams.
THEOREM SchedulerIsExact == Spec => []SchedulerExact
<1>1. Init => Shapes /\ Scheduling
  BY ShapesInit
<1>2. Shapes /\ Scheduling /\ [Next]_vars => (Shapes /\ Scheduling)'
  BY ShapesStep, SchedulingStep
<1>3. Shapes /\ Scheduling => SchedulerExact
  <2> SUFFICES ASSUME Shapes, Scheduling, NEW p \in Ends
               PROVE /\ {order[p][k] : k \in 1..Len(order[p])} = streams[p]
                     /\ Len(order[p]) = Cardinality(streams[p])
                     /\ cursor[p] <= Len(order[p])
                     /\ \A i \in streams[p] : ~Retirable(st[p][i])
    BY DEF SchedulerExact
  <2>1. Listed(p) /\ Active(p)
    BY DEF Scheduling
  <2> QED BY <2>1, ListedExact DEF Listed, Active
<1> QED BY <1>1, <1>2, <1>3, PTL DEF Spec
-----------------------------------------------------------------------------
(* The conservation of credit. *)

\* A frame belongs to a stream its sender has opened, and the server has
\* opened no stream that the client has not.
Wires ==
  /\ \A p \in Ends : \A k \in 1..Len(wire[p]) : wire[p][k].stream <= highest[p]
  /\ highest["server"] <= highest["client"]

\* A stream not opened yet is empty; one whose OPEN has not reached the server
\* has received nothing at the client.
Untouched(i) ==
  /\ st["client"][i].input = 0 /\ st["client"][i].writing = 0 /\ st["client"][i].grant = 0
  /\ i <= highest["client"] => st["client"][i].budget = ClientWindow
  /\ Carried(wire["client"], "CREDIT", i) = 0
Fresh ==
  /\ \A p \in Ends, i \in Ids : i > highest[p] => st[p][i] = NoStream
  /\ \A i \in Ids : i > highest["server"] => Untouched(i)

\* A chunk is in the writer's hand only while it writes, or has failed to.
Idle ==
  \A p \in Ends, i \in Ids :
    /\ st[p][i].writer \in {"none", "idle", "wait", "fin"} => st[p][i].writing = 0
    /\ st[p][i].conn = "dialing" => st[p][i].writer = "none" /\ st[p][i].reader = "none"

LEMMA Amounts ==
  ASSUME NEW s \in StreamRecords
  PROVE  /\ s.input \in Nat /\ s.writing \in Nat /\ s.grant \in Nat /\ s.credit \in Nat
         /\ s.budget \in Nat /\ s.hand \in Nat /\ s.nextIn \in Nat /\ s.nextOut \in Nat
         /\ s.output \in Seq(Chunks) /\ s.pending \in Seq(Chunks)
  BY DEF StreamRecords

LEMMA FrameAt ==
  ASSUME NEW w \in Seq(Frames), NEW k \in 1..Len(w)
  PROVE  /\ w[k] \in Frames /\ w[k].stream \in Ids /\ w[k].stream \in Nat /\ w[k].len \in Nat
         /\ w[k].sequence \in Nat /\ w[k].kind \in Kinds
<1>1. w[k] \in Frames
  OBVIOUS
<1>2. w[k].stream \in Ids
  BY <1>1 DEF Frames
<1> QED BY <1>1, <1>2, MuxAssumption, SMTT(40) DEF Frames, Ids

LEMMA TurnWire ==
  ASSUME Shapes, NEW p \in Ends, NEW c, NEW i, NEW a, NEW m, Turn(p, c, i, a, m)
  PROVE  \/ m = <<>> /\ wire' = wire
         \/ \E f \in Frames : m = <<f>> /\ f.stream = i /\ wire'[p] = Append(wire[p], f)
<1>1. /\ m = <<>> \/ \E f \in Frames : m = <<f>> /\ f.stream = i
      /\ wire' \in [Ends -> Seq(Frames)] /\ wire'[p] = wire[p] \o m /\ wire'[Other(p)] = wire[Other(p)]
  BY DEF Turn
<1>2. wire \in [Ends -> Seq(Frames)] /\ wire[p] \in Seq(Frames)
  BY DEF Shapes
<1>3. CASE m = <<>>
  <2>1. wire'[p] = wire[p]
    BY <1>1, <1>2, <1>3
  <2>2. \A e \in Ends : wire'[e] = wire[e]
    BY <1>1, <2>1, EndsPair
  <2>3. wire' = wire
    BY <1>1, <1>2, <2>2
  <2> QED BY <1>3, <2>3
<1>4. ASSUME NEW f \in Frames, m = <<f>>, f.stream = i
      PROVE \E g \in Frames : m = <<g>> /\ g.stream = i /\ wire'[p] = Append(wire[p], g)
  <2>1. wire[p] \o <<f>> = Append(wire[p], f)
    BY <1>2
  <2> QED BY <1>1, <1>4, <2>1
<1> QED BY <1>1, <1>3, <1>4

\* Highest never falls, and only Open and the OPEN of Receive raise it.
LEMMA WiresStep ==
  ASSUME Shapes, Scheduling, Wires, [Next]_vars
  PROVE  Wires'
<1> USE DEF pvars, cvars
<1>0. /\ "client" \in Ends /\ "server" \in Ends /\ MaxId \in Nat
      /\ \A e \in Ends : wire[e] \in Seq(Frames) /\ Len(wire[e]) \in Nat /\ highest[e] \in Nat
  <2>1. MaxId \in Nat /\ 0..MaxId \subseteq Nat
    BY MuxAssumption
  <2> QED BY <2>1 DEF Ends, Shapes
<1>1. ASSUME wire' = wire, highest' = highest PROVE Wires'
  BY <1>1 DEF Wires
<1>2. ASSUME NEW i \in Ids, Open(i) PROVE Wires'
  <2>1. /\ AddStream("client", i, AttachedStream([NewStream("client") EXCEPT !.open = TRUE]))
        /\ cursor' = cursor /\ i = highest["client"] + 1 /\ wire' = wire
    BY <1>2 DEF Open
  <2>2. i > highest["client"]
    BY <1>0, <2>1
  <2>3. Listed("client")
    BY <1>0 DEF Scheduling
  <2>4. highest'["client"] = i /\ highest'["server"] = highest["server"]
    <3>1. highest' = [highest EXCEPT !["client"] = i]
      BY <2>1 DEF AddStream
    <3> QED BY <3>1 DEF Shapes, Ends
  <2>5. \A e \in Ends : highest[e] <= highest'[e]
    BY <1>0, <2>1, <2>4 DEF Ends
  <2>6. \A e \in Ends : \A k \in 1..Len(wire[e]) : wire[e][k].stream \in Nat
    BY <1>0, FrameAt
  <2>7. \A e \in Ends : \A k \in 1..Len(wire[e]) : wire[e][k].stream <= highest'[e]
    <3> TAKE e \in Ends
    <3> TAKE k \in 1..Len(wire[e])
    <3>1. highest'[e] \in Nat
      BY <1>0, <2>1, <2>4 DEF Ends
    <3>2. wire[e][k].stream <= highest[e]
      BY DEF Wires
    <3> QED BY <1>0, <2>5, <2>6, <3>1, <3>2
  <2>8. highest'["server"] <= highest'["client"]
    BY <1>0, <2>1, <2>4 DEF Wires
  <2> QED BY <2>1, <2>7, <2>8 DEF Wires
<1>3. ASSUME NEW p \in Ends, Consumed(p), highest' = highest PROVE Wires'
  <2>1. wire[Other(p)] # <<>> /\ wire'[Other(p)] = Tail(wire[Other(p)]) /\ wire'[p] = wire[p]
    BY <1>3 DEF Consumed
  <2>2. Other(p) \in Ends /\ \A e \in Ends : e = p \/ e = Other(p)
    BY EndsPair
  <2>3. /\ Len(wire'[Other(p)]) = Len(wire[Other(p)]) - 1
        /\ \A k \in 1..Len(wire[Other(p)]) - 1 : wire'[Other(p)][k] = wire[Other(p)][k + 1]
    BY <1>0, <2>1, <2>2, HeadItem
  <2>4. \A k \in 1..Len(wire'[Other(p)]) : wire'[Other(p)][k].stream <= highest[Other(p)]
    <3> TAKE k \in 1..Len(wire'[Other(p)])
    <3>1. k + 1 \in 1..Len(wire[Other(p)]) /\ k \in 1..Len(wire[Other(p)]) - 1
      BY <1>0, <2>2, <2>3
    <3> QED BY <2>2, <2>3, <3>1 DEF Wires
  <2> QED BY <1>3, <2>1, <2>2, <2>4 DEF Wires
<1>4. ASSUME NEW p \in Ends, ReceiveOpen(p) PROVE Wires'
  <2> DEFINE i == Head(wire["client"]).stream
  <2>1. p = "server" /\ Consumed("server") /\ i \in Ids /\ i > highest["server"]
    BY <1>4, ReceiveOpenStream
  <2>2. AddStream("server", i, [NewStream("server") EXCEPT !.conn = "dialing"])
    <3>1. Other("server") = "client"
      BY DEF Other
    <3> QED BY <1>4, <2>1, <3>1, Zenon DEF ReceiveOpen
  <2>3. /\ wire["client"] # <<>> /\ wire'["client"] = Tail(wire["client"])
        /\ wire'["server"] = wire["server"]
    BY <2>1 DEF Consumed, Other
  <2>4. i <= highest["client"]
    <3>1. Head(wire["client"]) = wire["client"][1] /\ 1 \in 1..Len(wire["client"])
      BY <1>0, <2>3, HeadItem
    <3> QED BY <1>0, <3>1 DEF Wires
  <2>5. highest'["server"] = i /\ highest'["client"] = highest["client"]
    <3>1. highest' = [highest EXCEPT !["server"] = i]
      BY <2>2 DEF AddStream
    <3> HIDE DEF i
    <3> QED BY <3>1 DEF Shapes, Ends
  <2> HIDE DEF i
  <2>6. /\ Len(wire'["client"]) = Len(wire["client"]) - 1
        /\ \A k \in 1..Len(wire["client"]) - 1 : wire'["client"][k] = wire["client"][k + 1]
    BY <1>0, <2>3, HeadItem
  <2>7. \A k \in 1..Len(wire'["client"]) : wire'["client"][k].stream <= highest'["client"]
    <3> TAKE k \in 1..Len(wire'["client"])
    <3>1. k + 1 \in 1..Len(wire["client"]) /\ k \in 1..Len(wire["client"]) - 1
      BY <1>0, <2>6
    <3> QED BY <1>0, <2>5, <2>6, <3>1 DEF Wires
  <2>8. \A k \in 1..Len(wire'["server"]) : wire'["server"][k].stream <= highest'["server"]
    <3> TAKE k \in 1..Len(wire'["server"])
    <3>1. k \in 1..Len(wire["server"]) /\ wire'["server"][k] = wire["server"][k]
      BY <2>3
    <3>2. wire["server"][k].stream \in Nat
      BY <1>0, <3>1, FrameAt
    <3>3. wire["server"][k].stream <= highest["server"]
      BY <1>0, <3>1 DEF Wires
    <3>4. i \in Nat
      BY <2>1 DEF Ids
    <3> QED BY <1>0, <2>1, <2>5, <3>1, <3>2, <3>3, <3>4
  <2> QED BY <2>4, <2>5, <2>7, <2>8 DEF Wires, Ends
<1>5. ASSUME NEW p \in Ends, Take(p) PROVE Wires'
  <2>1. PICK c \in Nat, i \in Ids : \E a, m : Turn(p, c, i, a, m)
    BY <1>5, TakeForm
  <2>2. PICK a, m : Turn(p, c, i, a, m)
    BY <2>1
  <2>3. highest' = highest
    BY <1>5, Zenon DEF Take
  <2>4. i <= highest[p]
    <3>1. i \in streams[p] /\ Listed(p)
      BY <2>2 DEF Turn, Scheduling
    <3> QED BY <1>0, <3>1 DEF Listed
  <2>5. wire'[Other(p)] = wire[Other(p)]
    BY <2>2 DEF Turn
  <2>6. CASE wire' = wire
    BY <1>1, <2>3, <2>6
  <2>7. ASSUME NEW f \in Frames, f.stream = i, wire'[p] = Append(wire[p], f) PROVE Wires'
    <3>1. \A k \in 1..Len(wire'[p]) : wire'[p][k].stream <= highest[p]
      <4> TAKE k \in 1..Len(wire'[p])
      <4>1. \/ k \in 1..Len(wire[p]) /\ wire'[p][k] = wire[p][k]
            \/ wire'[p][k] = f
        BY <1>0, <2>7
      <4> QED BY <2>4, <2>7, <4>1 DEF Wires
    <3>2. \A e \in Ends : e = p \/ e = Other(p)
      BY EndsPair
    <3> QED BY <2>3, <2>5, <3>1, <3>2 DEF Wires
  <2> QED BY <2>2, <2>6, <2>7, TurnWire
<1>6. ASSUME NEW p \in Ends, NEW i \in Ids, LocalAction(p, i) PROVE Wires'
  BY <1>1, <1>6, LocalActionIsLocal DEF LocalStep
<1>7. ASSUME NEW p \in Ends, NEW i \in Ids, WriteFin(p, i) PROVE Wires'
  BY <1>1, <1>7, Zenon DEF WriteFin
<1>8. ASSUME NEW p \in Ends, ReceiveFrame(p) PROVE Wires'
  <2>1. Consumed(p)
    BY <1>8, ReceiveFrameStream
  <2>2. highest' = highest
    BY <1>8, Zenon DEF ReceiveFrame
  <2> QED BY <1>3, <2>1, <2>2
<1>9. ASSUME NEW p \in Ends, ReceiveRetired(p) PROVE Wires'
  <2>1. Consumed(p)
    BY <1>9, ConsumeForm DEF ReceiveRetired
  <2>2. highest' = highest
    BY <1>9 DEF ReceiveRetired
  <2> QED BY <1>3, <2>1, <2>2
<1>10. ASSUME NEW p \in Ends, CarrierCheck(p) \/ TakeEnd(p) \/ Close(p) PROVE Wires'
  <2>1. CASE CarrierCheck(p)
    BY <1>1, <2>1 DEF CarrierCheck
  <2>2. CASE TakeEnd(p)
    BY <1>1, <2>2 DEF TakeEnd
  <2>3. CASE Close(p)
    BY <1>1, <2>3 DEF Close
  <2> QED BY <1>10, <2>1, <2>2, <2>3
<1>11. CASE UNCHANGED vars
  BY <1>1, <1>11 DEF vars
<1> QED BY <1>2, <1>4, <1>5, <1>6, <1>7, <1>8, <1>9, <1>10, <1>11, NextCases
\* What a stream's own goroutines leave as it is.
Flows(s, t) ==
  /\ t.credit = s.credit
  /\ t.input + t.writing + t.grant = s.input + s.writing + s.grant
  /\ t.budget + t.input + t.writing = s.budget + s.input + s.writing

IdleStream(s) ==
  /\ s.writer \in {"none", "idle", "wait", "fin"} => s.writing = 0
  /\ s.conn = "dialing" => s.writer = "none" /\ s.reader = "none"

LEMMA LocalFlow ==
  ASSUME Shapes, Idle, NEW p \in Ends, NEW i \in Ids, LocalAction(p, i)
  PROVE  Flows(st[p][i], st'[p][i]) /\ IdleStream(st'[p][i])
<1> USE DEF SameAmounts, SameConn, SameReader, SameWriter
<1> DEFINE s == st[p][i]
           t == st'[p][i]
           Goal == Flows(s, t) /\ IdleStream(t)
<1>0. /\ s.input \in Nat /\ s.writing \in Nat /\ s.grant \in Nat /\ s.budget \in Nat /\ s.credit \in Nat
      /\ s.writer \in {"none", "idle", "wait", "fin"} => s.writing = 0
      /\ s.conn = "dialing" => s.writer = "none" /\ s.reader = "none"
  BY OneStream, Amounts DEF Idle
<1>a. ASSUME SameAmounts(s, t), IdleStream(t) PROVE Goal
  BY <1>a DEF Flows
<1>1. ASSUME p = "server", NEW ok \in BOOLEAN, Dialed(i, ok) PROVE Goal
  <2>1. /\ s.conn = "dialing" /\ SameAmounts(s, t) /\ t.conn # "dialing"
        /\ t.writer = "idle" \/ t.writer = s.writer
    <3> HIDE DEF Goal
    <3>1. s.conn = "dialing" /\ SameAmounts(s, t)
      BY <1>1, DialedStream
    <3>2. t.conn # "dialing" /\ (t.writer = "idle" \/ t.writer = s.writer)
      BY <1>1, DialedStream
    <3> QED BY <3>1, <3>2
  <2>2. IdleStream(t)
    BY <1>0, <2>1 DEF IdleStream
  <2> QED BY <1>a, <2>1, <2>2
<1>2. ASSUME NEW n \in 1..StreamChunk, ReadData(p, i, n) PROVE Goal
  <2>1. SameAmounts(s, t) /\ SameConn(s, t) /\ SameReader(s, t) /\ SameWriter(s, t)
    BY <1>2, ReadDataStream
  <2>2. IdleStream(t)
    BY <1>0, <2>1 DEF IdleStream
  <2> QED BY <1>a, <2>1, <2>2
<1>3. CASE ReadQueue(p, i)
  <2>1. SameAmounts(s, t) /\ SameConn(s, t) /\ SameReader(s, t) /\ SameWriter(s, t)
    BY <1>3, ReadQueueStream
  <2>2. IdleStream(t)
    BY <1>0, <2>1 DEF IdleStream
  <2> QED BY <1>a, <2>1, <2>2
<1>4. CASE ReadDrop(p, i)
  <2>1. SameAmounts(s, t) /\ SameConn(s, t) /\ s.reader = "reading" /\ SameWriter(s, t)
    BY <1>4, ReadDropStream
  <2>2. IdleStream(t)
    BY <1>0, <2>1 DEF IdleStream
  <2> QED BY <1>a, <2>1, <2>2
<1>5. CASE ReadEOF(p, i)
  <2>1. SameAmounts(s, t) /\ SameConn(s, t) /\ s.reader = "reading" /\ SameWriter(s, t)
    BY <1>5, ReadEOFStream
  <2>2. IdleStream(t)
    BY <1>0, <2>1 DEF IdleStream
  <2> QED BY <1>a, <2>1, <2>2
<1>6. CASE ReadError(p, i)
  <2>1. SameAmounts(s, t) /\ s.reader = "reading" /\ SameWriter(s, t)
    BY <1>6, ReadErrorStream
  <2>2. t.conn \in {s.conn, "closed"}
    BY <1>6, ReadErrorStream
  <2>3. IdleStream(t)
    BY <1>0, <2>1, <2>2 DEF IdleStream
  <2> QED BY <1>a, <2>1, <2>3
<1>7. CASE WritePop(p, i)
  <2>1. /\ s.writer \in {"idle", "wait"} /\ SameConn(s, t) /\ SameReader(s, t)
        /\ t.credit = s.credit /\ t.budget = s.budget /\ t.grant = s.grant
    BY <1>7, WritePopStream
  <2>2. \/ t.writer \in {"done", "fin", "wait"} /\ t.input = s.input /\ t.writing = s.writing
        \/ t.writer = "data" /\ \E n \in 1..s.input : t.writing = n /\ t.input = s.input - n
    BY <1>7, WritePopStream
  <2>3. s.writing = 0 /\ s.conn # "dialing"
    BY <1>0, <2>1
  <2> HIDE DEF s, t
  <2>4. ASSUME t.writer \in {"done", "fin", "wait"}, t.input = s.input, t.writing = s.writing
        PROVE Goal
    BY <2>1, <2>3, <2>4 DEF Flows, IdleStream
  <2>5. ASSUME t.writer = "data", NEW n \in 1..s.input, t.writing = n, t.input = s.input - n
        PROVE Goal
    <3>1. IdleStream(t)
      BY <2>1, <2>3, <2>5 DEF IdleStream
    <3>2. t.input + t.writing = s.input + s.writing /\ t.input \in Nat /\ t.writing \in Nat
      BY <1>0, <2>3, <2>5
    <3>3. Flows(s, t)
      BY <1>0, <2>1, <3>2 DEF Flows
    <3> QED BY <3>1, <3>3
  <2> QED BY <2>2, <2>4, <2>5 DEF s, t
<1>8. CASE WriteDone(p, i)
  <2>1. /\ s.writer = "data" /\ SameConn(s, t) /\ SameReader(s, t) /\ t.writer = "idle"
        /\ t.input = s.input /\ t.writing = 0 /\ t.credit = s.credit
        /\ t.budget = s.budget + s.writing /\ t.grant = s.grant + s.writing
    BY <1>8, WriteDoneStream
  <2> HIDE DEF s, t
  <2>2. Flows(s, t)
    BY <1>0, <2>1 DEF Flows
  <2>3. IdleStream(t)
    BY <1>0, <2>1 DEF IdleStream
  <2> QED BY <2>2, <2>3 DEF s, t
<1>9. CASE WriteError(p, i)
  <2>1. /\ SameAmounts(s, t) /\ s.writer \in {"data", "fin"} /\ t.writer = "done"
        /\ t.conn = (IF s.conn = "open" THEN "closed" ELSE s.conn) /\ SameReader(s, t)
    BY <1>9, WriteErrorStream
  <2>2. IdleStream(t)
    BY <1>0, <2>1 DEF IdleStream
  <2> QED BY <1>a, <2>1, <2>2
<1> QED BY <1>1, <1>2, <1>3, <1>4, <1>5, <1>6, <1>7, <1>8, <1>9 DEF LocalAction

\* Credit and the bytes sent, the grant and the CREDIT sent, add up over a turn.
TurnFlows(p, i, s, t) ==
  /\ t.input = s.input /\ t.writing = s.writing /\ t.budget = s.budget
  /\ t.credit + Carried(wire'[p], "DATA", i) = s.credit + Carried(wire[p], "DATA", i)
  /\ t.grant + Carried(wire'[p], "CREDIT", i) = s.grant + Carried(wire[p], "CREDIT", i)
  /\ \A kind, j : j # i => Carried(wire'[p], kind, j) = Carried(wire[p], kind, j)
  /\ s.grant = 0 => t.grant = 0

LEMMA TurnFlow ==
  ASSUME Shapes, NEW p \in Ends, NEW c, NEW i \in Ids, NEW a, NEW m, Turn(p, c, i, a, m)
  PROVE  TurnFlows(p, i, st[p][i], a) /\ SameAmounts(a, st'[p][i])
<1> DEFINE s == st[p][i]
           q == Pulled(s)
<1>1. Takes(i, s, a, m, room[p] - FrameHeader, carrier[p] = "controls")
  BY DEF Turn
<1>2. a \in StreamRecords /\ s \in StreamRecords /\ wire[p] \in Seq(Frames)
  BY <1>1, OneStream DEF Takes, Shapes
<1>3. SameAmounts(a, st'[p][i])
  <2>1. st'[p][i] = a \/ st'[p][i] = ClosedStream(a)
    BY DEF Turn
  <2>2. SameAmounts(a, ClosedStream(a)) /\ SameAmounts(a, a)
    BY <1>2, ClosedStreamKeeps DEF SameAmounts
  <2> QED BY <2>1, <2>2
<1>4. s.grant \in Nat /\ s.credit \in Nat
  BY <1>2, Amounts
<1>5. \A kind, j : Carried(wire[p], kind, j) \in Nat
  BY <1>2, CarriedIsNat
<1> HIDE DEF s, q
<1>6. \A f \in Frames : \A kind, j :
        Carried(Append(wire[p], f), kind, j) = Carried(wire[p], kind, j) + Weight(f, kind, j)
  BY <1>2, CarriedAppend
<1>7. ASSUME NEW kind \in Kinds, NEW x, NEW n, m = <<Frame(kind, i, x, n)>>
      PROVE  \E f \in Frames : /\ f = Frame(kind, i, x, n) /\ f.kind = kind /\ f.stream = i /\ f.len = n
                               /\ n \in Nat /\ wire'[p] = Append(wire[p], f)
  <2>1. m # <<>>
    BY <1>7
  <2>2. PICK f \in Frames : m = <<f>> /\ f.stream = i /\ wire'[p] = Append(wire[p], f)
    BY <2>1, TurnWire
  <2>3. f = Frame(kind, i, x, n)
    BY <1>7, <2>2
  <2>4. f.kind = kind /\ f.len = n
    BY <2>3 DEF Frame
  <2>5. f.len \in Nat
    BY <2>2 DEF Frames
  <2> QED BY <2>2, <2>3, <2>4, <2>5
<1>8. ASSUME NEW kind \in Kinds, NEW x, NEW n, m = <<Frame(kind, i, x, n)>>
      PROVE  /\ n \in Nat
             /\ \A k, j : k # kind \/ j # i => Carried(wire'[p], k, j) = Carried(wire[p], k, j)
             /\ Carried(wire'[p], kind, i) = Carried(wire[p], kind, i) + n
  <2>1. PICK f \in Frames : /\ f.kind = kind /\ f.stream = i /\ f.len = n
                            /\ n \in Nat /\ wire'[p] = Append(wire[p], f)
    BY <1>7, <1>8
  <2>2. Weight(f, kind, i) = n /\ \A k, j : k # kind \/ j # i => Weight(f, k, j) = 0
    BY <2>1 DEF Weight
  <2> QED BY <1>5, <1>6, <2>1, <2>2
<1>9. m = <<>> => wire' = wire
  <2> HAVE m = <<>>
  <2>1. \A f : <<f>> # <<>>
    OBVIOUS
  <2> QED BY <2>1, TurnWire
<1>10. /\ "RESET" \in Kinds /\ "OPEN" \in Kinds /\ "OPENED" \in Kinds /\ "CREDIT" \in Kinds
       /\ "FIN" \in Kinds /\ "DATA" \in Kinds
  BY DEF Kinds
<1>11. CASE TakesReset(i, s, a, m) \/ TakesOpen(i, s, a, m) \/ TakesOpened(i, s, a, m)
  <2>1. SameAmounts(s, a)
    BY <1>11 DEF TakesReset, TakesOpen, TakesOpened, SameAmounts
  <2>2. \E kind \in {"RESET", "OPEN", "OPENED"}, n \in Nat : m = <<Frame(kind, i, 0, n)>>
    <3>1. OpenBody[i] \in Nat /\ 0 \in Nat
      BY OpenAssumption DEF Ids
    <3> QED BY <1>11, <3>1 DEF TakesReset, TakesOpen, TakesOpened
  <2>3. \A k, j : k \in {"DATA", "CREDIT"} \/ j # i => Carried(wire'[p], k, j) = Carried(wire[p], k, j)
    BY <1>8, <1>10, <2>2
  <2>4. TurnFlows(p, i, s, a)
    BY <2>1, <2>3 DEF TurnFlows, SameAmounts
  <2> QED BY <1>3, <2>4 DEF s
<1>16. CASE TakesLate(i, s, a, m, room[p] - FrameHeader)
  <2>1. wire' = wire /\ SameAmounts(s, a)
    BY <1>9, <1>16 DEF TakesLate
  <2>2. TurnFlows(p, i, s, a)
    BY <2>1 DEF TurnFlows, SameAmounts
  <2> QED BY <1>3, <2>2 DEF s
<1>12. CASE TakesCredit(i, s, a, m)
  <2>1. /\ m = <<Frame("CREDIT", i, 0, s.grant)>> /\ a.grant = 0 /\ a.credit = s.credit
        /\ a.input = s.input /\ a.writing = s.writing /\ a.budget = s.budget
    BY <1>12 DEF TakesCredit
  <2>2. /\ \A k, j : k # "CREDIT" \/ j # i => Carried(wire'[p], k, j) = Carried(wire[p], k, j)
        /\ Carried(wire'[p], "CREDIT", i) = Carried(wire[p], "CREDIT", i) + s.grant
    BY <1>8, <1>10, <2>1
  <2>3. a.grant + Carried(wire'[p], "CREDIT", i) = s.grant + Carried(wire[p], "CREDIT", i)
    BY <1>4, <1>5, <2>1, <2>2
  <2>4. TurnFlows(p, i, s, a)
    BY <2>1, <2>2, <2>3 DEF TurnFlows
  <2> QED BY <1>3, <2>4 DEF s
<1>13. CASE TakesQueue(s, q, a) /\ TakesNone(s, q, a, m, room[p] - FrameHeader, carrier[p] = "controls")
  <2>1. /\ wire' = wire /\ a.credit = s.credit /\ a.grant = s.grant
        /\ a.input = s.input /\ a.writing = s.writing /\ a.budget = s.budget
    BY <1>9, <1>13 DEF TakesQueue, TakesNone
  <2>2. TurnFlows(p, i, s, a)
    BY <2>1 DEF TurnFlows
  <2> QED BY <1>3, <2>2 DEF s
<1>14. CASE TakesQueue(s, q, a) /\ TakesFin(i, s, q, a, m)
  <2>1. /\ m = <<Frame("FIN", i, q.pending[1].sequence, 0)>> /\ a.credit = s.credit /\ a.grant = s.grant
        /\ a.input = s.input /\ a.writing = s.writing /\ a.budget = s.budget
    BY <1>14 DEF TakesQueue, TakesFin
  <2>2. \A k, j : k # "FIN" \/ j # i => Carried(wire'[p], k, j) = Carried(wire[p], k, j)
    BY <1>8, <1>10, <2>1
  <2>3. TurnFlows(p, i, s, a)
    BY <2>1, <2>2 DEF TurnFlows
  <2> QED BY <1>3, <2>3 DEF s
<1>15. CASE TakesQueue(s, q, a) /\ TakesData(i, s, q, a, m)
  <2>1. PICK n \in 1..q.pending[1].len :
           /\ n <= s.credit /\ a.credit = s.credit - n
           /\ m = <<Frame("DATA", i, q.pending[1].sequence, n)>>
    BY <1>15 DEF TakesData
  <2>2. /\ a.grant = s.grant /\ a.input = s.input /\ a.writing = s.writing /\ a.budget = s.budget
    BY <1>15 DEF TakesQueue
  <2>3. /\ \A k, j : k # "DATA" \/ j # i => Carried(wire'[p], k, j) = Carried(wire[p], k, j)
        /\ Carried(wire'[p], "DATA", i) = Carried(wire[p], "DATA", i) + n /\ n \in Nat
    BY <1>8, <1>10, <2>1
  <2>4. a.credit + Carried(wire'[p], "DATA", i) = s.credit + Carried(wire[p], "DATA", i)
    BY <1>4, <1>5, <2>1, <2>3
  <2>5. TurnFlows(p, i, s, a)
    BY <2>2, <2>3, <2>4 DEF TurnFlows
  <2> QED BY <1>3, <2>5 DEF s
<1> QED BY <1>1, <1>11, <1>12, <1>13, <1>14, <1>15, <1>16 DEF Takes, q
LEMMA ConsumedCarried ==
  ASSUME Shapes, NEW p \in Ends, Consumed(p)
  PROVE  LET q == Other(p)
             f == Head(wire[q]) IN
         /\ \A kind, j : /\ Carried(wire[q], kind, j) = Weight(f, kind, j) + Carried(wire'[q], kind, j)
                         /\ Carried(wire'[q], kind, j) \in Nat /\ Carried(wire[q], kind, j) \in Nat
         /\ f \in Frames /\ f = wire[q][1] /\ 1 \in 1..Len(wire[q])
<1> DEFINE q == Other(p)
           w == wire[Other(p)]
           v == wire'[Other(p)]
<1>1. q \in Ends
  BY EndsPair
<1>2. w \in Seq(Frames) /\ w # <<>> /\ v = Tail(w)
  BY <1>1 DEF Shapes, Consumed
<1> HIDE DEF w, v, q
<1>3. v \in Seq(Frames) /\ Head(w) = w[1] /\ w[1] \in Frames /\ 1 \in 1..Len(w)
  BY <1>2, HeadItem
<1>4. \A kind, j : Carried(w, kind, j) = Weight(Head(w), kind, j) + Carried(v, kind, j)
  BY <1>2, CarriedTail
<1>5. \A kind, j : Carried(w, kind, j) \in Nat /\ Carried(v, kind, j) \in Nat
  BY <1>2, <1>3, CarriedIsNat
<1> QED BY <1>3, <1>4, <1>5 DEF w, v, q

\* The bytes received, and the credit, add up over a frame.
FrameFlows(p, i, s, t) ==
  LET q == Other(p) IN
  /\ t.writing = s.writing /\ t.grant = s.grant
  /\ t.input + Carried(wire'[q], "DATA", i) = s.input + Carried(wire[q], "DATA", i)
  /\ t.budget + t.input = s.budget + s.input
  /\ t.credit + Carried(wire'[q], "CREDIT", i) = s.credit + Carried(wire[q], "CREDIT", i)
  /\ \A kind, j : j # i => Carried(wire'[q], kind, j) = Carried(wire[q], kind, j)

LEMMA FrameFlow ==
  ASSUME Shapes, NEW p \in Ends, ReceiveFrame(p)
  PROVE  LET i == Head(wire[Other(p)]).stream IN FrameFlows(p, i, st[p][i], st'[p][i])
<1> DEFINE q == Other(p)
           f == Head(wire[q])
           i == f.stream
           s == st[p][i]
           t == st'[p][i]
<1>1. Consumed(p) /\ f \in Frames /\ i \in Ids /\ Gets(p, s, t, f)
  BY ReceiveFrameStream
<1>2. s \in StreamRecords
  BY <1>1, OneStream
<1>3. \A kind, j : /\ Carried(wire[q], kind, j) = Weight(f, kind, j) + Carried(wire'[q], kind, j)
                   /\ Carried(wire'[q], kind, j) \in Nat /\ Carried(wire[q], kind, j) \in Nat
  BY <1>1, ConsumedCarried
<1>4. f.len \in Nat
  BY <1>1 DEF Frames
<1> HIDE DEF f, s, t, q
<1>5. s.input \in Nat /\ s.credit \in Nat /\ s.budget \in Nat
  BY <1>2, Amounts
<1>6. \A kind, j : j # i => Weight(f, kind, j) = 0
  BY DEF Weight
<1>7. \A kind, j : j # i => Carried(wire'[q], kind, j) = Carried(wire[q], kind, j)
  BY <1>3, <1>6
<1>8. CASE GetsData(s, t, f)
  <2>1. Weight(f, "DATA", i) = f.len /\ Weight(f, "CREDIT", i) = 0
    BY <1>8 DEF GetsData, Weight
  <2>2. /\ t.input = s.input + f.len /\ t.budget = s.budget - f.len /\ t.writing = s.writing
        /\ t.credit = s.credit /\ t.grant = s.grant /\ f.len <= s.budget
    BY <1>8 DEF GetsData
  <2>3. /\ t.input + Carried(wire'[q], "DATA", i) = s.input + Carried(wire[q], "DATA", i)
        /\ t.budget + t.input = s.budget + s.input
        /\ t.credit + Carried(wire'[q], "CREDIT", i) = s.credit + Carried(wire[q], "CREDIT", i)
    BY <1>3, <1>4, <1>5, <2>1, <2>2
  <2> QED BY <1>7, <2>2, <2>3 DEF FrameFlows, q, f, s, t
<1>9. CASE GetsCredit(p, s, t, f)
  <2>1. Weight(f, "DATA", i) = 0 /\ Weight(f, "CREDIT", i) = f.len
    BY <1>9 DEF GetsCredit, Weight
  <2>2. /\ t.input = s.input /\ t.budget = s.budget /\ t.writing = s.writing
        /\ t.credit = s.credit + f.len /\ t.grant = s.grant
    BY <1>9 DEF GetsCredit
  <2>3. /\ t.input + Carried(wire'[q], "DATA", i) = s.input + Carried(wire[q], "DATA", i)
        /\ t.budget + t.input = s.budget + s.input
        /\ t.credit + Carried(wire'[q], "CREDIT", i) = s.credit + Carried(wire[q], "CREDIT", i)
    BY <1>3, <1>4, <1>5, <2>1, <2>2
  <2> QED BY <1>7, <2>2, <2>3 DEF FrameFlows, q, f, s, t
<1>10. CASE GetsFin(s, t, f) \/ GetsOpened(p, s, t, f) \/ GetsReset(s, t, f)
  <2>1. Weight(f, "DATA", i) = 0 /\ Weight(f, "CREDIT", i) = 0
    BY <1>10 DEF GetsFin, GetsOpened, GetsReset, Weight
  <2>2. /\ t.input = s.input /\ t.budget = s.budget /\ t.writing = s.writing
        /\ t.credit = s.credit /\ t.grant = s.grant
    BY <1>10 DEF GetsFin, GetsOpened, GetsReset, SameAmounts
  <2>3. /\ t.input + Carried(wire'[q], "DATA", i) = s.input + Carried(wire[q], "DATA", i)
        /\ t.budget + t.input = s.budget + s.input
        /\ t.credit + Carried(wire'[q], "CREDIT", i) = s.credit + Carried(wire[q], "CREDIT", i)
    BY <1>3, <1>5, <2>1, <2>2
  <2> QED BY <1>7, <2>2, <2>3 DEF FrameFlows, q, f, s, t
<1> QED BY <1>1, <1>8, <1>9, <1>10 DEF Gets

LEMMA IdleKept ==
  ASSUME Shapes, Idle, NEW p \in Ends, NEW i \in Ids, Moved(p, i), IdleStream(st'[p][i])
  PROVE  Idle'
<1> SUFFICES ASSUME NEW e \in Ends, NEW j \in Ids PROVE IdleStream(st'[e][j])
  BY DEF Idle, IdleStream
<1>1. CASE e = p /\ j = i
  BY <1>1
<1>2. CASE ~(e = p /\ j = i)
  BY <1>2 DEF Moved, Idle, IdleStream
<1> QED BY <1>1, <1>2

LEMMA IdleStep ==
  ASSUME Shapes, Scheduling, Idle, [Next]_vars
  PROVE  Idle'
<1> USE DEF SameAmounts, SameConn, SameReader, SameWriter
<1>0. \A e \in Ends, j \in Ids : IdleStream(st[e][j]) /\ st[e][j] \in StreamRecords
  BY OneStream DEF Idle, IdleStream
<1>1. ASSUME st' = st PROVE Idle'
  BY <1>1 DEF Idle
<1>2. ASSUME NEW i \in Ids, Open(i) PROVE Idle'
  <2>1. /\ Moved("client", i) /\ st'["client"][i].writing = 0 /\ st'["client"][i].conn = "open"
        /\ "client" \in Ends
    BY <1>2, OpenStream DEF Ends
  <2> QED BY <2>1, IdleKept DEF IdleStream
<1>3. ASSUME NEW p \in Ends, NEW i \in Ids, LocalAction(p, i) PROVE Idle'
  <2>1. Moved(p, i)
    BY <1>3, LocalActionIsLocal DEF LocalStep
  <2> QED BY <1>3, <2>1, LocalFlow, IdleKept
<1>4. ASSUME NEW s \in StreamRecords, IdleStream(s) PROVE IdleStream(ClosedStream(s))
  <2> DEFINE t == ClosedStream(s)
  <2>1. /\ SameAmounts(s, t) /\ SameReader(s, t) /\ SameWriter(s, t)
        /\ t.conn = (IF s.conn = "open" THEN "closed" ELSE s.conn)
    BY ClosedStreamKeeps
  <2> HIDE DEF t
  <2>2. IdleStream(t)
    BY <1>4, <2>1 DEF IdleStream
  <2> QED BY <2>2 DEF t
<1>5. ASSUME NEW p \in Ends, NEW i \in Ids, WriteFin(p, i) PROVE Idle'
  <2>1. /\ Moved(p, i) /\ SameAmounts(st[p][i], st'[p][i]) /\ st[p][i].writer = "fin"
        /\ st'[p][i].writer = "done"
    BY <1>5, WriteFinStream
  <2>2. st'[p][i].conn # "dialing"
    <3> DEFINE s == [st[p][i] EXCEPT !.writer = "done", !.remoteFinWritten = TRUE]
    <3>1. SetStream(p, i, s) \/ SetStream(p, i, ClosedStream(s))
      BY <1>5 DEF WriteFin
    <3>2. s \in StreamRecords /\ s.conn = st[p][i].conn
      <4> DEFINE u == st[p][i]
      <4>1. u \in StreamRecords
        BY <1>0
      <4> HIDE DEF u
      <4>2. LET v == [u EXCEPT !.writer = "done", !.remoteFinWritten = TRUE] IN
            v \in StreamRecords /\ v.conn = u.conn
        BY <4>1 DEF StreamRecords
      <4> QED BY <4>2 DEF u
    <3> HIDE DEF s
    <3>3. st[p][i].conn # "dialing"
      BY <1>0, <2>1 DEF IdleStream
    <3>4. ClosedStream(s) \in StreamRecords /\ ClosedStream(s).conn # "dialing"
      BY <3>2, <3>3, ClosedStreamKeeps
    <3>5. st'[p][i] = s \/ st'[p][i] = ClosedStream(s)
      BY <3>1, <3>2, <3>4, SetStreamMoves DEF Shapes
    <3> QED BY <3>2, <3>3, <3>4, <3>5
  <2> QED BY <2>1, <2>2, IdleKept DEF IdleStream
<1>6. ASSUME NEW p \in Ends, ReceiveOpen(p) PROVE Idle'
  <2> DEFINE i == Head(wire["client"]).stream
  <2>1. /\ i \in Ids /\ Moved("server", i) /\ st'["server"][i].writing = 0
        /\ st'["server"][i].writer = "none" /\ st'["server"][i].reader = "none"
    BY <1>6, ReceiveOpenStream
  <2> HIDE DEF i
  <2>2. "server" \in Ends /\ IdleStream(st'["server"][i])
    BY <2>1 DEF Ends, IdleStream
  <2> QED BY <2>1, <2>2, IdleKept
<1>7. ASSUME NEW p \in Ends, ReceiveFrame(p) PROVE Idle'
  <2> DEFINE f == Head(wire[Other(p)])
             i == f.stream
  <2>1. i \in Ids /\ Moved(p, i) /\ Gets(p, st[p][i], st'[p][i], f)
    BY <1>7, ReceiveFrameStream
  <2> HIDE DEF f, i
  <2>2. SameReader(st[p][i], st'[p][i]) /\ SameWriter(st[p][i], st'[p][i])
    BY <2>1 DEF Gets
  <2>3. /\ st'[p][i].writing = st[p][i].writing
        /\ st'[p][i].conn \in {st[p][i].conn, "closed"}
    BY <2>1 DEF Gets, GetsData, GetsFin, GetsCredit, GetsOpened, GetsReset
  <2>4. IdleStream(st'[p][i])
    BY <1>0, <2>1, <2>2, <2>3 DEF IdleStream
  <2> QED BY <2>1, <2>4, IdleKept
<1>8. ASSUME NEW p \in Ends, Take(p) PROVE Idle'
  <2>1. PICK c \in Nat, i \in Ids : \E a, m : Turn(p, c, i, a, m)
    BY <1>8, TakeForm
  <2>2. PICK a, m : Turn(p, c, i, a, m)
    BY <2>1
  <2>3. Takes(i, st[p][i], a, m, room[p] - FrameHeader, carrier[p] = "controls") /\ Moved(p, i)
    BY <2>2 DEF Turn
  <2>4. /\ a \in StreamRecords /\ SameConn(st[p][i], a) /\ SameReader(st[p][i], a)
        /\ SameWriter(st[p][i], a)
    BY <2>3 DEF Takes
  <2>5. a.writing = st[p][i].writing
    <3>1. TurnFlows(p, i, st[p][i], a)
      BY <2>2, TurnFlow
    <3> QED BY <3>1 DEF TurnFlows
  <2>6. IdleStream(a)
    BY <1>0, <2>4, <2>5 DEF IdleStream
  <2>7. st'[p][i] = a \/ st'[p][i] = ClosedStream(a)
    BY <2>2 DEF Turn
  <2> QED BY <1>4, <2>3, <2>4, <2>6, <2>7, IdleKept
<1>9. ASSUME NEW p \in Ends, Close(p) PROVE Idle'
  <2> SUFFICES ASSUME NEW e \in Ends, NEW j \in Ids PROVE IdleStream(st'[e][j])
    BY DEF Idle, IdleStream
  <2>1. st'[e][j] = st[e][j] \/ st'[e][j] = ClosedStream(st[e][j])
    BY <1>9, CloseStreams
  <2> QED BY <1>0, <1>4, <2>1
<1>10. ASSUME NEW p \in Ends, ReceiveRetired(p) \/ CarrierCheck(p) \/ TakeEnd(p) PROVE Idle'
  <2>1. CASE ReceiveRetired(p)
    BY <1>1, <2>1 DEF ReceiveRetired
  <2>2. CASE CarrierCheck(p)
    BY <1>1, <2>2 DEF CarrierCheck
  <2>3. CASE TakeEnd(p)
    BY <1>1, <2>3 DEF TakeEnd
  <2> QED BY <1>10, <2>1, <2>2, <2>3
<1>11. CASE UNCHANGED vars
  BY <1>1, <1>11 DEF vars
<1> QED BY <1>2, <1>3, <1>5, <1>6, <1>7, <1>8, <1>9, <1>10, <1>11, NextCases
LEMMA LocalOpened ==
  ASSUME Shapes, Fresh, NEW p \in Ends, NEW i \in Ids, LocalAction(p, i) \/ WriteFin(p, i)
  PROVE  i <= highest[p]
<1>0. highest[p] \in Nat /\ i \in Nat
  <2>1. MaxId \in Nat /\ 0..MaxId \subseteq Nat
    BY MuxAssumption
  <2> QED BY <2>1 DEF Shapes, Ids
<1>1. SUFFICES st[p][i] # NoStream
  BY <1>0 DEF Fresh
<1>2. NoStream.conn = "none" /\ NoStream.reader = "none" /\ NoStream.writer = "none"
  BY DEF NoStream
<1>3. SUFFICES st[p][i].conn # "none" \/ st[p][i].reader # "none" \/ st[p][i].writer # "none"
  BY <1>2
<1>4. ASSUME p = "server", NEW ok \in BOOLEAN, Dialed(i, ok) PROVE st[p][i].conn # "none"
  BY <1>4, DialedStream
<1>5. ASSUME NEW n \in 1..StreamChunk, ReadData(p, i, n) PROVE st[p][i].reader # "none"
  BY <1>5, ReadDataStream
<1>6. CASE ReadQueue(p, i)
  BY <1>6, ReadQueueStream
<1>7. CASE ReadDrop(p, i)
  BY <1>7, ReadDropStream
<1>8. CASE ReadEOF(p, i)
  BY <1>8, ReadEOFStream
<1>9. CASE ReadError(p, i)
  BY <1>9, ReadErrorStream
<1>10. CASE WritePop(p, i)
  BY <1>10, WritePopStream
<1>11. CASE WriteDone(p, i)
  BY <1>11, WriteDoneStream
<1>12. CASE WriteError(p, i)
  BY <1>12, WriteErrorStream
<1>13. CASE WriteFin(p, i)
  BY <1>13, WriteFinStream
<1> QED
  BY <1>4, <1>5, <1>6, <1>7, <1>8, <1>9, <1>10, <1>11, <1>12, <1>13 DEF LocalAction

LEMMA HighestIsNat == ASSUME Shapes, NEW p \in Ends PROVE highest[p] \in Nat
<1>1. MaxId \in Nat /\ 0..MaxId \subseteq Nat
  BY MuxAssumption
<1> QED BY <1>1 DEF Shapes

LEMMA IdIsNat == ASSUME NEW i \in Ids PROVE i \in Nat /\ i >= 1
  BY MuxAssumption DEF Ids

LEMMA FreshKept ==
  ASSUME Shapes, Fresh, NEW p \in Ends, NEW i \in Ids, Moved(p, i), highest' = highest, i <= highest[p]
  PROVE  \A e \in Ends, j \in Ids : j > highest'[e] => st'[e][j] = NoStream
<1> TAKE e \in Ends, j \in Ids
<1> HAVE j > highest'[e]
<1>1. e # p \/ j # i
  BY HighestIsNat, IdIsNat
<1> QED BY <1>1 DEF Moved, Fresh

\* Nothing reaches a stream whose OPEN is on its way.
LEMMA UntouchedKept ==
  ASSUME Shapes, Shapes', NEW j \in Ids, Untouched(j), highest'["client"] = highest["client"],
         LET s == st["client"][j]
             t == st'["client"][j]
             w == Carried(wire["client"], "CREDIT", j)
             v == Carried(wire'["client"], "CREDIT", j) IN
         /\ t.input + t.writing + t.grant + v <= s.input + s.writing + s.grant + w
         /\ t.budget + t.input + t.writing = s.budget + s.input + s.writing
  PROVE  Untouched(j)'
<1> DEFINE s == st["client"][j]
           t == st'["client"][j]
           w == Carried(wire["client"], "CREDIT", j)
           v == Carried(wire'["client"], "CREDIT", j)
<1>1. "client" \in Ends
  BY DEF Ends
<1>2. s \in StreamRecords /\ t \in StreamRecords
  BY <1>1 DEF Shapes, StreamTables
<1>3. w \in Nat /\ v \in Nat
  BY <1>1, CarriedIsNat DEF Shapes
<1>4. /\ t.input + t.writing + t.grant + v <= s.input + s.writing + s.grant + w
      /\ t.budget + t.input + t.writing = s.budget + s.input + s.writing
  OBVIOUS
<1>5. /\ s.input = 0 /\ s.writing = 0 /\ s.grant = 0 /\ w = 0
      /\ j <= highest["client"] => s.budget = ClientWindow
  BY DEF Untouched
<1> HIDE DEF s, t, w, v
<1>6. /\ t.input \in Nat /\ t.writing \in Nat /\ t.grant \in Nat /\ t.budget \in Nat /\ s.budget \in Nat
  BY <1>2, Amounts
<1>7. t.input = 0 /\ t.writing = 0 /\ t.grant = 0 /\ v = 0
  BY <1>3, <1>4, <1>5, <1>6
<1>8. t.budget = s.budget
  BY <1>4, <1>5, <1>6, <1>7
<1> QED BY <1>5, <1>7, <1>8 DEF Untouched, t, v

LEMMA FreshStep ==
  ASSUME Shapes, Shapes', Scheduling, Wires, Idle, Fresh, [Next]_vars
  PROVE  Fresh'
<1> USE DEF pvars, cvars
<1>0. /\ "client" \in Ends /\ "server" \in Ends /\ "client" # "server"
      /\ Other("client") = "server" /\ Other("server") = "client"
      /\ \A e \in Ends : highest[e] \in Nat
      /\ \A j \in Ids : j \in Nat /\ Carried(wire["client"], "CREDIT", j) \in Nat
                        /\ Carried(wire'["client"], "CREDIT", j) \in Nat
  BY HighestIsNat, IdIsNat, CarriedIsNat DEF Ends, Other, Shapes
<1>1. ASSUME NEW j \in Ids, highest'["client"] = highest["client"], j > highest["server"],
             wire'["client"] = wire["client"], SameAmounts(st["client"][j], st'["client"][j])
      PROVE  Untouched(j)'
  BY <1>1 DEF Fresh, Untouched, SameAmounts
<1>2. ASSUME NEW i \in Ids, Open(i) PROVE Fresh'
  <2>1. /\ AddStream("client", i, AttachedStream([NewStream("client") EXCEPT !.open = TRUE]))
        /\ i = highest["client"] + 1 /\ wire' = wire
    BY <1>2 DEF Open
  <2>2. /\ Moved("client", i) /\ st'["client"][i].input = 0 /\ st'["client"][i].writing = 0
        /\ st'["client"][i].grant = 0 /\ st'["client"][i].budget = Window("client")
    BY <1>2, OpenStream
  <2>3. highest'["client"] = i /\ highest'["server"] = highest["server"]
    <3>1. highest' = [highest EXCEPT !["client"] = i]
      BY <2>1 DEF AddStream
    <3> QED BY <1>0, <3>1 DEF Shapes
  <2>4. \A e \in Ends, j \in Ids : j > highest'[e] => st'[e][j] = NoStream
    <3> TAKE e \in Ends, j \in Ids
    <3> HAVE j > highest'[e]
    <3>1. (e # "client" \/ j # i) /\ j > highest[e]
      BY <1>0, <2>1, <2>3 DEF Ends
    <3> QED BY <2>2, <3>1 DEF Moved, Fresh
  <2>5. \A j \in Ids : j > highest'["server"] => Untouched(j)'
    <3> TAKE j \in Ids
    <3> HAVE j > highest'["server"]
    <3>1. Untouched(j)
      BY <2>3 DEF Fresh
    <3>2. CASE j = i
      <4>1. Window("client") = ClientWindow
        BY DEF Window
      <4> QED BY <2>1, <2>2, <3>1, <3>2, <4>1 DEF Untouched
    <3>3. CASE j # i
      <4>1. st'["client"][j] = st["client"][j]
        BY <1>0, <2>2, <3>3 DEF Moved
      <4>2. j <= highest'["client"] => j <= highest["client"]
        BY <1>0, <2>1, <2>3, <3>3
      <4> QED BY <2>1, <3>1, <4>1, <4>2 DEF Untouched
    <3> QED BY <3>2, <3>3
  <2> QED BY <2>4, <2>5 DEF Fresh
<1>3. ASSUME NEW p \in Ends, NEW i \in Ids, Moved(p, i), highest' = highest, i <= highest[p],
             wire' = wire, Flows(st[p][i], st'[p][i])
      PROVE Fresh'
  <2>1. \A e \in Ends, j \in Ids : j > highest'[e] => st'[e][j] = NoStream
    BY <1>3, FreshKept
  <2>2. \A j \in Ids : j > highest'["server"] => Untouched(j)'
    <3> TAKE j \in Ids
    <3> HAVE j > highest'["server"]
    <3>1. Untouched(j)
      BY <1>3 DEF Fresh
    <3>2. CASE p = "client" /\ j = i
      <4> DEFINE s == st["client"][j]
                 t == st'["client"][j]
      <4>1. /\ t.input + t.writing + t.grant = s.input + s.writing + s.grant
            /\ t.budget + t.input + t.writing = s.budget + s.input + s.writing
        BY <1>3, <3>2 DEF Flows
      <4>2. s \in StreamRecords
        BY <1>0, OneStream
      <4> HIDE DEF s, t
      <4>3. s.input + s.writing + s.grant \in Nat
        BY <4>2, Amounts
      <4>4. t.input + t.writing + t.grant + Carried(wire'["client"], "CREDIT", j)
              <= s.input + s.writing + s.grant + Carried(wire["client"], "CREDIT", j)
        BY <1>0, <1>3, <4>1, <4>3
      <4> QED BY <1>3, <3>1, <4>1, <4>4, UntouchedKept DEF s, t
    <3>3. CASE ~(p = "client" /\ j = i)
      BY <1>0, <1>1, <1>3, <3>3 DEF Moved, SameAmounts
    <3> QED BY <3>2, <3>3
  <2> QED BY <2>1, <2>2 DEF Fresh
<1>4. ASSUME NEW p \in Ends, NEW i \in Ids, LocalAction(p, i) PROVE Fresh'
  <2>1. LocalStep(p, i)
    BY <1>4, LocalActionIsLocal
  <2>2. Moved(p, i) /\ highest' = highest /\ wire' = wire
    BY <2>1 DEF LocalStep
  <2>3. i <= highest[p] /\ Flows(st[p][i], st'[p][i])
    BY <1>4, LocalOpened, LocalFlow
  <2> QED BY <1>3, <2>2, <2>3
<1>5. ASSUME NEW p \in Ends, NEW i \in Ids, WriteFin(p, i) PROVE Fresh'
  <2>1. Moved(p, i) /\ SameAmounts(st[p][i], st'[p][i])
    BY <1>5, WriteFinStream
  <2>2. highest' = highest /\ wire' = wire
    BY <1>5 DEF WriteFin
  <2>3. i <= highest[p]
    BY <1>5, LocalOpened
  <2>4. Flows(st[p][i], st'[p][i])
    BY <2>1 DEF Flows, SameAmounts
  <2> QED BY <1>3, <2>1, <2>2, <2>3, <2>4
<1>6. ASSUME Consumed("server") PROVE \A j \in Ids :
          Carried(wire'["client"], "CREDIT", j) <= Carried(wire["client"], "CREDIT", j)
  <2> TAKE j \in Ids
  <2> DEFINE f == Head(wire["client"])
  <2>1. /\ Carried(wire["client"], "CREDIT", j) = Weight(f, "CREDIT", j) + Carried(wire'["client"], "CREDIT", j)
        /\ f \in Frames
    BY <1>0, <1>6, ConsumedCarried, SMTT(40)
  <2>2. Weight(f, "CREDIT", j) \in Nat
    BY <2>1 DEF Weight, Frames
  <2> HIDE DEF f
  <2> QED BY <1>0, <2>1, <2>2
<1>7. ASSUME Consumed("server"), NEW j \in Ids, highest'["client"] = highest["client"],
             Untouched(j), st'["client"][j] = st["client"][j]
      PROVE  Untouched(j)'
  <2> DEFINE s == st["client"][j]
  <2>1. s \in StreamRecords
    BY <1>0, OneStream
  <2>2. /\ s.input + s.writing + s.grant \in Nat
        /\ Carried(wire'["client"], "CREDIT", j) <= Carried(wire["client"], "CREDIT", j)
    BY <1>6, <1>7, <2>1, Amounts
  <2> HIDE DEF s
  <2>3. s.input + s.writing + s.grant + Carried(wire'["client"], "CREDIT", j)
          <= s.input + s.writing + s.grant + Carried(wire["client"], "CREDIT", j)
    BY <1>0, <2>2
  <2> QED BY <1>7, <2>3, UntouchedKept DEF s
<1>8. ASSUME NEW p \in Ends, ReceiveOpen(p) PROVE Fresh'
  <2> DEFINE i == Head(wire["client"]).stream
  <2>1. p = "server" /\ Consumed("server") /\ i \in Ids /\ i > highest["server"] /\ Moved("server", i)
    BY <1>8, ReceiveOpenStream
  <2>2. AddStream("server", i, [NewStream("server") EXCEPT !.conn = "dialing"])
    BY <1>0, <1>8, <2>1, Zenon DEF ReceiveOpen
  <2>3. highest'["server"] = i /\ highest'["client"] = highest["client"]
    <3>1. highest' = [highest EXCEPT !["server"] = i]
      BY <2>2 DEF AddStream
    <3> HIDE DEF i
    <3> QED BY <1>0, <3>1 DEF Shapes
  <2> HIDE DEF i
  <2>4. \A e \in Ends, j \in Ids : j > highest'[e] => st'[e][j] = NoStream
    <3> TAKE e \in Ends, j \in Ids
    <3> HAVE j > highest'[e]
    <3>1. (e # "server" \/ j # i) /\ j > highest[e]
      BY <1>0, <2>1, <2>3 DEF Ends
    <3> QED BY <2>1, <3>1 DEF Moved, Fresh
  <2>5. \A j \in Ids : j > highest'["server"] => Untouched(j)'
    <3> TAKE j \in Ids
    <3> HAVE j > highest'["server"]
    <3>1. Untouched(j)
      BY <1>0, <2>1, <2>3 DEF Fresh
    <3>2. st'["client"][j] = st["client"][j]
      BY <1>0, <2>1 DEF Moved
    <3> QED BY <1>7, <2>1, <2>3, <3>1, <3>2
  <2> QED BY <2>4, <2>5 DEF Fresh
<1>9. ASSUME NEW p \in Ends, ReceiveFrame(p) PROVE Fresh'
  <2> DEFINE i == Head(wire[Other(p)]).stream
  <2>1. Consumed(p) /\ i \in Ids /\ i \in streams[p] /\ Moved(p, i)
    BY <1>9, ReceiveFrameStream
  <2>2. highest' = highest
    BY <1>9, Zenon DEF ReceiveFrame
  <2>3. i <= highest[p]
    <3> HIDE DEF i
    <3> QED BY <1>0, <2>1 DEF Scheduling, Listed
  <2>4. \A e \in Ends, j \in Ids : j > highest'[e] => st'[e][j] = NoStream
    BY <2>1, <2>2, <2>3, FreshKept
  <2>5. \A j \in Ids : j > highest'["server"] => Untouched(j)'
    <3> TAKE j \in Ids
    <3> HAVE j > highest'["server"]
    <3>1. Untouched(j) /\ j > highest["server"]
      BY <2>2 DEF Fresh
    <3>2. CASE p = "server"
      <4>1. st'["client"][j] = st["client"][j]
        BY <1>0, <2>1, <3>2 DEF Moved
      <4> QED BY <1>7, <2>1, <2>2, <3>1, <3>2, <4>1
    <3>3. CASE p = "client"
      <4>1. Head(wire["server"]) = wire["server"][1] /\ 1 \in 1..Len(wire["server"])
        BY <1>0, <2>1, <3>3, ConsumedCarried
      <4>2. i <= highest["server"]
        BY <1>0, <3>3, <4>1 DEF Wires
      <4> HIDE DEF i
      <4>3. i # j
        BY <1>0, <2>1, <3>1, <4>2
      <4>4. st'["client"][j] = st["client"][j] /\ wire'["client"] = wire["client"]
        BY <1>0, <2>1, <3>3, <4>3 DEF Moved, Consumed
      <4> QED BY <1>1, <2>2, <3>1, <4>4 DEF SameAmounts
    <3> QED BY <3>2, <3>3 DEF Ends
  <2> QED BY <2>4, <2>5 DEF Fresh
<1>10. ASSUME NEW p \in Ends, ReceiveRetired(p) PROVE Fresh'
  <2>1. Consumed(p) /\ st' = st /\ highest' = highest
    BY <1>10, ConsumeForm DEF ReceiveRetired
  <2>2. \A j \in Ids : j > highest'["server"] => Untouched(j)'
    <3> TAKE j \in Ids
    <3> HAVE j > highest'["server"]
    <3>1. Untouched(j) /\ j > highest["server"]
      BY <2>1 DEF Fresh
    <3>2. CASE p = "server"
      BY <1>7, <2>1, <3>1, <3>2
    <3>3. CASE p = "client"
      BY <1>1, <2>1, <3>1, <3>3 DEF SameAmounts, Consumed
    <3> QED BY <3>2, <3>3 DEF Ends
  <2> QED BY <2>1, <2>2 DEF Fresh
<1>11. ASSUME NEW p \in Ends, Take(p) PROVE Fresh'
  <2>1. PICK c \in Nat, i \in Ids : \E a, m : Turn(p, c, i, a, m)
    BY <1>11, TakeForm
  <2>2. PICK a, m : Turn(p, c, i, a, m)
    BY <2>1
  <2>3. highest' = highest
    BY <1>11, Zenon DEF Take
  <2>4. Moved(p, i) /\ i \in streams[p] /\ wire'[Other(p)] = wire[Other(p)]
    BY <2>2 DEF Turn
  <2>5. i <= highest[p]
    BY <1>0, <2>4 DEF Scheduling, Listed
  <2>6. \A e \in Ends, j \in Ids : j > highest'[e] => st'[e][j] = NoStream
    BY <2>3, <2>4, <2>5, FreshKept
  <2>7. TurnFlows(p, i, st[p][i], a) /\ SameAmounts(a, st'[p][i])
    BY <2>2, TurnFlow
  <2>8. \A j \in Ids : j > highest'["server"] => Untouched(j)'
    <3> TAKE j \in Ids
    <3> HAVE j > highest'["server"]
    <3>1. Untouched(j) /\ j > highest["server"]
      BY <2>3 DEF Fresh
    <3>2. CASE p = "server"
      <4>1. st'["client"][j] = st["client"][j] /\ wire'["client"] = wire["client"]
        BY <1>0, <2>4, <3>2 DEF Moved
      <4> QED BY <1>1, <2>3, <3>1, <4>1 DEF SameAmounts
    <3>3. CASE p = "client" /\ j # i
      <4>1. st'["client"][j] = st["client"][j]
        BY <1>0, <2>4, <3>3 DEF Moved
      <4>2. Carried(wire'["client"], "CREDIT", j) = Carried(wire["client"], "CREDIT", j)
        BY <2>7, <3>3 DEF TurnFlows
      <4> QED BY <2>3, <3>1, <4>1, <4>2 DEF Untouched
    <3>4. CASE p = "client" /\ j = i
      <4> DEFINE s == st["client"][j]
                 t == st'["client"][j]
      <4>1. /\ t.input = s.input /\ t.writing = s.writing /\ t.budget = s.budget
            /\ t.grant + Carried(wire'["client"], "CREDIT", i) = s.grant + Carried(wire["client"], "CREDIT", i)
        BY <2>7, <3>4 DEF TurnFlows, SameAmounts
      <4>2. s \in StreamRecords /\ t \in StreamRecords
        BY <1>0, OneStream DEF Shapes, StreamTables
      <4> HIDE DEF s, t
      <4>3. s.input \in Nat /\ s.writing \in Nat /\ s.grant \in Nat /\ t.grant \in Nat
        BY <4>2, Amounts
      <4>4. t.input + t.writing + t.grant + Carried(wire'["client"], "CREDIT", j)
              <= s.input + s.writing + s.grant + Carried(wire["client"], "CREDIT", j)
        BY <1>0, <3>4, <4>1, <4>3
      <4>5. t.budget + t.input + t.writing = s.budget + s.input + s.writing
        BY <4>1
      <4> QED BY <2>3, <3>1, <4>4, <4>5, UntouchedKept DEF s, t
    <3> QED BY <3>2, <3>3, <3>4 DEF Ends
  <2> QED BY <2>6, <2>8 DEF Fresh
<1>12. ASSUME NEW p \in Ends, Close(p) PROVE Fresh'
  <2>1. highest' = highest /\ wire' = wire
    BY <1>12 DEF Close
  <2>2. \A e \in Ends, j \in Ids : st'[e][j] = st[e][j] \/ (j \in streams[e] /\ st'[e][j] = ClosedStream(st[e][j]))
    BY <1>12, CloseStreams
  <2>3. \A e \in Ends, j \in Ids : j > highest'[e] => st'[e][j] = NoStream
    <3> TAKE e \in Ends, j \in Ids
    <3> HAVE j > highest'[e]
    <3>1. j \notin streams[e]
      BY <1>0, <2>1 DEF Scheduling, Listed
    <3> QED BY <2>1, <2>2, <3>1 DEF Fresh
  <2>4. \A j \in Ids : SameAmounts(st["client"][j], st'["client"][j])
    <3> TAKE j \in Ids
    <3>1. SameAmounts(st["client"][j], ClosedStream(st["client"][j])) /\ SameAmounts(st["client"][j], st["client"][j])
      BY <1>0, OneStream, ClosedStreamKeeps DEF SameAmounts
    <3> QED BY <1>0, <2>2, <3>1
  <2> QED BY <1>1, <2>1, <2>3, <2>4 DEF Fresh
<1>13. ASSUME st' = st, highest' = highest, wire' = wire PROVE Fresh'
  BY <1>13 DEF Fresh, Untouched
<1>14. ASSUME NEW p \in Ends, CarrierCheck(p) \/ TakeEnd(p) PROVE Fresh'
  <2>1. CASE CarrierCheck(p)
    BY <1>13, <2>1 DEF CarrierCheck
  <2>2. CASE TakeEnd(p)
    BY <1>13, <2>2 DEF TakeEnd
  <2> QED BY <1>14, <2>1, <2>2
<1>15. CASE UNCHANGED vars
  BY <1>13, <1>15 DEF vars
<1> QED
  BY <1>2, <1>4, <1>5, <1>8, <1>9, <1>10, <1>11, <1>12, <1>14, <1>15, NextCases
Balance(p, i) ==
  LET q == Other(p) r == st[q][i] IN
  st[p][i].credit + Carried(wire[p], "DATA", i) + r.input + r.writing + r.grant
    + Carried(wire[q], "CREDIT", i)
Held(p, i) == st[p][i].budget + st[p][i].input + st[p][i].writing
Balanced(p, i) ==
  /\ Balance(p, i) = Window(Other(p))
  /\ i \in streams[Other(p)] => Held(Other(p), i) = Window(Other(p))

LEMMA BalanceStates ==
  CreditConserved <=> \A p \in Ends, i \in Ids : Shared(p, i) => Balanced(p, i)
  BY DEF CreditConserved, Balanced, Balance, Held, InFlight

LEMMA SharedKept ==
  ASSUME highest' = highest, \A e \in Ends : streams'[e] \subseteq streams[e],
         NEW p \in Ends, NEW i \in Ids, Shared(p, i)'
  PROVE  Shared(p, i) /\ (i \in streams'[Other(p)] => i \in streams[Other(p)])
  BY EndsPair DEF Shared

LEMMA BalancedKept ==
  ASSUME highest' = highest, \A e \in Ends : streams'[e] \subseteq streams[e], CreditConserved,
         \A p \in Ends, i \in Ids :
           Shared(p, i)' => Balance(p, i)' = Balance(p, i) /\ Held(Other(p), i)' = Held(Other(p), i)
  PROVE  CreditConserved'
<1> SUFFICES ASSUME NEW p \in Ends, NEW i \in Ids, Shared(p, i)' PROVE Balanced(p, i)'
  BY DEF CreditConserved, Balanced, Balance, Held, InFlight
<1>1. Shared(p, i) /\ (i \in streams'[Other(p)] => i \in streams[Other(p)])
  BY SharedKept
<1>2. Balanced(p, i)
  BY <1>1, BalanceStates
<1>3. Balance(p, i)' = Balance(p, i) /\ Held(Other(p), i)' = Held(Other(p), i)
  OBVIOUS
<1> QED BY <1>1, <1>2, <1>3 DEF Balanced
\* Stream i of end e changes, with the wires as they are.
LEMMA FlowsBalance ==
  ASSUME Shapes, NEW e \in Ends, NEW j \in Ids, Moved(e, j), wire' = wire,
         Flows(st[e][j], st'[e][j]), NEW p \in Ends, NEW i \in Ids
  PROVE  Balance(p, i)' = Balance(p, i) /\ Held(Other(p), i)' = Held(Other(p), i)
<1> DEFINE q == Other(p)
           D == Carried(wire[p], "DATA", i)
           C == Carried(wire[q], "CREDIT", i)
           s == st[p][i]
           r == st[q][i]
           u == st'[p][i]
           v == st'[q][i]
<1>1. q \in Ends /\ q # p
  BY EndsPair
<1>2. s \in StreamRecords /\ r \in StreamRecords /\ u \in StreamRecords /\ v \in StreamRecords
  BY <1>1, OneStream DEF Moved, StreamTables
<1>3. D \in Nat /\ C \in Nat
  BY <1>1, CarriedIsNat DEF Shapes
<1>4. /\ Balance(p, i) = s.credit + D + r.input + r.writing + r.grant + C
      /\ Balance(p, i)' = u.credit + D + v.input + v.writing + v.grant + C
      /\ Held(q, i) = r.budget + r.input + r.writing
      /\ Held(q, i)' = v.budget + v.input + v.writing
  BY DEF Balance, Held
<1>5. u.credit = s.credit
  BY DEF Moved, Flows
<1>6. /\ v.input + v.writing + v.grant = r.input + r.writing + r.grant
      /\ v.budget + v.input + v.writing = r.budget + r.input + r.writing
  BY <1>1 DEF Moved, Flows
<1> HIDE DEF D, C, s, r, u, v
<1>7. /\ s.credit \in Nat /\ r.input \in Nat /\ r.writing \in Nat /\ r.grant \in Nat
      /\ v.input \in Nat /\ v.writing \in Nat /\ v.grant \in Nat
  BY <1>2, Amounts
<1>8. Balance(p, i)' = Balance(p, i)
  <2> DEFINE ri == r.input  rw == r.writing  rg == r.grant  vi == v.input  vw == v.writing  vg == v.grant
             a == s.credit
  <2>2. /\ a \in Nat /\ ri \in Nat /\ rw \in Nat /\ rg \in Nat /\ vi \in Nat /\ vw \in Nat /\ vg \in Nat
        /\ vi + vw + vg = ri + rw + rg
    BY <1>6, <1>7
  <2> HIDE DEF ri, rw, rg, vi, vw, vg, a
  <2>3. a + D + vi + vw + vg + C = a + D + ri + rw + rg + C
    BY <1>3, <2>2
  <2>1. s.credit + D + v.input + v.writing + v.grant + C = s.credit + D + r.input + r.writing + r.grant + C
    BY <2>3 DEF ri, rw, rg, vi, vw, vg, a
  <2> QED BY <1>4, <1>5, <2>1
<1> QED BY <1>4, <1>6, <1>8 DEF q

LEMMA TurnBalance ==
  ASSUME Shapes, NEW e \in Ends, NEW j \in Ids, Moved(e, j), wire'[Other(e)] = wire[Other(e)],
         wire' \in [Ends -> Seq(Frames)],
         TurnFlows(e, j, st[e][j], st'[e][j]), NEW p \in Ends, NEW i \in Ids
  PROVE  Balance(p, i)' = Balance(p, i) /\ Held(Other(p), i)' = Held(Other(p), i)
<1> DEFINE q == Other(p)
           D == Carried(wire[p], "DATA", i)
           C == Carried(wire[q], "CREDIT", i)
           F == Carried(wire'[p], "DATA", i)
           G == Carried(wire'[q], "CREDIT", i)
           s == st[p][i]
           r == st[q][i]
           u == st'[p][i]
           v == st'[q][i]
<1>1. q \in Ends /\ q # p /\ (e = p \/ e = q) /\ Other(q) = p
  BY EndsPair
<1>2. s \in StreamRecords /\ r \in StreamRecords /\ u \in StreamRecords /\ v \in StreamRecords
  BY <1>1, OneStream DEF Moved, StreamTables
<1>3. D \in Nat /\ C \in Nat /\ F \in Nat /\ G \in Nat
  BY <1>1, CarriedIsNat DEF Shapes
<1>4. /\ Balance(p, i) = s.credit + D + r.input + r.writing + r.grant + C
      /\ Balance(p, i)' = u.credit + F + v.input + v.writing + v.grant + G
      /\ Held(q, i) = r.budget + r.input + r.writing
      /\ Held(q, i)' = v.budget + v.input + v.writing
  BY DEF Balance, Held
<1>5. u.credit + F = s.credit + D
  <2>1. CASE e = p /\ j = i
    BY <2>1 DEF TurnFlows
  <2>2. CASE ~(e = p /\ j = i)
    <3>1. u = s
      BY <2>2 DEF Moved
    <3>2. F = D
      BY <1>1, <2>2 DEF TurnFlows
    <3> QED BY <3>1, <3>2
  <2> QED BY <2>1, <2>2
<1>6. /\ v.input = r.input /\ v.writing = r.writing /\ v.budget = r.budget
      /\ v.grant + G = r.grant + C
  <2>1. CASE e = q /\ j = i
    BY <2>1 DEF TurnFlows
  <2>2. CASE ~(e = q /\ j = i)
    <3>1. v = r
      BY <1>1, <2>2 DEF Moved
    <3>2. G = C
      BY <1>1, <2>2 DEF TurnFlows
    <3> QED BY <3>1, <3>2
  <2> QED BY <2>1, <2>2
<1> HIDE DEF D, C, F, G, s, r, u, v
<1>7. /\ s.credit \in Nat /\ r.input \in Nat /\ r.writing \in Nat /\ r.grant \in Nat
      /\ v.grant \in Nat /\ u.credit \in Nat
  BY <1>2, Amounts
<1>8. Balance(p, i)' = Balance(p, i)
  <2>1. u.credit + F + r.input + r.writing + v.grant + G = (u.credit + F) + (r.input + r.writing) + (v.grant + G)
    <3> DEFINE a == u.credit
               x == r.input
               y == r.writing
               z == v.grant
    <3>1. a \in Nat /\ x \in Nat /\ y \in Nat /\ z \in Nat /\ F \in Nat /\ G \in Nat
      BY <1>3, <1>7
    <3> HIDE DEF a, x, y, z
    <3>2. a + F + x + y + z + G = (a + F) + (x + y) + (z + G)
      BY ONLY <3>1
    <3> QED BY <3>2 DEF a, x, y, z
  <2>2. s.credit + D + r.input + r.writing + r.grant + C = (s.credit + D) + (r.input + r.writing) + (r.grant + C)
    <3> DEFINE a == s.credit
               x == r.input
               y == r.writing
               z == r.grant
    <3>1. a \in Nat /\ x \in Nat /\ y \in Nat /\ z \in Nat /\ D \in Nat /\ C \in Nat
      BY <1>3, <1>7
    <3> HIDE DEF a, x, y, z
    <3>2. a + D + x + y + z + C = (a + D) + (x + y) + (z + C)
      BY ONLY <3>1
    <3> QED BY <3>2 DEF a, x, y, z
  <2>3. v.input = r.input /\ v.writing = r.writing /\ v.grant + G = r.grant + C
    BY <1>6
  <2> QED BY <1>4, <1>5, <2>1, <2>2, <2>3
<1> QED BY <1>4, <1>6, <1>8 DEF q

LEMMA FrameBalance ==
  ASSUME Shapes, NEW e \in Ends, NEW j \in Ids, Moved(e, j), Consumed(e),
         FrameFlows(e, j, st[e][j], st'[e][j]), NEW p \in Ends, NEW i \in Ids
  PROVE  Balance(p, i)' = Balance(p, i) /\ Held(Other(p), i)' = Held(Other(p), i)
<1> DEFINE q == Other(p)
           D == Carried(wire[p], "DATA", i)
           C == Carried(wire[q], "CREDIT", i)
           F == Carried(wire'[p], "DATA", i)
           G == Carried(wire'[q], "CREDIT", i)
           s == st[p][i]
           r == st[q][i]
           u == st'[p][i]
           v == st'[q][i]
<1>1. q \in Ends /\ q # p /\ (e = p \/ e = q) /\ Other(q) = p
  BY EndsPair
<1>2. s \in StreamRecords /\ r \in StreamRecords /\ u \in StreamRecords /\ v \in StreamRecords
  BY <1>1, OneStream DEF Moved, StreamTables
<1>3. D \in Nat /\ C \in Nat /\ F \in Nat /\ G \in Nat
  BY <1>1, CarriedIsNat DEF Shapes, Consumed
<1>4. /\ Balance(p, i) = s.credit + D + r.input + r.writing + r.grant + C
      /\ Balance(p, i)' = u.credit + F + v.input + v.writing + v.grant + G
      /\ Held(q, i) = r.budget + r.input + r.writing
      /\ Held(q, i)' = v.budget + v.input + v.writing
  BY DEF Balance, Held
<1>5. u.credit + G = s.credit + C
  <2>1. CASE e = p /\ j = i
    BY <1>1, <2>1 DEF FrameFlows
  <2>2. CASE ~(e = p /\ j = i)
    <3>1. u = s
      BY <2>2 DEF Moved
    <3>2. G = C
      BY <1>1, <2>2 DEF FrameFlows, Consumed
    <3> QED BY <3>1, <3>2
  <2> QED BY <2>1, <2>2
<1>6. /\ v.writing = r.writing /\ v.grant = r.grant
      /\ v.input + F = r.input + D /\ v.budget + v.input = r.budget + r.input
  <2>1. CASE e = q /\ j = i
    BY <1>1, <2>1 DEF FrameFlows
  <2>2. CASE ~(e = q /\ j = i)
    <3>1. v = r
      BY <1>1, <2>2 DEF Moved
    <3>2. F = D
      BY <1>1, <2>2 DEF FrameFlows, Consumed
    <3> QED BY <3>1, <3>2
  <2> QED BY <2>1, <2>2
<1> HIDE DEF D, C, F, G, s, r, u, v
<1>7. /\ s.credit \in Nat /\ r.input \in Nat /\ r.writing \in Nat /\ r.grant \in Nat
      /\ v.input \in Nat /\ u.credit \in Nat /\ r.budget \in Nat /\ v.budget \in Nat
  BY <1>2, Amounts
<1>8. Balance(p, i)' = Balance(p, i)
  BY <1>3, <1>4, <1>5, <1>6, <1>7
<1>9. Held(q, i)' = Held(q, i)
  BY <1>4, <1>6, <1>7
<1> QED BY <1>8, <1>9 DEF q

\* A stream the client opens has its window, one the server opens too: nothing
\* has been sent on it but by the client.
LEMMA OpenBalance ==
  ASSUME Shapes, Shapes', Scheduling, Scheduling', Wires, Wires', Fresh, Fresh', CreditConserved,
         NEW i \in Ids, Open(i)
  PROVE  CreditConserved'
<1> SUFFICES ASSUME NEW p \in Ends, NEW j \in Ids, Shared(p, j)' PROVE Balanced(p, j)'
  BY DEF CreditConserved, Balanced, Balance, Held, InFlight
<1>0. /\ "client" \in Ends /\ "server" \in Ends /\ "client" # "server"
      /\ Other("client") = "server" /\ Other("server") = "client"
      /\ \A e \in Ends : highest[e] \in Nat /\ wire[e] \in Seq(Frames)
      /\ \A k \in Ids : k \in Nat
  BY HighestIsNat, IdIsNat DEF Ends, Other, Shapes
<1>1. /\ AddStream("client", i, AttachedStream([NewStream("client") EXCEPT !.open = TRUE]))
      /\ i = highest["client"] + 1 /\ wire' = wire /\ cursor' = cursor
  BY DEF Open
<1>2. /\ Moved("client", i) /\ st'["client"][i].credit = Window("server")
  BY OpenStream
<1>3. Listed("client")
  BY <1>0 DEF Scheduling
<1>4. i > highest["client"]
  BY <1>0, <1>1
<1>5. /\ streams'["client"] = streams["client"] \cup {i} /\ highest'["client"] = i
      /\ streams'["server"] = streams["server"] /\ highest'["server"] = highest["server"]
  BY <1>0, <1>1, <1>3, <1>4, AddedListed
<1>6. CASE j = i
  <2>1. i > highest["server"]
    BY <1>0, <1>4 DEF Wires
  <2>2. i \notin streams["server"]
    BY <1>0, <2>1 DEF Scheduling, Listed
  <2>3. p = "client"
    BY <1>5, <1>6, <2>2 DEF Shared, Ends
  <2>4. st'["server"][i] = NoStream
    BY <1>0, <1>5, <2>1 DEF Fresh
  <2>5. Carried(wire["client"], "DATA", i) = 0
    <3>1. \A k \in 1..Len(wire["client"]) : wire["client"][k].stream # i
      <4> TAKE k \in 1..Len(wire["client"])
      <4>1. wire["client"][k].stream <= highest["client"] /\ wire["client"][k].stream \in Nat
        BY <1>0, FrameAt DEF Wires
      <4> QED BY <1>0, <1>4, <4>1
    <3> QED BY <1>0, <3>1, CarriedNone
  <2>6. Carried(wire["server"], "CREDIT", i) = 0
    <3>1. \A k \in 1..Len(wire["server"]) : wire["server"][k].stream # i
      <4> TAKE k \in 1..Len(wire["server"])
      <4>1. wire["server"][k].stream <= highest["server"] /\ wire["server"][k].stream \in Nat
        BY <1>0, FrameAt DEF Wires
      <4> QED BY <1>0, <2>1, <4>1
    <3> QED BY <1>0, <3>1, CarriedNone
  <2>7. Window("server") \in Nat
    BY WindowIsNat
  <2>8. Balance("client", i)' = Window("server")
    <3>1. Balance("client", i)' = st'["client"][i].credit + Carried(wire["client"], "DATA", i)
             + NoStream.input + NoStream.writing + NoStream.grant + Carried(wire["server"], "CREDIT", i)
      BY <1>0, <1>1, <2>4 DEF Balance
    <3>2. NoStream.input = 0 /\ NoStream.writing = 0 /\ NoStream.grant = 0
      BY DEF NoStream
    <3> QED BY <1>2, <2>5, <2>6, <2>7, <3>1, <3>2
  <2> QED BY <1>0, <1>5, <1>6, <2>2, <2>3, <2>8 DEF Balanced
<1>7. CASE j # i
  <2>1. \A e \in Ends : st'[e][j] = st[e][j]
    BY <1>7, <1>2 DEF Moved
  <2>2. Shared(p, j)
    <3>1. \A e \in Ends : j \in streams'[e] => j \in streams[e]
      BY <1>5, <1>7 DEF Ends
    <3>2. \A e \in Ends : j > highest'[e] => j > highest[e]
      BY <1>0, <1>1, <1>5 DEF Ends
    <3>3. Other(p) \in Ends
      BY EndsPair
    <3> QED BY <3>1, <3>2, <3>3 DEF Shared
  <2>3. Balanced(p, j)
    BY <2>2, BalanceStates
  <2>4. Balance(p, j)' = Balance(p, j) /\ Held(Other(p), j)' = Held(Other(p), j)
    BY <1>1, <2>1, EndsPair DEF Balance, Held
  <2>5. j \in streams'[Other(p)] => j \in streams[Other(p)]
    BY <1>5, <1>7, EndsPair DEF Ends
  <2> QED BY <2>3, <2>4, <2>5 DEF Balanced
<1> QED BY <1>6, <1>7

LEMMA AcceptBalance ==
  ASSUME Shapes, Shapes', Scheduling, Wires, Fresh, CreditConserved,
         NEW e \in Ends, ReceiveOpen(e)
  PROVE  CreditConserved'
<1> SUFFICES ASSUME NEW p \in Ends, NEW j \in Ids, Shared(p, j)' PROVE Balanced(p, j)'
  BY DEF CreditConserved, Balanced, Balance, Held, InFlight
<1>0. /\ "client" \in Ends /\ "server" \in Ends /\ "client" # "server"
      /\ Other("client") = "server" /\ Other("server") = "client"
      /\ \A x \in Ends : highest[x] \in Nat /\ wire[x] \in Seq(Frames)
      /\ \A k \in Ids : k \in Nat
  BY HighestIsNat, IdIsNat DEF Ends, Other, Shapes
<1> DEFINE f == Head(wire["client"])
<1>a. PICK i \in Ids : i = f.stream
  BY ReceiveOpenStream
<1> DEFINE t == st'["server"][i]
<1>1. /\ e = "server" /\ Consumed("server") /\ f.kind = "OPEN"
      /\ i \in Ids /\ i > highest["server"] /\ Moved("server", i)
      /\ t.input = 0 /\ t.writing = 0 /\ t.grant = 0
      /\ t.credit = Window("client") /\ t.budget = Window("server")
  BY <1>a, ReceiveOpenStream
<1>2. AddStream("server", i, [NewStream("server") EXCEPT !.conn = "dialing"]) /\ cursor' = cursor
  BY <1>0, <1>a, <1>1, Zenon DEF ReceiveOpen
<1>3. \A kind, k : /\ Carried(wire["client"], kind, k) = Weight(f, kind, k) + Carried(wire'["client"], kind, k)
                   /\ Carried(wire'["client"], kind, k) \in Nat
  <2>1. Consumed("server") /\ "server" \in Ends
    BY <1>0, <1>1
  <2>2. LET q == Other("server") g == Head(wire[q]) IN
        \A kind, k : /\ Carried(wire[q], kind, k) = Weight(g, kind, k) + Carried(wire'[q], kind, k)
                     /\ Carried(wire'[q], kind, k) \in Nat
    BY <2>1, ConsumedCarried
  <2> QED BY <1>0, <2>2
<1>4. \A k : Weight(f, "DATA", k) = 0 /\ Weight(f, "CREDIT", k) = 0
  BY <1>1 DEF Weight
<1> HIDE DEF f, t
<1>5. \A k : /\ Carried(wire'["client"], "DATA", k) = Carried(wire["client"], "DATA", k)
             /\ Carried(wire'["client"], "CREDIT", k) = Carried(wire["client"], "CREDIT", k)
  BY <1>3, <1>4
<1>6. wire'["server"] = wire["server"]
  BY <1>1 DEF Consumed
<1>7. /\ streams'["server"] = streams["server"] \cup {i} /\ highest'["server"] = i
      /\ streams'["client"] = streams["client"] /\ highest'["client"] = highest["client"]
  <2>1. Listed("server")
    BY <1>0 DEF Scheduling
  <2> QED BY <1>0, <1>1, <1>2, <2>1, AddedListed
<1>8. /\ Window("server") \in Nat /\ Window("client") \in Nat /\ Window("client") = ClientWindow
  BY WindowIsNat DEF Window
<1>9. CASE j = i
  <2> DEFINE s == st["client"][i]
  <2>1. st'["client"][i] = s
    BY <1>0, <1>1 DEF Moved
  <2>2. /\ s.input = 0 /\ s.writing = 0 /\ s.grant = 0
        /\ i <= highest["client"] => s.budget = ClientWindow
        /\ Carried(wire["client"], "CREDIT", i) = 0
    BY <1>1 DEF Fresh, Untouched
  <2>3. Carried(wire["server"], "DATA", i) = 0 /\ Carried(wire["server"], "CREDIT", i) = 0
    <3>1. \A k \in 1..Len(wire["server"]) : wire["server"][k].stream # i
      <4> TAKE k \in 1..Len(wire["server"])
      <4>1. wire["server"][k].stream <= highest["server"] /\ wire["server"][k].stream \in Nat
        BY <1>0, FrameAt DEF Wires
      <4> QED BY <1>0, <1>1, <4>1
    <3> QED BY <1>0, <3>1, CarriedNone
  <2>4. CASE p = "server"
    <3>1. Balance("server", i)' = t.credit + Carried(wire["server"], "DATA", i) + s.input + s.writing
             + s.grant + Carried(wire'["client"], "CREDIT", i)
      BY <1>0, <1>6, <2>1 DEF Balance, t
    <3>2. Balance("server", i)' = Window("client")
      BY <1>1, <1>5, <1>8, <2>2, <2>3, <3>1
    <3>3. i \in streams["client"] => i <= highest["client"]
      BY <1>0 DEF Scheduling, Listed
    <3>4. i \in streams'["client"] => Held("client", i)' = Window("client")
      BY <1>7, <1>8, <2>1, <2>2, <3>3 DEF Held
    <3> QED BY <1>0, <1>9, <2>4, <3>2, <3>4 DEF Balanced
  <2>5. CASE p = "client"
    <3>1. i \in streams["client"]
      BY <1>7, <1>9, <2>5 DEF Shared
    <3>2. Shared("client", i)
      BY <1>0, <1>1, <3>1 DEF Shared
    <3>3. Balance("client", i) = Window("server")
      BY <1>0, <1>1, <3>2, BalanceStates DEF Balanced
    <3>4. Balance("client", i) = s.credit + Carried(wire["client"], "DATA", i)
             + NoStream.input + NoStream.writing + NoStream.grant + Carried(wire["server"], "CREDIT", i)
      BY <1>0, <1>1 DEF Balance, Fresh
    <3>5. NoStream.input = 0 /\ NoStream.writing = 0 /\ NoStream.grant = 0
      BY DEF NoStream
    <3>6. Balance("client", i)' = s.credit + Carried(wire'["client"], "DATA", i)
             + t.input + t.writing + t.grant + Carried(wire["server"], "CREDIT", i)
      BY <1>0, <1>6, <2>1 DEF Balance, t
    <3>7. Balance("client", i)' = Window("server")
      BY <1>1, <1>5, <3>3, <3>4, <3>5, <3>6
    <3>8. Held("server", i)' = t.budget + t.input + t.writing
      BY DEF Held, t
    <3>9. Held("server", i)' = Window("server")
      BY <1>1, <1>8, <3>8
    <3> QED BY <1>0, <1>9, <2>5, <3>7, <3>9 DEF Balanced
  <2> QED BY <2>4, <2>5 DEF Ends
<1>10. CASE j # i
  <2>1. \A x \in Ends : st'[x][j] = st[x][j]
    BY <1>10, <1>1 DEF Moved
  <2>2. Shared(p, j)
    <3>1. \A x \in Ends : j \in streams'[x] => j \in streams[x]
      BY <1>7, <1>10 DEF Ends
    <3>2. \A x \in Ends : j > highest'[x] => j > highest[x]
      BY <1>0, <1>1, <1>7 DEF Ends
    <3>3. Other(p) \in Ends
      BY EndsPair
    <3> QED BY <3>1, <3>2, <3>3 DEF Shared
  <2>3. Balanced(p, j)
    BY <2>2, BalanceStates
  <2>4. \A x \in Ends : /\ Carried(wire'[x], "DATA", j) = Carried(wire[x], "DATA", j)
                        /\ Carried(wire'[x], "CREDIT", j) = Carried(wire[x], "CREDIT", j)
    BY <1>5, <1>6 DEF Ends
  <2>5. Balance(p, j)' = Balance(p, j) /\ Held(Other(p), j)' = Held(Other(p), j)
    BY <2>1, <2>4, EndsPair DEF Balance, Held
  <2>6. j \in streams'[Other(p)] => j \in streams[Other(p)]
    BY <1>7, <1>10, EndsPair DEF Ends
  <2> QED BY <2>3, <2>5, <2>6 DEF Balanced
<1> QED BY <1>9, <1>10
LEMMA StreamsShrink ==
  ASSUME Shapes, NEW p \in Ends, NEW i, NEW from,
         RemoveStream(p, i, from) \/ UNCHANGED <<streams, order, cursor>> \/ UNCHANGED streams
  PROVE  \A e \in Ends : streams'[e] \subseteq streams[e]
<1>1. CASE RemoveStream(p, i, from)
  <2>1. streams' = [streams EXCEPT ![p] = @ \ {i}]
    BY <1>1, Zenon DEF RemoveStream
  <2> QED BY <2>1 DEF Shapes
<1> QED BY <1>1

\* A frame of a stream its receiver has retired: neither end counts it.
LEMMA RetiredBalance ==
  ASSUME Shapes, CreditConserved, NEW e \in Ends, ReceiveRetired(e)
  PROVE  CreditConserved'
<1> USE DEF pvars, cvars
<1> DEFINE f == Head(wire[Other(e)])
<1>1. /\ Consumed(e) /\ st' = st /\ highest' = highest /\ streams' = streams
      /\ f.stream \notin streams[e] /\ f.stream <= highest[e]
  BY ConsumeForm DEF ReceiveRetired
<1>2. /\ f \in Frames /\ f.stream \in Nat /\ highest[e] \in Nat
      /\ \A kind, j : /\ Carried(wire[Other(e)], kind, j) = Weight(f, kind, j) + Carried(wire'[Other(e)], kind, j)
                      /\ Carried(wire'[Other(e)], kind, j) \in Nat
  <2>1. /\ f \in Frames
        /\ \A kind, j : /\ Carried(wire[Other(e)], kind, j) = Weight(f, kind, j) + Carried(wire'[Other(e)], kind, j)
                        /\ Carried(wire'[Other(e)], kind, j) \in Nat
    BY <1>1, ConsumedCarried
  <2>2. f.stream \in Nat
    BY <2>1 DEF Frames, Ids
  <2> QED BY <2>1, <2>2, HighestIsNat
<1>3. wire'[e] = wire[e]
  BY <1>1 DEF Consumed
<1> HIDE DEF f
<1>4. ASSUME NEW p \in Ends, NEW i \in Ids, Shared(p, i)'
      PROVE  Balance(p, i)' = Balance(p, i) /\ Held(Other(p), i)' = Held(Other(p), i)
  <2>1. Other(p) \in Ends /\ Other(e) \in Ends /\ (p = e \/ (p = Other(e) /\ Other(p) = e))
    BY EndsPair
  <2>2. Shared(p, i)
    BY <1>1, <1>4 DEF Shared
  <2>3. i # f.stream
    BY <1>1, <1>2, <2>1, <2>2 DEF Shared
  <2>4. \A kind : Carried(wire'[Other(e)], kind, i) = Carried(wire[Other(e)], kind, i)
    <3> TAKE kind
    <3>1. Weight(f, kind, i) = 0
      BY <2>3 DEF Weight
    <3> QED BY <1>2, <3>1
  <2>5. \A d \in Ends : \A kind : Carried(wire'[d], kind, i) = Carried(wire[d], kind, i)
    BY <1>3, <2>4, EndsPair
  <2> QED BY <1>1, <2>1, <2>5 DEF Balance, Held
<1>5. \A d \in Ends : streams'[d] \subseteq streams[d]
  BY <1>1
<1> QED BY <1>1, <1>4, <1>5, BalancedKept

LEMMA CreditStep ==
  ASSUME Shapes, Shapes', Scheduling, Scheduling', Wires, Wires', Idle, Fresh, Fresh', CreditConserved,
         [Next]_vars
  PROVE  CreditConserved'
<1> USE DEF pvars, cvars
<1>1. ASSUME NEW e \in Ends, NEW j \in Ids, Moved(e, j), wire' = wire, highest' = highest,
             Flows(st[e][j], st'[e][j]), \A d \in Ends : streams'[d] \subseteq streams[d]
      PROVE  CreditConserved'
  <2>1. \A p \in Ends, i \in Ids : Balance(p, i)' = Balance(p, i) /\ Held(Other(p), i)' = Held(Other(p), i)
    BY <1>1, FlowsBalance
  <2> QED BY <1>1, <2>1, BalancedKept
<1>2. ASSUME NEW i \in Ids, Open(i) PROVE CreditConserved'
  BY <1>2, OpenBalance
<1>3. ASSUME NEW p \in Ends, NEW i \in Ids, LocalAction(p, i) PROVE CreditConserved'
  <2>1. LocalStep(p, i)
    BY <1>3, LocalActionIsLocal
  <2>2. Moved(p, i) /\ wire' = wire /\ highest' = highest /\ streams' = streams
    BY <2>1 DEF LocalStep
  <2>3. Flows(st[p][i], st'[p][i])
    BY <1>3, LocalFlow
  <2> QED BY <1>1, <2>2, <2>3
<1>4. ASSUME NEW p \in Ends, NEW i \in Ids, WriteFin(p, i) PROVE CreditConserved'
  <2>1. /\ Moved(p, i) /\ SameAmounts(st[p][i], st'[p][i])
        /\ RemoveStream(p, i, cursor[p]) \/ UNCHANGED <<streams, order, cursor>>
    BY <1>4, WriteFinStream
  <2>2. highest' = highest /\ wire' = wire
    BY <1>4 DEF WriteFin
  <2>3. Flows(st[p][i], st'[p][i])
    BY <2>1 DEF Flows, SameAmounts
  <2>4. \A d \in Ends : streams'[d] \subseteq streams[d]
    BY <2>1, StreamsShrink
  <2> QED BY <1>1, <2>1, <2>2, <2>3, <2>4
<1>5. ASSUME NEW p \in Ends, ReceiveOpen(p) PROVE CreditConserved'
  BY <1>5, AcceptBalance
<1>6. ASSUME NEW p \in Ends, ReceiveFrame(p) PROVE CreditConserved'
  <2>1. PICK j \in Ids : j = Head(wire[Other(p)]).stream
    BY <1>6, ReceiveFrameStream
  <2>2. /\ Consumed(p) /\ Moved(p, j)
        /\ RemoveStream(p, j, cursor[p]) \/ UNCHANGED <<streams, order, cursor>>
    BY <1>6, <2>1, ReceiveFrameStream
  <2>3. highest' = highest
    BY <1>6, Zenon DEF ReceiveFrame
  <2>4. FrameFlows(p, j, st[p][j], st'[p][j])
    BY <1>6, <2>1, FrameFlow
  <2>5. \A d \in Ends : streams'[d] \subseteq streams[d]
    BY <2>2, StreamsShrink
  <2>6. \A d \in Ends, i \in Ids : Balance(d, i)' = Balance(d, i) /\ Held(Other(d), i)' = Held(Other(d), i)
    BY <2>2, <2>4, FrameBalance
  <2> QED BY <2>3, <2>5, <2>6, BalancedKept
<1>7. ASSUME NEW p \in Ends, ReceiveRetired(p) PROVE CreditConserved'
  BY <1>7, RetiredBalance
<1>8. ASSUME NEW p \in Ends, Take(p) PROVE CreditConserved'
  <2>1. PICK c \in Nat, j \in Ids : \E a, m : Turn(p, c, j, a, m)
    BY <1>8, TakeForm
  <2>2. PICK a, m : Turn(p, c, j, a, m)
    BY <2>1
  <2>3. highest' = highest
    BY <1>8, Zenon DEF Take
  <2>4. /\ Moved(p, j) /\ wire'[Other(p)] = wire[Other(p)] /\ wire' \in [Ends -> Seq(Frames)]
        /\ RemoveStream(p, j, c + 1) \/ UNCHANGED streams
    BY <2>2 DEF Turn
  <2>5. TurnFlows(p, j, st[p][j], st'[p][j])
    <3>1. TurnFlows(p, j, st[p][j], a) /\ SameAmounts(a, st'[p][j])
      BY <2>2, TurnFlow
    <3> QED BY <3>1 DEF TurnFlows, SameAmounts
  <2>6. \A d \in Ends : streams'[d] \subseteq streams[d]
    BY <2>4, StreamsShrink
  <2>7. \A d \in Ends, i \in Ids : Balance(d, i)' = Balance(d, i) /\ Held(Other(d), i)' = Held(Other(d), i)
    BY <2>4, <2>5, TurnBalance
  <2> QED BY <2>3, <2>6, <2>7, BalancedKept
<1>9. ASSUME NEW p \in Ends, Close(p) PROVE CreditConserved'
  <2>1. highest' = highest /\ wire' = wire /\ streams' = streams
    BY <1>9 DEF Close
  <2>2. \A e \in Ends, j \in Ids : st'[e][j] = st[e][j] \/ (j \in streams[e] /\ st'[e][j] = ClosedStream(st[e][j]))
    BY <1>9, CloseStreams
  <2>3. \A e \in Ends, j \in Ids : SameAmounts(st[e][j], st'[e][j])
    <3> TAKE e \in Ends, j \in Ids
    <3>1. SameAmounts(st[e][j], ClosedStream(st[e][j])) /\ SameAmounts(st[e][j], st[e][j])
      BY OneStream, ClosedStreamKeeps DEF SameAmounts
    <3> QED BY <2>2, <3>1
  <2>4. \A d \in Ends, i \in Ids : Balance(d, i)' = Balance(d, i) /\ Held(Other(d), i)' = Held(Other(d), i)
    BY <2>1, <2>3, EndsPair DEF Balance, Held, SameAmounts
  <2> QED BY <2>1, <2>4, BalancedKept
<1>10. ASSUME st' = st, highest' = highest, wire' = wire, streams' = streams PROVE CreditConserved'
  BY <1>10 DEF CreditConserved, Shared, InFlight
<1>11. ASSUME NEW p \in Ends, CarrierCheck(p) \/ TakeEnd(p) PROVE CreditConserved'
  <2>1. CASE CarrierCheck(p)
    BY <1>10, <2>1 DEF CarrierCheck
  <2>2. CASE TakeEnd(p)
    BY <1>10, <2>2 DEF TakeEnd
  <2> QED BY <1>11, <2>1, <2>2
<1>12. CASE UNCHANGED vars
  BY <1>10, <1>12 DEF vars
<1> QED
  BY <1>2, <1>3, <1>4, <1>5, <1>6, <1>7, <1>8, <1>9, <1>11, <1>12, NextCases

LEMMA CreditInit == ASSUME Init PROVE Wires /\ Idle /\ Fresh /\ CreditConserved
<1>0. "client" \in Ends /\ "server" \in Ends
  BY DEF Ends
<1>1. /\ \A p \in Ends : highest[p] = 0 /\ wire[p] = <<>> /\ streams[p] = {}
      /\ \A p \in Ends, i \in Ids : st[p][i] = NoStream
  BY DEF Init
<1>2. Wires
  BY <1>0, <1>1 DEF Wires
<1>3. Idle
  BY <1>1 DEF Idle, NoStream
<1>4. ASSUME NEW i \in Ids PROVE Untouched(i)
  <2>1. Carried(<<>>, "CREDIT", i) = 0
    <3>1. <<>> \in Seq(Frames) /\ \A k \in 1..Len(<<>>) : (<<>>)[k].stream # i
      OBVIOUS
    <3> QED BY <3>1, CarriedNone
  <2>2. ~(i <= 0)
    BY IdIsNat
  <2> QED BY <1>0, <1>1, <2>1, <2>2 DEF Untouched, NoStream
<1>5. Fresh
  BY <1>1, <1>4 DEF Fresh
<1>6. CreditConserved
  BY <1>1 DEF CreditConserved, Shared
<1> QED BY <1>2, <1>3, <1>5, <1>6

\* The window of every stream is conserved, in each direction, by every step of
\* both ends and of the carrier between them: read, take and Receive move
\* credit between the parts and lose none.
THEOREM CreditIsConserved == Spec => []CreditConserved
<1> DEFINE Inv == Shapes /\ Scheduling /\ Wires /\ Idle /\ Fresh /\ CreditConserved
<1>1. Init => Inv
  BY ShapesInit, CreditInit
<1>2. Inv /\ [Next]_vars => Inv'
  <2> SUFFICES ASSUME Inv, [Next]_vars PROVE Inv'
    OBVIOUS
  <2>1. Shapes' /\ Scheduling' /\ Wires' /\ Idle'
    BY ShapesStep, SchedulingStep, WiresStep, IdleStep
  <2>2. Fresh'
    BY <2>1, FreshStep
  <2>3. CreditConserved'
    BY <2>1, <2>2, CreditStep
  <2> QED BY <2>1, <2>2, <2>3
<1> QED BY <1>1, <1>2, PTL DEF Spec
=============================================================================
