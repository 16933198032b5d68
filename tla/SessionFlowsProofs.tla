------------------------- MODULE SessionFlowsProofs -------------------------
(***************************************************************************)
(* Proofs about module SessionFlows.  The inductive invariant Bookkeeping  *)
(* says of every flow that its pending_bytes is the sum of its queue, and  *)
(* of the session that its two counters are the sums over the flow table.  *)
(* TypeOK alone is not inductive: that a counter stays a natural after a   *)
(* subtraction follows only from its being such a sum.                     *)
(***************************************************************************)
EXTENDS SessionFlows, FiniteSetTheorems, SequenceTheorems, WellFoundedInduction, TLAPS

-----------------------------------------------------------------------------
(* Sums: Total is a natural number, and how it changes when a summand is   *)
(* added, changed or removed.                                              *)

(* Induction over 0 .. n, with the set of good indices as the predicate.   *)
LEMMA UpToInduction ==
  ASSUME NEW n \in Nat, NEW S, 0 \in S,
         \A k \in 0 .. n : k \in S /\ k < n => k + 1 \in S
  PROVE  0 .. n \subseteq S
<1> DEFINE T == {k \in 0 .. n : k \notin S}
<1>1. SUFFICES ASSUME T # {} PROVE FALSE
  OBVIOUS
<1> DEFINE R == OpToRel(<, Nat)
<1>2. PICK k \in T : \A j \in T : ~(<<j, k>> \in R)
  <2>1. IsWellFoundedOn(R, Nat) BY NatLessThanWellFounded
  <2>2. T \subseteq Nat OBVIOUS
  <2> HIDE DEF T, R
  <2> QED BY <1>1, <2>1, <2>2, WFMin
<1>3. k \in 0 .. n /\ k \notin S
  OBVIOUS
<1>4. k # 0 /\ k - 1 \in 0 .. n /\ k - 1 < k
  BY <1>3
<1>5. <<k - 1, k>> \in R
  BY <1>3, <1>4 DEF OpToRel
<1>6. k - 1 \in S
  <2> HIDE DEF R
  <2> QED BY <1>2, <1>4, <1>5
<1>7. (k - 1) + 1 \in S
  BY <1>6, <1>4, <1>3
<1> QED BY <1>7, <1>3

(* s is the list of partial sums of g[1], ..., g[n]. *)
SumsUpTo(g, n, s) ==
  /\ s \in [0 .. n -> Nat]
  /\ s[0] = 0
  /\ \A k \in 1 .. n : s[k] = s[k - 1] + g[k]

(* Partial sums of any list of naturals exist. *)
LEMMA SumsExist ==
  ASSUME NEW n \in Nat, NEW g, \A k \in 1 .. n : g[k] \in Nat
  PROVE  \E s : SumsUpTo(g, n, s)
<1> DEFINE S == {m \in 0 .. n : \E s : SumsUpTo(g, m, s)}
<1>1. 0 \in S
  <2> DEFINE z == [i \in 0 .. 0 |-> 0]
  <2>1. SumsUpTo(g, 0, z)
    BY DEF SumsUpTo
  <2> HIDE DEF z
  <2> QED BY <2>1
<1>2. ASSUME NEW m \in 0 .. n, m \in S, m < n
      PROVE  m + 1 \in S
  <2>1. PICK s : SumsUpTo(g, m, s)
    BY <1>2
  <2> DEFINE t == [i \in 0 .. (m + 1) |-> IF i <= m THEN s[i] ELSE s[m] + g[m + 1]]
  <2>2. t \in [0 .. (m + 1) -> Nat]
    BY <2>1, <1>2 DEF SumsUpTo
  <2>3. t[0] = 0
    BY <2>1 DEF SumsUpTo
  <2>4. ASSUME NEW k \in 1 .. (m + 1) PROVE t[k] = t[k - 1] + g[k]
    <3>1. CASE k <= m
      BY <3>1, <2>1 DEF SumsUpTo
    <3>2. CASE k = m + 1
      BY <3>2
    <3> QED BY <3>1, <3>2
  <2> HIDE DEF t
  <2>5. SumsUpTo(g, m + 1, t)
    BY <2>2, <2>3, <2>4 DEF SumsUpTo
  <2>6. m + 1 \in 0 .. n
    BY <1>2
  <2> QED BY <2>5, <2>6
<1>3. 0 .. n \subseteq S
  <2> HIDE DEF S
  <2> QED BY <1>1, <1>2, UpToInduction
<1> QED BY <1>3

(* The recursive definition of PartialTotals means what it says. *)
LEMMA PartialTotalsSums ==
  ASSUME NEW n \in Nat, NEW g, \A k \in 1 .. n : g[k] \in Nat
  PROVE  SumsUpTo(g, n, PartialTotals(g, n))
<1> DEFINE Rec(s) == s = [k \in 0 .. n |-> IF k = 0 THEN 0 ELSE s[k - 1] + g[k]]
<1>1. PICK s : SumsUpTo(g, n, s)
  BY SumsExist
<1>2. Rec(s)
  BY <1>1 DEF SumsUpTo
<1>3. Rec(PartialTotals(g, n))
  <2>1. PartialTotals(g, n) = CHOOSE t : Rec(t)
    BY DEF PartialTotals
  <2> HIDE DEF Rec
  <2> QED BY <1>2, <2>1
<1> DEFINE t == PartialTotals(g, n)
           S == {k \in 0 .. n : t[k] = s[k]}
<1>4. \A k \in 0 .. n : t[k] = IF k = 0 THEN 0 ELSE t[k - 1] + g[k]
  <2> HIDE DEF t
  <2> QED BY <1>3 DEF t
<1>5. DOMAIN t = 0 .. n /\ t = [k \in DOMAIN t |-> t[k]]
  <2> HIDE DEF t
  <2> QED BY <1>3 DEF t
<1> HIDE DEF t, Rec
<1>6. 0 .. n \subseteq S
  <2>1. 0 \in S
    BY <1>1, <1>4 DEF SumsUpTo
  <2>2. ASSUME NEW k \in 0 .. n, k \in S, k < n PROVE k + 1 \in S
    BY <1>1, <1>4, <2>2 DEF SumsUpTo
  <2> HIDE DEF S
  <2> QED BY <2>1, <2>2, UpToInduction
<1>7. t = s
  BY <1>1, <1>5, <1>6 DEF SumsUpTo
<1> QED BY <1>1, <1>7 DEF t

(* The last step of a list of partial sums. *)
LEMMA SumsStep ==
  ASSUME NEW n \in Nat, NEW g, NEW s, SumsUpTo(g, n, s),
         NEW k \in 0 .. n, k < n
  PROVE  s[k + 1] = s[k] + g[k + 1]
<1>1. k + 1 \in 1 .. n /\ (k + 1) - 1 = k
  OBVIOUS
<1> QED BY <1>1 DEF SumsUpTo

(* The sum of naturals is a natural. *)
LEMMA TotalNat ==
  ASSUME NEW n \in Nat, NEW g, \A k \in 1 .. n : g[k] \in Nat
  PROVE  Total(g, n) \in Nat
BY PartialTotalsSums DEF SumsUpTo, Total

(* Sums of lists that are related summand by summand. *)
LEMMA TotalPointwise ==
  ASSUME NEW n \in Nat, NEW g, NEW h, NEW d,
         \A k \in 1 .. n : /\ g[k] \in Nat /\ h[k] \in Nat /\ d[k] \in Nat
                           /\ g[k] = h[k] + d[k]
  PROVE  Total(g, n) = Total(h, n) + Total(d, n)
<1> DEFINE a == PartialTotals(g, n)
           b == PartialTotals(h, n)
           c == PartialTotals(d, n)
           S == {k \in 0 .. n : a[k] = b[k] + c[k]}
<1>1. SumsUpTo(g, n, a) /\ SumsUpTo(h, n, b) /\ SumsUpTo(d, n, c)
  BY PartialTotalsSums
<1> HIDE DEF a, b, c
<1>2. 0 \in S
  BY <1>1 DEF SumsUpTo
<1>3. ASSUME NEW k \in 0 .. n, k \in S, k < n PROVE k + 1 \in S
  <2>1. /\ a[k + 1] = a[k] + g[k + 1]
        /\ b[k + 1] = b[k] + h[k + 1]
        /\ c[k + 1] = c[k] + d[k + 1]
    BY <1>1, <1>3, SumsStep
  <2>2. a[k] \in Nat /\ b[k] \in Nat /\ c[k] \in Nat
    BY <1>1 DEF SumsUpTo
  <2> QED BY <1>3, <2>1, <2>2
<1>4. 0 .. n \subseteq S
  <2> HIDE DEF S
  <2> QED BY <1>2, <1>3, UpToInduction
<1> QED BY <1>4 DEF Total, a, b, c

(* A sum splits at any index m. *)
LEMMA TotalSplit ==
  ASSUME NEW m \in Nat, NEW n \in Nat, NEW g, NEW h, NEW d,
         \A k \in 1 .. m : h[k] \in Nat /\ g[k] = h[k],
         \A k \in 1 .. n : d[k] \in Nat /\ g[m + k] = d[k]
  PROVE  Total(g, m + n) = Total(h, m) + Total(d, n)
<1> DEFINE a == PartialTotals(g, m + n)
           b == PartialTotals(h, m)
           c == PartialTotals(d, n)
           S == {k \in 0 .. m : a[k] = b[k]}
           T == {k \in 0 .. n : a[m + k] = b[m] + c[k]}
<1>1. \A k \in 1 .. (m + n) : g[k] \in Nat
  <2> TAKE k \in 1 .. (m + n)
  <2>1. CASE k \in 1 .. m
    BY <2>1
  <2>2. CASE k \notin 1 .. m
    <3>1. k - m \in 1 .. n /\ m + (k - m) = k
      BY <2>2
    <3> QED BY <3>1
  <2> QED BY <2>1, <2>2
<1>2. SumsUpTo(g, m + n, a)
  BY PartialTotalsSums, <1>1, m + n \in Nat
<1>3. SumsUpTo(h, m, b)
  BY PartialTotalsSums
<1>4. SumsUpTo(d, n, c)
  BY PartialTotalsSums
<1> HIDE DEF a, b, c
<1>5. 0 .. m \subseteq S
  <2>1. 0 \in S
    BY <1>2, <1>3 DEF SumsUpTo
  <2>2. ASSUME NEW k \in 0 .. m, k \in S, k < m PROVE k + 1 \in S
    BY <1>2, <1>3, <2>2 DEF SumsUpTo
  <2> HIDE DEF S
  <2> QED BY <2>1, <2>2, UpToInduction
<1>6. 0 .. n \subseteq T
  <2>1. 0 \in T
    BY <1>3, <1>4, <1>5 DEF SumsUpTo
  <2>2. ASSUME NEW k \in 0 .. n, k \in T, k < n PROVE k + 1 \in T
    <3>1. a[m + k + 1] = a[m + k] + g[m + k + 1]
      BY <1>2, <2>2 DEF SumsUpTo
    <3>2. c[k + 1] = c[k] + d[k + 1]
      BY <1>4, <2>2, SumsStep
    <3>3. d[k + 1] = g[m + k + 1]
      BY <2>2
    <3>4. b[m] \in Nat /\ c[k] \in Nat /\ g[m + k + 1] \in Nat
      BY <1>3, <1>4, <2>2, <3>3 DEF SumsUpTo
    <3>5. a[m + (k + 1)] = b[m] + c[k + 1]
      BY <2>2, <3>1, <3>2, <3>3, <3>4
    <3> QED BY <2>2, <3>5
  <2> HIDE DEF T
  <2> QED BY <2>1, <2>2, UpToInduction
<1>7. a[m + n] = b[m] + c[n]
  BY <1>6
<1> QED BY <1>7 DEF Total, a, b, c

(* A sum of zeros is zero. *)
LEMMA TotalZero ==
  ASSUME NEW n \in Nat, NEW g, \A k \in 1 .. n : g[k] = 0
  PROVE  Total(g, n) = 0
<1>1. Total(g, n) = Total(g, n) + Total(g, n)
  BY TotalPointwise
<1> QED BY <1>1, TotalNat

(* Lists that agree up to n have the same sum. *)
LEMMA TotalSame ==
  ASSUME NEW n \in Nat, NEW g, NEW h,
         \A k \in 1 .. n : g[k] \in Nat /\ h[k] = g[k]
  PROVE  Total(h, n) = Total(g, n)
<1> DEFINE z == [k \in 1 .. n |-> 0]
<1>1. \A k \in 1 .. n : z[k] = 0
  OBVIOUS
<1> HIDE DEF z
<1>2. Total(z, n) = 0
  BY <1>1, TotalZero
<1>3. Total(h, n) = Total(g, n) + Total(z, n)
  BY <1>1, TotalPointwise
<1> QED BY <1>2, <1>3, TotalNat

(* Zero summands beyond m do not count. *)
LEMMA TotalPadded ==
  ASSUME NEW m \in Nat, NEW n \in Nat, m <= n, NEW g, NEW h,
         \A k \in 1 .. m : g[k] \in Nat /\ h[k] = g[k],
         \A k \in 1 .. n : k > m => h[k] = 0
  PROVE  Total(h, n) = Total(g, m)
<1> DEFINE z == [k \in 1 .. (n - m) |-> 0]
<1>1. n - m \in Nat /\ m + (n - m) = n
  OBVIOUS
<1>2. \A k \in 1 .. (n - m) : z[k] = 0
  OBVIOUS
<1>3. \A k \in 1 .. (n - m) : h[m + k] = 0
  OBVIOUS
<1> HIDE DEF z
<1>4. PICK l \in Nat : l = n - m
  BY <1>1
<1>5. Total(h, m + l) = Total(g, m) + Total(z, l)
  BY <1>2, <1>3, <1>4, TotalSplit
<1>6. Total(z, l) = 0
  BY <1>2, <1>4, TotalZero
<1> QED BY <1>1, <1>4, <1>5, <1>6, TotalNat

(* The sum of a list with at most one summand that is not zero. *)
LEMMA TotalSingle ==
  ASSUME NEW n \in Nat, NEW k \in 1 .. n, NEW g, g[k] \in Nat,
         \A j \in 1 .. n : j # k => g[j] = 0
  PROVE  Total(g, n) = g[k]
<1> DEFINE h == [j \in 1 .. k |-> g[j]]
           z == [j \in 1 .. (k - 1) |-> 0]
           d == [j \in 1 .. 1 |-> g[k]]
<1>1. k \in Nat /\ k <= n
  OBVIOUS
<1>2. /\ \A j \in 1 .. k : h[j] \in Nat /\ g[j] = h[j]
      /\ \A j \in 1 .. n : j > k => g[j] = 0
  OBVIOUS
<1>3. PICK l \in Nat : l = k - 1
  OBVIOUS
<1>4. \A j \in 1 .. l : z[j] = 0 /\ h[j] = 0
  BY <1>3
<1>5. \A j \in 1 .. 1 : d[j] \in Nat /\ h[l + j] = d[j] /\ d[j] = g[k]
  BY <1>3
<1> HIDE DEF h, z, d
<1>6. Total(g, n) = Total(h, k)
  BY <1>1, <1>2, TotalPadded
<1>7. Total(h, l + 1) = Total(z, l) + Total(d, 1)
  BY <1>4, <1>5, TotalSplit
<1>8. Total(z, l) = 0
  BY <1>4, TotalZero
<1>9. Total(d, 1) = g[k]
  <2>1. SumsUpTo(d, 1, PartialTotals(d, 1))
    BY <1>5, PartialTotalsSums
  <2>2. PartialTotals(d, 1)[0 + 1] = PartialTotals(d, 1)[0] + d[0 + 1]
    BY <2>1, SumsStep
  <2>3. PartialTotals(d, 1)[0] = 0
    BY <2>1 DEF SumsUpTo
  <2> QED BY <1>5, <2>2, <2>3 DEF Total
<1> QED BY <1>3, <1>6, <1>7, <1>8, <1>9

(* A sum in which one summand changes. *)
LEMMA TotalChangeOne ==
  ASSUME NEW n \in Nat, NEW k \in 1 .. n, NEW g, NEW h,
         \A j \in 1 .. n : g[j] \in Nat /\ h[j] \in Nat,
         \A j \in 1 .. n : j # k => h[j] = g[j]
  PROVE  Total(h, n) + g[k] = Total(g, n) + h[k]
<1> DEFINE z == [j \in 1 .. n |-> IF j = k THEN 0 ELSE g[j]]
           c == [j \in 1 .. n |-> IF j = k THEN g[k] ELSE 0]
           d == [j \in 1 .. n |-> IF j = k THEN h[k] ELSE 0]
<1>1. c[k] = g[k] /\ \A j \in 1 .. n : j # k => c[j] = 0
  OBVIOUS
<1>2. d[k] = h[k] /\ \A j \in 1 .. n : j # k => d[j] = 0
  OBVIOUS
<1>3. \A j \in 1 .. n : /\ g[j] \in Nat /\ z[j] \in Nat /\ c[j] \in Nat
                        /\ g[j] = z[j] + c[j]
  OBVIOUS
<1>4. \A j \in 1 .. n : /\ h[j] \in Nat /\ z[j] \in Nat /\ d[j] \in Nat
                        /\ h[j] = z[j] + d[j]
  OBVIOUS
<1>5. g[k] \in Nat /\ h[k] \in Nat
  OBVIOUS
<1> HIDE DEF z, c, d
<1>6. Total(g, n) = Total(z, n) + Total(c, n)
  BY <1>3, TotalPointwise
<1>7. Total(h, n) = Total(z, n) + Total(d, n)
  BY <1>4, TotalPointwise
<1>8. Total(c, n) = g[k]
  BY <1>1, <1>5, TotalSingle
<1>9. Total(d, n) = h[k]
  BY <1>2, <1>5, TotalSingle
<1>10. Total(z, n) \in Nat
  BY <1>3, TotalNat
<1> QED BY <1>5, <1>6, <1>7, <1>8, <1>9, <1>10

-----------------------------------------------------------------------------
(* The sum of w over a set ids of numbers below n. *)
Weights(w, n, ids) == [k \in 1 .. n |-> IF k - 1 \in ids THEN w[k - 1] ELSE 0]
SumOver(w, n, ids) == Total(Weights(w, n, ids), n)

(* Weights of a set of identifiers are naturals. *)
LEMMA WeightsNat ==
  ASSUME NEW n \in Nat, NEW ids, NEW w, \A i \in ids : w[i] \in Nat
  PROVE  \A k \in 1 .. n : Weights(w, n, ids)[k] \in Nat
BY DEF Weights

(* A sum over a set of identifiers is a natural. *)
LEMMA SumOverNat ==
  ASSUME NEW n \in Nat, NEW ids, NEW w, \A i \in ids : w[i] \in Nat
  PROVE  SumOver(w, n, ids) \in Nat
BY WeightsNat, TotalNat DEF SumOver

(* The sum over no identifier is zero. *)
LEMMA SumOverEmpty ==
  ASSUME NEW n \in Nat, NEW w
  PROVE  SumOver(w, n, {}) = 0
<1>1. \A k \in 1 .. n : Weights(w, n, {})[k] = 0
  BY DEF Weights
<1> QED BY <1>1, TotalZero DEF SumOver

(* The weight of one member changes. *)
LEMMA SumOverChange ==
  ASSUME NEW n \in Nat, NEW ids, NEW v, NEW w,
         NEW id \in ids, id \in 0 .. (n - 1),
         \A i \in ids : v[i] \in Nat /\ w[i] \in Nat,
         \A i \in ids : i # id => w[i] = v[i]
  PROVE  SumOver(w, n, ids) + v[id] = SumOver(v, n, ids) + w[id]
<1> DEFINE g == Weights(v, n, ids)
           h == Weights(w, n, ids)
<1>1. PICK k \in 1 .. n : k = id + 1
  OBVIOUS
<1>2. \A j \in 1 .. n : g[j] \in Nat /\ h[j] \in Nat
  BY WeightsNat
<1>3. \A j \in 1 .. n : j # k => h[j] = g[j]
  BY <1>1 DEF Weights
<1>4. g[k] = v[id] /\ h[k] = w[id]
  BY <1>1 DEF Weights
<1> HIDE DEF g, h
<1>5. Total(h, n) + g[k] = Total(g, n) + h[k]
  BY <1>2, <1>3, TotalChangeOne
<1> QED BY <1>4, <1>5 DEF SumOver, g, h

(* Some members leave. *)
LEMMA SumOverRemove ==
  ASSUME NEW n \in Nat, NEW ids, NEW gone \in SUBSET ids, NEW v, NEW w,
         \A i \in ids : v[i] \in Nat,
         \A i \in ids \ gone : w[i] = v[i]
  PROVE  SumOver(v, n, ids) = SumOver(w, n, ids \ gone) + SumOver(v, n, gone)
<1> DEFINE g == Weights(v, n, ids)
           h == Weights(w, n, ids \ gone)
           d == Weights(v, n, gone)
<1>1. \A k \in 1 .. n : /\ g[k] \in Nat /\ h[k] \in Nat /\ d[k] \in Nat
                        /\ g[k] = h[k] + d[k]
  BY DEF Weights
<1> HIDE DEF g, h, d
<1>2. Total(g, n) = Total(h, n) + Total(d, n)
  BY <1>1, TotalPointwise
<1> QED BY <1>2 DEF SumOver, g, h, d

(* A member of weight zero joins, beyond the old bound. *)
LEMMA SumOverAdd ==
  ASSUME NEW n \in Nat, NEW m \in Nat, n <= m, NEW ids, NEW more, NEW v, NEW w,
         \A i \in ids : i < n /\ i \in more /\ v[i] \in Nat /\ w[i] = v[i],
         \A i \in more : i \in ids \/ (i >= n /\ w[i] = 0)
  PROVE  SumOver(w, m, more) = SumOver(v, n, ids)
<1> DEFINE g == Weights(v, n, ids)
           h == Weights(w, m, more)
<1>1. \A k \in 1 .. n : g[k] \in Nat
  BY WeightsNat
<1>2. \A k \in 1 .. n : h[k] = g[k]
  BY DEF Weights
<1>3. \A k \in 1 .. m : k > n => h[k] = 0
  BY DEF Weights
<1> HIDE DEF g, h
<1>4. Total(h, m) = Total(g, n)
  BY <1>1, <1>2, <1>3, TotalPadded
<1> QED BY <1>4 DEF SumOver, g, h

-----------------------------------------------------------------------------
(* Queues *)


(* The entries of a queue have the types of their fields. *)
LEMMA EntryTyped ==
  ASSUME NEW q \in Seq(PendingSegment), NEW i \in 1 .. Len(q)
  PROVE  /\ q[i] \in PendingSegment
         /\ q[i].len \in Nat /\ q[i].sequence \in Nat
         /\ q[i].epoch \in Nat /\ q[i].expires_at \in Nat
<1>1. q[i] \in PendingSegment
  OBVIOUS
<1>2. /\ q[i].len \in Lengths /\ q[i].sequence \in Sequences
      /\ q[i].epoch \in Epochs /\ q[i].expires_at \in Ticks
  BY <1>1 DEF PendingSegment
<1>3. Lengths \subseteq Nat /\ Sequences \subseteq Nat /\ Epochs \subseteq Nat
      /\ Ticks \subseteq Nat
  BY CountersAssumption DEF Sequences, Epochs, Ticks
<1> QED BY <1>1, <1>2, <1>3

(* A queue holds a natural number of bytes. *)
LEMMA BytesNat ==
  ASSUME NEW q \in Seq(PendingSegment)
  PROVE  Bytes(q) \in Nat
<1> DEFINE g == [i \in 1 .. Len(q) |-> q[i].len]
<1>1. Len(q) \in Nat /\ \A i \in 1 .. Len(q) : g[i] \in Nat
  BY EntryTyped
<1> HIDE DEF g
<1>2. Total(g, Len(q)) \in Nat
  BY <1>1, TotalNat
<1> QED BY <1>2 DEF Bytes, g

(* An empty queue holds no bytes (a flow just opened). *)
LEMMA BytesEmpty == Bytes(<<>>) = 0
<1>1. Len(<<>>) = 0
  OBVIOUS
<1> DEFINE g == [i \in 1 .. 0 |-> <<>>[i].len]
<1>2. \A k \in 1 .. 0 : g[k] = 0
  OBVIOUS
<1> HIDE DEF g
<1>3. Total(g, 0) = 0
  BY <1>2, TotalZero
<1> QED BY <1>1, <1>3 DEF Bytes, g

(* Bytes of a queue cut after its first n entries. *)
LEMMA BytesSplit ==
  ASSUME NEW q \in Seq(PendingSegment), NEW n \in 0 .. Len(q)
  PROVE  /\ SubSeq(q, 1, n) \in Seq(PendingSegment)
         /\ SubSeq(q, n + 1, Len(q)) \in Seq(PendingSegment)
         /\ Len(SubSeq(q, n + 1, Len(q))) = Len(q) - n
         /\ \A i \in 1 .. (Len(q) - n) : SubSeq(q, n + 1, Len(q))[i] = q[n + i]
         /\ Bytes(q) = Bytes(SubSeq(q, 1, n)) + Bytes(SubSeq(q, n + 1, Len(q)))
<1> DEFINE a == SubSeq(q, 1, n)
           b == SubSeq(q, n + 1, Len(q))
           g == [i \in 1 .. Len(q) |-> q[i].len]
           h == [i \in 1 .. Len(a) |-> a[i].len]
           d == [i \in 1 .. Len(b) |-> b[i].len]
<1>1. Len(q) \in Nat /\ n \in Nat /\ n <= Len(q)
  OBVIOUS
<1>2. a \in Seq(PendingSegment) /\ Len(a) = n /\ \A i \in 1 .. n : a[i] = q[i]
  OBVIOUS
<1>3. /\ b \in Seq(PendingSegment) /\ Len(b) = Len(q) - n
      /\ \A i \in 1 .. (Len(q) - n) : b[i] = q[n + i]
  <2>1. \A i \in (n + 1) .. Len(q) : q[i] \in PendingSegment
    OBVIOUS
  <2>2. /\ b \in Seq(PendingSegment)
        /\ Len(b) = IF n + 1 <= Len(q) THEN Len(q) - (n + 1) + 1 ELSE 0
        /\ \A i \in 1 .. Len(q) - (n + 1) + 1 : b[i] = q[(n + 1) + i - 1]
    <3> HIDE DEF b
    <3>1. n + 1 \in Int /\ Len(q) \in Int
      BY <1>1
    <3>2. \A m \in Int, k \in Int :
            (\A i \in m .. k : q[i] \in PendingSegment) =>
               /\ SubSeq(q, m, k) \in Seq(PendingSegment)
               /\ Len(SubSeq(q, m, k)) = IF m <= k THEN k - m + 1 ELSE 0
               /\ \A i \in 1 .. k - m + 1 : SubSeq(q, m, k)[i] = q[m + i - 1]
      BY SubSeqProperties
    <3> QED BY ONLY <2>1, <3>1, <3>2 DEF b
  <2> QED BY <1>1, <2>2
<1> HIDE DEF a, b
<1>4. PICK m \in Nat : m = Len(b) /\ n + m = Len(q)
  BY <1>1, <1>3
<1>5. \A i \in 1 .. Len(q) : q[i].len \in Nat
  BY EntryTyped
<1>6. \A k \in 1 .. n : h[k] \in Nat /\ g[k] = h[k]
  BY <1>1, <1>2, <1>5
<1>7. \A k \in 1 .. m : d[k] \in Nat /\ g[n + k] = d[k]
  BY <1>1, <1>3, <1>4, <1>5
<1> HIDE DEF g, h, d
<1>8. Total(g, n + m) = Total(h, n) + Total(d, m)
  <2>1. n \in Nat /\ m \in Nat
    BY <1>1
  <2>2. \A m1 \in Nat, n1 \in Nat :
         (/\ \A k \in 1 .. m1 : h[k] \in Nat /\ g[k] = h[k]
          /\ \A k \in 1 .. n1 : d[k] \in Nat /\ g[m1 + k] = d[k])
         => Total(g, m1 + n1) = Total(h, m1) + Total(d, n1)
    BY TotalSplit
  <2> QED BY <2>1, <2>2, <1>6, <1>7
<1>9. Bytes(q) = Bytes(a) + Bytes(b)
  BY <1>2, <1>4, <1>8 DEF Bytes, g, h, d
<1> QED BY <1>2, <1>3, <1>9 DEF a, b

(* Bytes of a queue after send has pushed one segment. *)
LEMMA BytesAppend ==
  ASSUME NEW q \in Seq(PendingSegment), NEW e \in PendingSegment
  PROVE  Bytes(Append(q, e)) = Bytes(q) + e.len
<1> DEFINE p == Append(q, e)
           g == [i \in 1 .. Len(p) |-> p[i].len]
           h == [i \in 1 .. Len(q) |-> q[i].len]
           d == [i \in 1 .. 1 |-> e.len]
<1>1. Len(q) \in Nat /\ Len(p) = Len(q) + 1
  OBVIOUS
<1>2. p[Len(q) + 1] = e /\ \A i \in 1 .. Len(q) : p[i] = q[i]
  OBVIOUS
<1> HIDE DEF p
<1>3. e.len \in Nat /\ \A i \in 1 .. Len(q) : q[i].len \in Nat
  BY EntryTyped, CountersAssumption DEF PendingSegment
<1>4. \A k \in 1 .. Len(q) : h[k] \in Nat /\ g[k] = h[k]
  BY <1>1, <1>2, <1>3
<1>5. \A k \in 1 .. 1 : d[k] \in Nat /\ g[Len(q) + k] = d[k]
  BY <1>1, <1>2, <1>3
<1>6. d[1] = e.len /\ \A j \in 1 .. 1 : j # 1 => d[j] = 0
  OBVIOUS
<1> HIDE DEF g, h, d
<1>7. Total(g, Len(q) + 1) = Total(h, Len(q)) + Total(d, 1)
  BY <1>1, <1>4, <1>5, TotalSplit
<1>8. Total(d, 1) = e.len
  BY <1>3, <1>6, TotalSingle
<1> QED BY <1>1, <1>7, <1>8 DEF Bytes, g, h, p

(* What the pop loop of acknowledge leaves behind. *)
LEMMA ReleasedPrefix ==
  ASSUME NEW q \in Seq(PendingSegment), NEW s \in Nat
  PROVE  /\ Released(q, s) \in 0 .. Len(q)
         /\ \A i \in 1 .. Released(q, s) : q[i].sequence <= s
         /\ Released(q, s) < Len(q) => q[Released(q, s) + 1].sequence > s
<1> DEFINE Good(n) == /\ \A i \in 1 .. n : q[i].sequence <= s
                      /\ n < Len(q) => q[n + 1].sequence > s
           S == {k \in 0 .. Len(q) : \A i \in 1 .. k : q[i].sequence <= s}
<1>0. Len(q) \in Nat
  OBVIOUS
<1>1. \A i \in 1 .. Len(q) : q[i].sequence \in Nat
  BY EntryTyped
<1>2. \E n \in 0 .. Len(q) : Good(n)
  <2>1. SUFFICES ASSUME \A n \in 0 .. Len(q) : ~Good(n) PROVE FALSE
    OBVIOUS
  <2>2. 0 \in S
    BY <1>0
  <2>3. ASSUME NEW k \in 0 .. Len(q), k \in S, k < Len(q) PROVE k + 1 \in S
    <3>1. q[k + 1].sequence <= s
      BY <1>0, <1>1, <2>1, <2>3
    <3> QED BY <1>0, <2>3, <3>1
  <2>4. 0 .. Len(q) \subseteq S
    <3> HIDE DEF S, Good
    <3> QED BY <1>0, <2>2, <2>3, UpToInduction
  <2>5. Good(Len(q))
    BY <1>0, <2>4
  <2> QED BY <1>0, <2>1, <2>5
<1>3. Released(q, s) = CHOOSE n \in 0 .. Len(q) : Good(n)
  BY DEF Released
<1>4. Released(q, s) \in 0 .. Len(q) /\ Good(Released(q, s))
  <2> HIDE DEF Good
  <2> QED BY <1>2, <1>3
<1> QED BY <1>4

-----------------------------------------------------------------------------
(* A flow whose byte counter is exact, and a table of such flows whose     *)
(* session counters are exact.                                             *)
FlowOK(f) == f \in ReliableFlow /\ f.pending_bytes = Bytes(f.pending)

SegmentWeights(fl) == [i \in DOMAIN fl |-> Len(fl[i].pending)]
ByteWeights(fl)    == [i \in DOMAIN fl |-> fl[i].pending_bytes]

TableOK(fl, n, segments, bytes) ==
  /\ n \in FlowIds
  /\ DOMAIN fl \subseteq 0 .. (n - 1)
  /\ fl = [i \in DOMAIN fl |-> fl[i]]
  /\ \A i \in DOMAIN fl : FlowOK(fl[i])
  /\ segments = SumOver(SegmentWeights(fl), n, DOMAIN fl)
  /\ bytes = SumOver(ByteWeights(fl), n, DOMAIN fl)

(* What each flow contributes to the session counters is a natural. *)
LEMMA WeightsTyped ==
  ASSUME NEW fl, \A i \in DOMAIN fl : FlowOK(fl[i])
  PROVE  \A i \in DOMAIN fl :
           /\ SegmentWeights(fl)[i] = Len(fl[i].pending)
           /\ ByteWeights(fl)[i] = fl[i].pending_bytes
           /\ SegmentWeights(fl)[i] \in Nat
           /\ ByteWeights(fl)[i] \in Nat
<1> TAKE i \in DOMAIN fl
<1>1. fl[i].pending \in Seq(PendingSegment) /\ fl[i].pending_bytes \in Nat
  BY DEF FlowOK, ReliableFlow
<1> QED BY <1>1 DEF SegmentWeights, ByteWeights

(* The counters of a consistent table are naturals. *)
LEMMA TableNat ==
  ASSUME NEW fl, NEW n, NEW segments, NEW bytes, TableOK(fl, n, segments, bytes)
  PROVE  n \in Nat /\ segments \in Nat /\ bytes \in Nat
<1>1. n \in Nat
  BY CountersAssumption DEF TableOK, FlowIds
<1>2. \A i \in DOMAIN fl : SegmentWeights(fl)[i] \in Nat /\ ByteWeights(fl)[i] \in Nat
  BY WeightsTyped DEF TableOK
<1> QED BY <1>1, <1>2, SumOverNat DEF TableOK

(* One flow of the table is replaced and the counters follow it. *)
LEMMA TableReplace ==
  ASSUME NEW fl, NEW n, NEW segments, NEW bytes, TableOK(fl, n, segments, bytes),
         NEW id \in DOMAIN fl, NEW r, FlowOK(r),
         NEW fl2, fl2 = [fl EXCEPT ![id] = r],
         NEW segments2 \in Int, NEW bytes2 \in Int,
         segments2 + Len(fl[id].pending) = segments + Len(r.pending),
         bytes2 + fl[id].pending_bytes = bytes + r.pending_bytes
  PROVE  TableOK(fl2, n, segments2, bytes2)
<1> DEFINE D == DOMAIN fl
<1>1. /\ n \in FlowIds /\ D \subseteq 0 .. (n - 1)
      /\ \A i \in D : FlowOK(fl[i])
  BY DEF TableOK
<1>2. /\ DOMAIN fl2 = D
      /\ fl2 = [i \in DOMAIN fl2 |-> fl2[i]]
      /\ fl2[id] = r
      /\ \A i \in D : i # id => fl2[i] = fl[i]
  BY DEF TableOK
<1>3. \A i \in DOMAIN fl2 : FlowOK(fl2[i])
  BY <1>1, <1>2
<1>4. n \in Nat /\ id \in 0 .. (n - 1) /\ segments \in Nat /\ bytes \in Nat
  BY <1>1, TableNat
<1>5. \A i \in D : /\ SegmentWeights(fl)[i] \in Nat
                   /\ SegmentWeights(fl2)[i] \in Nat
                   /\ ByteWeights(fl)[i] \in Nat
                   /\ ByteWeights(fl2)[i] \in Nat
  BY <1>1, <1>2, <1>3, WeightsTyped
<1>6. \A i \in D : i # id => /\ SegmentWeights(fl2)[i] = SegmentWeights(fl)[i]
                             /\ ByteWeights(fl2)[i] = ByteWeights(fl)[i]
  BY <1>2 DEF SegmentWeights, ByteWeights
<1>7. /\ SegmentWeights(fl)[id] = Len(fl[id].pending)
      /\ SegmentWeights(fl2)[id] = Len(r.pending)
      /\ ByteWeights(fl)[id] = fl[id].pending_bytes
      /\ ByteWeights(fl2)[id] = r.pending_bytes
  BY <1>2 DEF SegmentWeights, ByteWeights
<1> HIDE DEF D
<1>8. segments2 = SumOver(SegmentWeights(fl2), n, D)
  <2>1. SumOver(SegmentWeights(fl2), n, D) + SegmentWeights(fl)[id]
          = SumOver(SegmentWeights(fl), n, D) + SegmentWeights(fl2)[id]
    <3> DEFINE v == SegmentWeights(fl)
               w == SegmentWeights(fl2)
    <3>1. \A i \in D : v[i] \in Nat /\ w[i] \in Nat
      BY <1>5
    <3>2. \A i \in D : i # id => w[i] = v[i]
      BY <1>6
    <3>3. id \in D
      BY DEF D
    <3> HIDE DEF v, w
    <3>4. SumOver(w, n, D) + v[id] = SumOver(v, n, D) + w[id]
      BY ONLY <1>4, <3>1, <3>2, <3>3, SumOverChange
    <3> QED BY <3>4 DEF v, w
  <2>2. segments = SumOver(SegmentWeights(fl), n, D)
    BY DEF TableOK, D
  <2>3. SumOver(SegmentWeights(fl2), n, D) \in Nat
    BY <1>4, <1>5, SumOverNat
  <2>4. SegmentWeights(fl)[id] \in Nat /\ SegmentWeights(fl2)[id] \in Nat
    BY <1>5 DEF D
  <2>5. segments2 + SegmentWeights(fl)[id] = segments + SegmentWeights(fl2)[id]
    BY <1>7
  <2> QED BY <1>4, <2>1, <2>2, <2>3, <2>4, <2>5
<1>9. bytes2 = SumOver(ByteWeights(fl2), n, D)
  <2>1. SumOver(ByteWeights(fl2), n, D) + ByteWeights(fl)[id]
          = SumOver(ByteWeights(fl), n, D) + ByteWeights(fl2)[id]
    <3> DEFINE v == ByteWeights(fl)
               w == ByteWeights(fl2)
    <3>1. \A i \in D : v[i] \in Nat /\ w[i] \in Nat
      BY <1>5
    <3>2. \A i \in D : i # id => w[i] = v[i]
      BY <1>6
    <3>3. id \in D
      BY DEF D
    <3> HIDE DEF v, w
    <3>4. SumOver(w, n, D) + v[id] = SumOver(v, n, D) + w[id]
      BY ONLY <1>4, <3>1, <3>2, <3>3, SumOverChange
    <3> QED BY <3>4 DEF v, w
  <2>2. bytes = SumOver(ByteWeights(fl), n, D)
    BY DEF TableOK, D
  <2>3. SumOver(ByteWeights(fl2), n, D) \in Nat
    BY <1>4, <1>5, SumOverNat
  <2>4. ByteWeights(fl)[id] \in Nat /\ ByteWeights(fl2)[id] \in Nat
    BY <1>5 DEF D
  <2>5. bytes2 + ByteWeights(fl)[id] = bytes + ByteWeights(fl2)[id]
    BY <1>7
  <2> QED BY <1>4, <2>1, <2>2, <2>3, <2>4, <2>5
<1> QED BY <1>1, <1>2, <1>3, <1>8, <1>9 DEF TableOK

(* Flows leave the table with everything they held. *)
LEMMA TableRemove ==
  ASSUME NEW fl, NEW n, NEW segments, NEW bytes, TableOK(fl, n, segments, bytes),
         NEW gone \in SUBSET DOMAIN fl,
         NEW fl2, fl2 = Restrict(fl, DOMAIN fl \ gone)
  PROVE  TableOK(fl2, n, segments - SumOver(SegmentWeights(fl), n, gone),
                         bytes - SumOver(ByteWeights(fl), n, gone))
<1> DEFINE D == DOMAIN fl
<1>1. /\ n \in FlowIds /\ D \subseteq 0 .. (n - 1)
      /\ \A i \in D : FlowOK(fl[i])
      /\ segments = SumOver(SegmentWeights(fl), n, D)
      /\ bytes = SumOver(ByteWeights(fl), n, D)
  BY DEF TableOK
<1>2. /\ DOMAIN fl2 = D \ gone
      /\ fl2 = [i \in DOMAIN fl2 |-> fl2[i]]
      /\ \A i \in D \ gone : fl2[i] = fl[i]
  BY DEF Restrict
<1>3. \A i \in DOMAIN fl2 : FlowOK(fl2[i])
  BY <1>1, <1>2
<1>4. n \in Nat
  BY TableNat
<1>5. \A i \in D : SegmentWeights(fl)[i] \in Nat /\ ByteWeights(fl)[i] \in Nat
  BY <1>1, WeightsTyped
<1>6. \A i \in D \ gone : /\ SegmentWeights(fl2)[i] = SegmentWeights(fl)[i]
                          /\ ByteWeights(fl2)[i] = ByteWeights(fl)[i]
  BY <1>2 DEF SegmentWeights, ByteWeights
<1>7. gone \in SUBSET D
  OBVIOUS
<1> HIDE DEF D
<1>8. SumOver(SegmentWeights(fl), n, D)
        = SumOver(SegmentWeights(fl2), n, D \ gone) + SumOver(SegmentWeights(fl), n, gone)
  <2> DEFINE v == SegmentWeights(fl)
             w == SegmentWeights(fl2)
  <2>1. \A i \in D : v[i] \in Nat
    BY <1>5
  <2>2. \A i \in D \ gone : w[i] = v[i]
    BY <1>6
  <2> HIDE DEF v, w
  <2>3. SumOver(v, n, D) = SumOver(w, n, D \ gone) + SumOver(v, n, gone)
    BY ONLY <1>4, <1>7, <2>1, <2>2, SumOverRemove
  <2> QED BY <2>3 DEF v, w
<1>9. SumOver(ByteWeights(fl), n, D)
        = SumOver(ByteWeights(fl2), n, D \ gone) + SumOver(ByteWeights(fl), n, gone)
  <2> DEFINE v == ByteWeights(fl)
             w == ByteWeights(fl2)
  <2>1. \A i \in D : v[i] \in Nat
    BY <1>5
  <2>2. \A i \in D \ gone : w[i] = v[i]
    BY <1>6
  <2> HIDE DEF v, w
  <2>3. SumOver(v, n, D) = SumOver(w, n, D \ gone) + SumOver(v, n, gone)
    BY ONLY <1>4, <1>7, <2>1, <2>2, SumOverRemove
  <2> QED BY <2>3 DEF v, w
<1>10. /\ SumOver(SegmentWeights(fl2), n, D \ gone) \in Nat
       /\ SumOver(ByteWeights(fl2), n, D \ gone) \in Nat
       /\ SumOver(SegmentWeights(fl), n, gone) \in Nat
       /\ SumOver(ByteWeights(fl), n, gone) \in Nat
  <2>1. \A i \in D \ gone : /\ SegmentWeights(fl2)[i] \in Nat
                            /\ ByteWeights(fl2)[i] \in Nat
    BY <1>5, <1>6
  <2>2. \A i \in gone : SegmentWeights(fl)[i] \in Nat /\ ByteWeights(fl)[i] \in Nat
    BY <1>5, <1>7
  <2> QED BY <1>4, <2>1, <2>2, SumOverNat
<1>11. /\ segments - SumOver(SegmentWeights(fl), n, gone)
            = SumOver(SegmentWeights(fl2), n, D \ gone)
       /\ bytes - SumOver(ByteWeights(fl), n, gone)
            = SumOver(ByteWeights(fl2), n, D \ gone)
  BY <1>1, <1>8, <1>9, <1>10
<1>12. DOMAIN fl2 \subseteq 0 .. (n - 1)
  BY <1>1, <1>2
<1> QED BY <1>1, <1>2, <1>3, <1>11, <1>12 DEF TableOK

(* A fresh flow joins the table. *)
LEMMA TableAdd ==
  ASSUME NEW fl, NEW n, NEW segments, NEW bytes, TableOK(fl, n, segments, bytes),
         NEW id \in FlowIds, id >= n, id # FlowIdMax,
         NEW fl2, fl2 = [f \in DOMAIN fl \cup {id} |->
                            IF f = id THEN NewFlow ELSE fl[f]]
  PROVE  TableOK(fl2, id + 1, segments, bytes)
<1> DEFINE D == DOMAIN fl
<1>1. /\ n \in FlowIds /\ D \subseteq 0 .. (n - 1)
      /\ \A i \in D : FlowOK(fl[i])
      /\ segments = SumOver(SegmentWeights(fl), n, D)
      /\ bytes = SumOver(ByteWeights(fl), n, D)
  BY DEF TableOK
<1>2. n \in Nat /\ id \in Nat /\ id + 1 \in Nat /\ n <= id + 1 /\ id + 1 \in FlowIds
  BY TableNat, CountersAssumption DEF FlowIds
<1>3. id \notin D
  BY <1>1, <1>2
<1>4. /\ DOMAIN fl2 = D \cup {id}
      /\ fl2 = [i \in DOMAIN fl2 |-> fl2[i]]
      /\ fl2[id] = NewFlow
      /\ \A i \in D : fl2[i] = fl[i]
  BY <1>3
<1>5. NewFlow \in ReliableFlow /\ NewFlow.pending = <<>> /\ NewFlow.pending_bytes = 0
  <2>1. 0 \in Sequences /\ <<>> \in Seq(PendingSegment)
    BY CountersAssumption DEF Sequences
  <2> QED BY <2>1 DEF NewFlow, ReliableFlow
<1>6. FlowOK(NewFlow)
  BY <1>5, BytesEmpty DEF FlowOK
<1>7. \A i \in DOMAIN fl2 : FlowOK(fl2[i])
  BY <1>1, <1>4, <1>6
<1>8. \A i \in D : SegmentWeights(fl)[i] \in Nat /\ ByteWeights(fl)[i] \in Nat
  BY <1>1, WeightsTyped
<1>9. \A i \in D : /\ SegmentWeights(fl2)[i] = SegmentWeights(fl)[i]
                   /\ ByteWeights(fl2)[i] = ByteWeights(fl)[i]
  BY <1>4 DEF SegmentWeights, ByteWeights
<1>10. SegmentWeights(fl2)[id] = 0 /\ ByteWeights(fl2)[id] = 0
  BY <1>4, <1>5, Len(<<>>) = 0 DEF SegmentWeights, ByteWeights
<1> HIDE DEF D
<1>11. SumOver(SegmentWeights(fl2), id + 1, D \cup {id}) = SumOver(SegmentWeights(fl), n, D)
  <2> DEFINE v == SegmentWeights(fl)
             w == SegmentWeights(fl2)
  <2>1. PICK m \in Nat : m = id + 1
    BY <1>2
  <2>2. PICK E : E = D \cup {id}
    OBVIOUS
  <2>3. \A i \in D : i < n /\ i \in E /\ v[i] \in Nat /\ w[i] = v[i]
    <3> TAKE i \in D
    <3>1. i \in 0 .. (n - 1) /\ i < n
      BY <1>1, <1>2
    <3>2. v[i] \in Nat /\ w[i] = v[i]
      BY <1>8, <1>9
    <3>3. i \in E
      BY <2>2
    <3> QED BY <3>1, <3>2, <3>3
  <2>4. \A i \in E : i \in D \/ (i >= n /\ w[i] = 0)
    BY <1>2, <1>10, <2>2
  <2> HIDE DEF v, w
  <2>5. SumOver(w, m, E) = SumOver(v, n, D)
    BY <1>2, <2>1, <2>3, <2>4, SumOverAdd
  <2> QED BY <2>1, <2>2, <2>5 DEF v, w
<1>12. SumOver(ByteWeights(fl2), id + 1, D \cup {id}) = SumOver(ByteWeights(fl), n, D)
  <2> DEFINE v == ByteWeights(fl)
             w == ByteWeights(fl2)
  <2>1. PICK m \in Nat : m = id + 1
    BY <1>2
  <2>2. PICK E : E = D \cup {id}
    OBVIOUS
  <2>3. \A i \in D : i < n /\ i \in E /\ v[i] \in Nat /\ w[i] = v[i]
    <3> TAKE i \in D
    <3>1. i \in 0 .. (n - 1) /\ i < n
      BY <1>1, <1>2
    <3>2. v[i] \in Nat /\ w[i] = v[i]
      BY <1>8, <1>9
    <3>3. i \in E
      BY <2>2
    <3> QED BY <3>1, <3>2, <3>3
  <2>4. \A i \in E : i \in D \/ (i >= n /\ w[i] = 0)
    BY <1>2, <1>10, <2>2
  <2> HIDE DEF v, w
  <2>5. SumOver(w, m, E) = SumOver(v, n, D)
    BY <1>2, <2>1, <2>3, <2>4, SumOverAdd
  <2> QED BY <2>1, <2>2, <2>5 DEF v, w
<1>13. DOMAIN fl2 \subseteq 0 .. ((id + 1) - 1)
  <2>1. (id + 1) - 1 = id /\ id \in 0 .. id
    BY <1>2
  <2>2. 0 .. (n - 1) \subseteq 0 .. id
    BY <1>2
  <2> QED BY <1>1, <1>4, <2>1, <2>2
<1> QED BY <1>1, <1>2, <1>4, <1>7, <1>11, <1>12, <1>13 DEF TableOK

-----------------------------------------------------------------------------
(* The inductive core of type correctness and accounting: neither holds    *)
(* without the other, since a counter is a natural number only because it  *)
(* is the sum it is meant to be.                                           *)
Bookkeeping ==
  /\ current \in Epochs
  /\ retiring \in Epochs \cup {None}
  /\ tick \in Ticks
  /\ TableOK(flows, next_flow, pending_segments, pending_bytes)
  /\ events \in 0 .. MaxEvents

(* The sums in AccountingExact are sums over the flow table. *)
LEMMA SumsOfTable ==
  ASSUME Bookkeeping, NEW ids \in SUBSET DOMAIN flows
  PROVE  /\ SegmentsOf(ids) = SumOver(SegmentWeights(flows), next_flow, ids)
         /\ BytesOf(ids) = SumOver(ByteWeights(flows), next_flow, ids)
<1>1. [k \in 1 .. next_flow |-> IF k - 1 \in ids THEN Len(flows[k - 1].pending) ELSE 0]
        = Weights(SegmentWeights(flows), next_flow, ids)
  BY DEF Weights, SegmentWeights
<1>2. [k \in 1 .. next_flow |-> IF k - 1 \in ids THEN flows[k - 1].pending_bytes ELSE 0]
        = Weights(ByteWeights(flows), next_flow, ids)
  BY DEF Weights, ByteWeights
<1> QED BY <1>1, <1>2 DEF SegmentsOf, BytesOf, SumOver

(* The inductive invariant implies both invariants that the runs check. *)
LEMMA BookkeepingImplies == Bookkeeping => TypeOK /\ AccountingExact
<1> SUFFICES ASSUME Bookkeeping PROVE TypeOK /\ AccountingExact
  OBVIOUS
<1>1. next_flow \in Nat /\ pending_segments \in Nat /\ pending_bytes \in Nat
  BY TableNat DEF Bookkeeping
<1>2. TypeOK
  BY <1>1 DEF TypeOK, Bookkeeping, TableOK, FlowOK
<1>3. AccountingExact
  BY SumsOfTable DEF AccountingExact, Bookkeeping, TableOK, FlowOK
<1> QED BY <1>2, <1>3

(* record_event keeps the number of events within the capacity of the log. *)
LEMMA EventsStep ==
  ASSUME NEW n \in Nat, events \in 0 .. MaxEvents, RecordEvents(n)
  PROVE  events' \in 0 .. MaxEvents
BY LimitsAssumption DEF RecordEvents

(* A new session keeps its books. *)
LEMMA InitBookkeeping == Init => Bookkeeping
<1> SUFFICES ASSUME Init PROVE Bookkeeping
  OBVIOUS
<1>1. /\ current \in Epochs /\ retiring \in Epochs \cup {None}
      /\ tick \in Ticks /\ events \in 0 .. MaxEvents /\ 0 \in FlowIds
  BY CountersAssumption, LimitsAssumption DEF Init, Epochs, Ticks, FlowIds
<1>2. DOMAIN flows = {} /\ flows = [i \in DOMAIN flows |-> flows[i]]
  BY DEF Init
<1>3. /\ SumOver(SegmentWeights(flows), 0, {}) = 0
      /\ SumOver(ByteWeights(flows), 0, {}) = 0
  BY SumOverEmpty
<1>4. TableOK(flows, next_flow, pending_segments, pending_bytes)
  BY <1>1, <1>2, <1>3 DEF Init, TableOK
<1> QED BY <1>1, <1>4 DEF Bookkeeping

(* The flow an action leaves in place of flows[id]. *)
SentFlow(f, len) ==
  LET segment == [sequence |-> f.next_send, epoch |-> current,
                  len |-> len, expires_at |-> tick + MaxPendingAge]
  IN  [f EXCEPT !.next_send = @ + 1, !.pending = Append(@, segment),
                !.pending_bytes = @ + len]

(* send keeps the books of its flow: one segment longer, and its bytes counted once. *)
LEMMA SendFlow ==
  ASSUME Bookkeeping, NEW id \in FlowIds, NEW len \in Lengths, Send(id, len)
  PROVE  /\ id \in DOMAIN flows
         /\ flows' = [flows EXCEPT ![id] = SentFlow(flows[id], len)]
         /\ FlowOK(SentFlow(flows[id], len))
         /\ Len(SentFlow(flows[id], len).pending) = Len(flows[id].pending) + 1
         /\ SentFlow(flows[id], len).pending_bytes = flows[id].pending_bytes + len
<1> DEFINE f == flows[id]
           segment == [sequence |-> f.next_send, epoch |-> current,
                       len |-> len, expires_at |-> tick + MaxPendingAge]
           r == SentFlow(f, len)
<1>1. id \in DOMAIN flows
  BY DEF Send
<1>2. FlowOK(f) /\ f \in ReliableFlow
  BY <1>1 DEF Bookkeeping, TableOK, FlowOK
<1>3. /\ f.next_send \in Sequences /\ f.pending \in Seq(PendingSegment)
      /\ f.pending_bytes \in Nat /\ f.next_receive \in Sequences
      /\ f.receive_final_next \in Sequences \cup {None}
  BY <1>2 DEF ReliableFlow
<1>4. f.next_send + 1 \in Sequences /\ tick + MaxPendingAge \in Ticks /\ len \in Nat
  <2>1. f.next_send < SequenceMax /\ tick + MaxPendingAge <= TickMax /\ tick \in Ticks
    BY DEF Send, Bookkeeping
  <2> HIDE DEF f
  <2> QED BY <1>3, <2>1, CountersAssumption, LimitsAssumption DEF Sequences, Ticks
<1>5. segment \in PendingSegment /\ segment.len = len
  BY <1>3, <1>4 DEF PendingSegment, Bookkeeping
<1>6. flows' = [flows EXCEPT ![id] = r]
  BY <1>1 DEF Send, SentFlow
<1>7. /\ r.pending = Append(f.pending, segment)
      /\ r.pending_bytes = f.pending_bytes + len
  <2> HIDE DEF f
  <2> QED BY <1>2 DEF SentFlow, ReliableFlow
<1>8. r \in ReliableFlow
  <2>1. Append(f.pending, segment) \in Seq(PendingSegment)
    BY <1>3, <1>5
  <2>2. f.pending_bytes + len \in Nat
    BY <1>3, <1>4
  <2> HIDE DEF f
  <2> QED BY <1>2, <1>4, <2>1, <2>2 DEF SentFlow, ReliableFlow
<1>9. Bytes(Append(f.pending, segment)) = Bytes(f.pending) + len
  BY <1>3, <1>5, BytesAppend
<1>10. FlowOK(r)
  BY <1>2, <1>7, <1>8, <1>9 DEF FlowOK
<1>11. Len(r.pending) = Len(f.pending) + 1 /\ r.pending_bytes = f.pending_bytes + len
  BY <1>3, <1>7
<1> QED BY <1>1, <1>6, <1>10, <1>11

AcknowledgedFlow(f, n) ==
  [f EXCEPT !.pending = SubSeq(f.pending, n + 1, Len(f.pending)),
            !.pending_bytes = @ - Bytes(SubSeq(f.pending, 1, n))]

(* acknowledge keeps the books of its flow: what the pop loop removes is what both
   counters give back. *)
LEMMA AcknowledgeFlow ==
  ASSUME Bookkeeping, NEW id \in FlowIds, NEW epoch \in Epochs, NEW s \in Sequences,
         Acknowledge(id, epoch, s)
  PROVE  LET f == flows[id]
             n == Released(f.pending, s)
             r == AcknowledgedFlow(f, n)
             b == Bytes(SubSeq(f.pending, 1, n))
         IN  /\ id \in DOMAIN flows
             /\ n \in 0 .. Len(f.pending) /\ b \in Nat
             /\ flows' = [flows EXCEPT ![id] = r]
             /\ FlowOK(r)
             /\ Len(r.pending) = Len(f.pending) - n
             /\ r.pending_bytes = f.pending_bytes - b
             /\ pending_segments' = pending_segments - n
             /\ pending_bytes' = pending_bytes - b
<1> DEFINE f == flows[id]
           q == f.pending
           n == Released(q, s)
           b == Bytes(SubSeq(q, 1, n))
           r == AcknowledgedFlow(f, n)
<1>1. id \in DOMAIN flows
  BY DEF Acknowledge
<1>2. FlowOK(f) /\ f \in ReliableFlow
  BY <1>1 DEF Bookkeeping, TableOK, FlowOK
<1>3. q \in Seq(PendingSegment) /\ f.pending_bytes \in Nat /\ s \in Nat
  BY <1>2, CountersAssumption DEF ReliableFlow, Sequences
<1>4. n \in 0 .. Len(q)
  <2> HIDE DEF q
  <2> QED BY <1>3, ReleasedPrefix
<1>5. /\ flows' = [flows EXCEPT ![id] = r]
      /\ pending_segments' = pending_segments - n
      /\ pending_bytes' = pending_bytes - b
  BY <1>1 DEF Acknowledge, AcknowledgedFlow
<1> HIDE DEF f
<1>6. r.pending = SubSeq(q, n + 1, Len(q)) /\ r.pending_bytes = f.pending_bytes - b
  BY <1>2 DEF AcknowledgedFlow, ReliableFlow
<1>7. /\ SubSeq(q, 1, n) \in Seq(PendingSegment)
      /\ SubSeq(q, n + 1, Len(q)) \in Seq(PendingSegment)
      /\ Len(SubSeq(q, n + 1, Len(q))) = Len(q) - n
      /\ Bytes(q) = b + Bytes(SubSeq(q, n + 1, Len(q)))
  <2> HIDE DEF q, n
  <2> QED BY <1>3, <1>4, BytesSplit
<1> HIDE DEF q, n
<1>8. b \in Nat /\ Bytes(SubSeq(q, n + 1, Len(q))) \in Nat
  BY <1>7, BytesNat
<1>9. r.pending_bytes = Bytes(r.pending) /\ f.pending_bytes - b \in Nat
  BY <1>2, <1>6, <1>7, <1>8 DEF FlowOK, q
<1>10. r \in ReliableFlow
  BY <1>2, <1>7, <1>9 DEF AcknowledgedFlow, ReliableFlow, q
<1>11. FlowOK(r)
  BY <1>9, <1>10 DEF FlowOK
<1>12. Len(r.pending) = Len(q) - n
  BY <1>6, <1>7
<1> QED BY <1>1, <1>4, <1>5, <1>6, <1>8, <1>11, <1>12 DEF f, q, n

(* Actions that change a cursor and leave the queue alone. *)
LEMMA CursorFlow ==
  ASSUME Bookkeeping, NEW id \in DOMAIN flows, NEW r \in ReliableFlow,
         r.pending = flows[id].pending, r.pending_bytes = flows[id].pending_bytes,
         flows' = [flows EXCEPT ![id] = r],
         UNCHANGED <<next_flow, pending_segments, pending_bytes>>
  PROVE  TableOK(flows', next_flow', pending_segments', pending_bytes')
<1>1. FlowOK(r)
  BY DEF Bookkeeping, TableOK, FlowOK
<1>2. TableOK(flows, next_flow, pending_segments, pending_bytes)
  BY DEF Bookkeeping
<1>3. pending_segments \in Int /\ pending_bytes \in Int
  BY <1>2, TableNat
<1>4. TableOK(flows', next_flow, pending_segments, pending_bytes)
  BY <1>1, <1>2, <1>3, TableReplace
<1> QED BY <1>4

(* reset, close and timeout give back to the session all that the flows held. *)
LEMMA ReleaseTable ==
  ASSUME Bookkeeping, NEW ids \in SUBSET DOMAIN flows, ReleaseFlows(ids),
         UNCHANGED next_flow
  PROVE  TableOK(flows', next_flow', pending_segments', pending_bytes')
<1>1. TableOK(flows, next_flow, pending_segments, pending_bytes)
  BY DEF Bookkeeping
<1>2. flows' = Restrict(flows, DOMAIN flows \ ids)
  BY DEF ReleaseFlows
<1>3. /\ pending_segments' = pending_segments
                             - SumOver(SegmentWeights(flows), next_flow, ids)
      /\ pending_bytes' = pending_bytes - SumOver(ByteWeights(flows), next_flow, ids)
  BY SumsOfTable DEF ReleaseFlows
<1> QED BY <1>1, <1>2, <1>3, TableRemove

(* advance_time removes finitely many flows, so their segments can be counted. *)
LEMMA TimedOutFinite ==
  ASSUME Bookkeeping, NEW now
  PROVE  TimedOut(now) \in SUBSET DOMAIN flows /\ Cardinality(TimedOut(now)) \in Nat
<1>1. TimedOut(now) \in SUBSET DOMAIN flows
  BY DEF TimedOut
<1>2. IsFiniteSet(0 .. (next_flow - 1))
  <2>1. next_flow \in Nat
    BY TableNat DEF Bookkeeping
  <2> QED BY <2>1, FS_Interval
<1>3. TimedOut(now) \subseteq 0 .. (next_flow - 1)
  BY <1>1 DEF Bookkeeping, TableOK
<1>4. IsFiniteSet(TimedOut(now))
  BY <1>2, <1>3, FS_Subset
<1> QED BY <1>1, <1>4, FS_CardinalityType

(* Every call on a session, and every expiry, keeps the books. *)
LEMMA BookkeepingStep == Bookkeeping /\ [Next]_flowVars => Bookkeeping'
<1> SUFFICES ASSUME Bookkeeping, [Next]_flowVars PROVE Bookkeeping'
  OBVIOUS
<1> USE DEF epochVars, counterVars
<1>0. TableOK(flows, next_flow, pending_segments, pending_bytes)
  BY DEF Bookkeeping
<1>0a. /\ current \in Epochs /\ retiring \in Epochs \cup {None}
       /\ tick \in Ticks /\ events \in 0 .. MaxEvents
  BY DEF Bookkeeping
<1>0b. pending_segments \in Nat /\ pending_bytes \in Nat /\ next_flow \in Nat
  BY <1>0, TableNat
<1>1. ASSUME NEW id \in FlowIds, OpenReliableFlow(id) PROVE Bookkeeping'
  <2>1. TableOK(flows', id + 1, pending_segments, pending_bytes)
    BY <1>0, <1>1, TableAdd DEF OpenReliableFlow
  <2>2. events' \in 0 .. MaxEvents
    BY <1>0a, <1>1, EventsStep DEF OpenReliableFlow
  <2> QED BY <1>0a, <1>1, <2>1, <2>2 DEF OpenReliableFlow, Bookkeeping
<1>2. ASSUME NEW id \in FlowIds, CloseReliableFlow(id) PROVE Bookkeeping'
  <2>1. {id} \in SUBSET DOMAIN flows /\ flows[id].pending = <<>> /\ FlowOK(flows[id])
    BY <1>0, <1>2 DEF CloseReliableFlow, TableOK
  <2>2. /\ SegmentWeights(flows)[id] = 0 /\ ByteWeights(flows)[id] = 0
    BY <2>1, BytesEmpty, Len(<<>>) = 0 DEF SegmentWeights, ByteWeights, FlowOK
  <2>3. /\ SumOver(SegmentWeights(flows), next_flow, {id}) = 0
        /\ SumOver(ByteWeights(flows), next_flow, {id}) = 0
    <3>1. \A k \in 1 .. next_flow : /\ Weights(SegmentWeights(flows), next_flow, {id})[k] = 0
                                   /\ Weights(ByteWeights(flows), next_flow, {id})[k] = 0
      BY <2>2 DEF Weights
    <3> QED BY <1>0b, <3>1, TotalZero DEF SumOver
  <2>4. flows' = Restrict(flows, DOMAIN flows \ {id})
    BY <1>2 DEF CloseReliableFlow
  <2>5. TableOK(flows', next_flow,
                pending_segments - SumOver(SegmentWeights(flows), next_flow, {id}),
                pending_bytes - SumOver(ByteWeights(flows), next_flow, {id}))
    BY <1>0, <2>1, <2>4, TableRemove
  <2>6. TableOK(flows', next_flow, pending_segments, pending_bytes)
    <3>1. pending_segments - 0 = pending_segments /\ pending_bytes - 0 = pending_bytes
      BY <1>0b
    <3> QED BY <2>3, <2>5, <3>1
  <2> QED BY <1>0a, <1>2, <2>6 DEF CloseReliableFlow, Bookkeeping
<1>3. ASSUME NEW id \in FlowIds, NEW len \in Lengths, Send(id, len) PROVE Bookkeeping'
  <2> DEFINE r == SentFlow(flows[id], len)
  <2>1. /\ id \in DOMAIN flows /\ flows' = [flows EXCEPT ![id] = r] /\ FlowOK(r)
        /\ Len(r.pending) = Len(flows[id].pending) + 1
        /\ r.pending_bytes = flows[id].pending_bytes + len
    BY <1>3, SendFlow
  <2>2. /\ Len(flows[id].pending) \in Nat /\ flows[id].pending_bytes \in Nat
        /\ len \in Nat
    BY <1>0, <2>1, CountersAssumption DEF TableOK, FlowOK, ReliableFlow
  <2>3. /\ pending_segments' = pending_segments + 1 /\ pending_bytes' = pending_bytes + len
        /\ next_flow' = next_flow
    BY <1>3 DEF Send
  <2> HIDE DEF r
  <2>4. /\ pending_segments' \in Int /\ pending_bytes' \in Int
        /\ pending_segments' + Len(flows[id].pending) = pending_segments + Len(r.pending)
        /\ pending_bytes' + flows[id].pending_bytes = pending_bytes + r.pending_bytes
    <3>1. /\ Len(r.pending) = Len(flows[id].pending) + 1
          /\ r.pending_bytes = flows[id].pending_bytes + len
      BY <2>1
    <3>2. pending_segments' \in Int /\ pending_bytes' \in Int
      BY <1>0b, <2>2, <2>3
    <3>3. (pending_segments + 1) + Len(flows[id].pending)
            = pending_segments + (Len(flows[id].pending) + 1)
      <4>1. \A l, k \in Nat : (k + 1) + l = k + (l + 1)
        OBVIOUS
      <4> QED BY <1>0b, <2>2, <4>1, Zenon
    <3>4. (pending_bytes + len) + flows[id].pending_bytes
            = pending_bytes + (flows[id].pending_bytes + len)
      BY <1>0b, <2>2
    <3> QED BY <2>3, <3>1, <3>2, <3>3, <3>4
  <2>5. TableOK(flows', next_flow, pending_segments', pending_bytes')
    BY <1>0, <2>1, <2>4, TableReplace
  <2> QED BY <1>0a, <1>3, <2>3, <2>5 DEF Send, Bookkeeping
<1>4. ASSUME NEW id \in FlowIds, NEW len \in Lengths, SendRefused(id, len)
      PROVE  Bookkeeping'
  <2>1. events' \in 0 .. MaxEvents
    BY <1>0a, <1>4, EventsStep DEF SendRefused
  <2> QED BY <1>0, <1>0a, <1>4, <2>1 DEF SendRefused, Bookkeeping
<1>5. ASSUME NEW id \in FlowIds, NEW e \in Epochs, NEW s \in Sequences,
             Acknowledge(id, e, s)
      PROVE  Bookkeeping'
  <2> DEFINE f == flows[id]
             n == Released(f.pending, s)
             r == AcknowledgedFlow(f, n)
             b == Bytes(SubSeq(f.pending, 1, n))
  <2>1. /\ id \in DOMAIN flows /\ n \in 0 .. Len(f.pending) /\ b \in Nat
        /\ flows' = [flows EXCEPT ![id] = r] /\ FlowOK(r)
        /\ Len(r.pending) = Len(f.pending) - n
        /\ r.pending_bytes = f.pending_bytes - b
        /\ pending_segments' = pending_segments - n
        /\ pending_bytes' = pending_bytes - b
    BY <1>5, AcknowledgeFlow
  <2>2. Len(f.pending) \in Nat /\ f.pending_bytes \in Nat
    BY <1>0, <2>1 DEF TableOK, FlowOK, ReliableFlow
  <2> HIDE DEF n, r, b
  <2>3. /\ pending_segments' \in Int /\ pending_bytes' \in Int
        /\ pending_segments' + Len(f.pending) = pending_segments + Len(r.pending)
        /\ pending_bytes' + f.pending_bytes = pending_bytes + r.pending_bytes
    BY <1>0b, <2>1, <2>2, SMTT(30)
  <2>4. TableOK(flows', next_flow, pending_segments', pending_bytes')
    <3>1. /\ pending_segments' + Len(flows[id].pending) = pending_segments + Len(r.pending)
          /\ pending_bytes' + flows[id].pending_bytes = pending_bytes + r.pending_bytes
      BY <2>3
    <3>2. id \in DOMAIN flows /\ flows' = [flows EXCEPT ![id] = r] /\ FlowOK(r)
      BY <2>1
    <3>3. pending_segments' \in Int /\ pending_bytes' \in Int
      BY <2>3
    <3> HIDE DEF f
    <3> QED BY <1>0, <3>1, <3>2, <3>3, TableReplace
  <2> QED BY <1>0a, <1>5, <2>4 DEF Acknowledge, Bookkeeping
<1>6. ASSUME NEW id \in FlowIds, NEW e \in Epochs, NEW s \in Sequences,
             ReceiveDelivered(id, e, s)
      PROVE  Bookkeeping'
  <2> DEFINE f == flows[id]
             r == [f EXCEPT !.next_receive = @ + 1]
  <2>1. id \in DOMAIN flows /\ flows' = [flows EXCEPT ![id] = r]
    BY <1>6 DEF ReceiveDelivered, Receivable
  <2>2. f \in ReliableFlow /\ f.next_receive \in Sequences /\ f.next_receive < SequenceMax
    BY <1>0, <1>6, <2>1 DEF TableOK, FlowOK, ReliableFlow, ReceiveDelivered
  <2>3. f.next_receive + 1 \in Sequences
    BY <2>2, CountersAssumption DEF Sequences
  <2>4. r \in ReliableFlow /\ r.pending = f.pending /\ r.pending_bytes = f.pending_bytes
    <3> HIDE DEF f
    <3> QED BY <2>2, <2>3 DEF ReliableFlow
  <2> HIDE DEF r
  <2>5. TableOK(flows', next_flow', pending_segments', pending_bytes')
    BY <1>6, <2>1, <2>4, CursorFlow DEF ReceiveDelivered
  <2> QED BY <1>0a, <1>6, <2>5 DEF ReceiveDelivered, Bookkeeping
<1>7. ASSUME NEW id \in FlowIds, NEW e \in Epochs, NEW s \in Sequences,
             ReceiveIgnored(id, e, s)
      PROVE  Bookkeeping'
  <2>1. events' \in 0 .. MaxEvents
    BY <1>0a, <1>7, EventsStep DEF ReceiveIgnored
  <2> QED BY <1>0, <1>0a, <1>7, <2>1 DEF ReceiveIgnored, Bookkeeping
<1>8. ASSUME NEW id \in FlowIds, NEW e \in Epochs, NEW s \in Sequences,
             FinishReceiving(id, e, s)
      PROVE  Bookkeeping'
  <2> DEFINE f == flows[id]
             r == [f EXCEPT !.receive_final_next = s]
  <2>1. id \in DOMAIN flows /\ flows' = [flows EXCEPT ![id] = r]
    BY <1>8 DEF FinishReceiving
  <2>2. f \in ReliableFlow
    BY <1>0, <2>1 DEF TableOK, FlowOK
  <2>3. r \in ReliableFlow /\ r.pending = f.pending /\ r.pending_bytes = f.pending_bytes
    <3> HIDE DEF f
    <3> QED BY <2>2 DEF ReliableFlow
  <2> HIDE DEF r
  <2>4. TableOK(flows', next_flow', pending_segments', pending_bytes')
    BY <1>8, <2>1, <2>3, CursorFlow DEF FinishReceiving
  <2> QED BY <1>0a, <1>8, <2>4 DEF FinishReceiving, Bookkeeping
<1>9. ASSUME NEW id \in FlowIds, ResetReliableFlow(id) PROVE Bookkeeping'
  <2>1. {id} \in SUBSET DOMAIN flows
    BY <1>9 DEF ResetReliableFlow
  <2>2. TableOK(flows', next_flow', pending_segments', pending_bytes')
    BY <1>9, <2>1, ReleaseTable DEF ResetReliableFlow
  <2> QED BY <1>0a, <1>9, <2>2 DEF ResetReliableFlow, Bookkeeping
<1>10. ASSUME NEW ticks \in Ticks, AdvanceTime(ticks) PROVE Bookkeeping'
  <2>1. TimedOut(tick') \in SUBSET DOMAIN flows /\ Cardinality(TimedOut(tick')) \in Nat
    BY TimedOutFinite
  <2>2. TableOK(flows', next_flow', pending_segments', pending_bytes')
    BY <1>10, <2>1, ReleaseTable DEF AdvanceTime
  <2>3. events' \in 0 .. MaxEvents
    BY <1>0a, <1>10, <2>1, EventsStep DEF AdvanceTime
  <2>4. tick' \in Ticks
    BY <1>0a, <1>10, CountersAssumption DEF AdvanceTime, Ticks
  <2> QED BY <1>0a, <1>10, <2>2, <2>3, <2>4 DEF AdvanceTime, Bookkeeping
<1>11. ASSUME NEW n \in {0, 1}, BeginTransition(n) PROVE Bookkeeping'
  <2>1. events' \in 0 .. MaxEvents
    BY <1>0a, <1>11, EventsStep DEF BeginTransition
  <2>2. current' \in Epochs /\ retiring' \in Epochs \cup {None}
    BY <1>0a, <1>11, CountersAssumption DEF BeginTransition, AdvanceEpoch, Epochs
  <2> QED BY <1>0, <1>0a, <1>11, <2>1, <2>2 DEF BeginTransition, Bookkeeping
<1>12. CASE CompleteTransition
  <2>1. events' \in 0 .. MaxEvents
    BY <1>0a, <1>12, EventsStep DEF CompleteTransition
  <2> QED BY <1>0, <1>0a, <1>12, <2>1 DEF CompleteTransition, Bookkeeping
<1>13. CASE RejectTransition
  <2>1. events' \in 0 .. MaxEvents
    BY <1>0a, <1>13, EventsStep DEF RejectTransition
  <2> QED BY <1>0, <1>0a, <1>13, <2>1 DEF RejectTransition, Bookkeeping
<1>14. CASE UNCHANGED flowVars
  BY <1>0, <1>0a, <1>14 DEF flowVars, Bookkeeping
<1> QED
  BY <1>1, <1>2, <1>3, <1>4, <1>5, <1>6, <1>7, <1>8, <1>9, <1>10, <1>11, <1>12,
     <1>13, <1>14 DEF Next, FlowNext

(* The books of a session are kept for ever, whatever calls are made. *)
THEOREM BookkeepingInvariant == Spec => []Bookkeeping
BY InitBookkeeping, BookkeepingStep, PTL DEF Spec

(* The state of a session always has its type.  The counters in it are naturals:
   checked_sub in acknowledge, reset_reliable_flow and advance_time never fails. *)
THEOREM TypeCorrect == Spec => []TypeOK
BY BookkeepingInvariant, BookkeepingImplies, PTL

(* The counters cached by each flow and by the session equal what the queues hold,
   for every value of the limits and after any sequence of calls: no call of send,
   acknowledge, reset, close or advance_time leaks or double-counts budget. *)
THEOREM AccountingCorrect == Spec => []AccountingExact
BY BookkeepingInvariant, BookkeepingImplies, PTL

-----------------------------------------------------------------------------
(* What a flow may hold while the session is in epoch cur at tick now.     *)
(* NothingOverdue needs the order of the lifetimes along the queue, since  *)
(* advance_time looks at the front only, and that order needs every        *)
(* lifetime to end at most MaxPendingAge from now, since send appends the  *)
(* longest.                                                                *)
QueueOK(f, cur, now) ==
  /\ Len(f.pending) <= MaxPendingSegments
  /\ f.pending_bytes <= MaxPendingBytes
  /\ \A i \in 1 .. Len(f.pending) :
       /\ f.pending[i].sequence + Len(f.pending) + 1 = f.next_send + i
       /\ f.pending[i].epoch <= cur
       /\ f.pending[i].expires_at > now
       /\ f.pending[i].expires_at <= now + MaxPendingAge
       /\ \A j \in i .. Len(f.pending) :
            /\ f.pending[i].epoch <= f.pending[j].epoch
            /\ f.pending[i].expires_at <= f.pending[j].expires_at
  /\ f.receive_final_next # None => f.next_receive <= f.receive_final_next

QueueInv ==
  /\ Bookkeeping
  /\ IsFiniteSet(DOMAIN flows) /\ Cardinality(DOMAIN flows) <= MaxFlows
  /\ pending_segments <= MaxSessionPendingSegments
  /\ pending_bytes <= MaxSessionPendingBytes
  /\ \A id \in DOMAIN flows : QueueOK(flows[id], current, tick)

(* What the steps that follow use of a flow and of its session. *)
LEMMA FlowTyped ==
  ASSUME Bookkeeping
  PROVE  /\ current \in Nat /\ tick \in Nat /\ current \in Epochs /\ tick \in Ticks
         /\ pending_segments \in Nat /\ pending_bytes \in Nat /\ next_flow \in Nat
         /\ DOMAIN flows \subseteq 0 .. (next_flow - 1)
         /\ \A id \in DOMAIN flows :
              /\ flows[id] \in ReliableFlow
              /\ flows[id].pending \in Seq(PendingSegment) /\ Len(flows[id].pending) \in Nat
              /\ flows[id].pending_bytes \in Nat
              /\ flows[id].next_send \in Nat /\ flows[id].next_receive \in Nat
              /\ flows[id].receive_final_next \in Nat \cup {None}
              /\ \A i \in 1 .. Len(flows[id].pending) :
                   /\ flows[id].pending[i] \in PendingSegment
                   /\ flows[id].pending[i].sequence \in Nat
                   /\ flows[id].pending[i].epoch \in Nat
                   /\ flows[id].pending[i].expires_at \in Nat
<1>1. /\ current \in Nat /\ tick \in Nat /\ current \in Epochs /\ tick \in Ticks
  BY CountersAssumption DEF Bookkeeping, Epochs, Ticks
<1>2. pending_segments \in Nat /\ pending_bytes \in Nat /\ next_flow \in Nat
  BY TableNat DEF Bookkeeping
<1>3. DOMAIN flows \subseteq 0 .. (next_flow - 1)
  BY DEF Bookkeeping, TableOK
<1>4. ASSUME NEW id \in DOMAIN flows
      PROVE  /\ flows[id] \in ReliableFlow
             /\ flows[id].pending \in Seq(PendingSegment) /\ Len(flows[id].pending) \in Nat
             /\ flows[id].pending_bytes \in Nat
             /\ flows[id].next_send \in Nat /\ flows[id].next_receive \in Nat
             /\ flows[id].receive_final_next \in Nat \cup {None}
  <2>1. flows[id] \in ReliableFlow
    BY DEF Bookkeeping, TableOK, FlowOK
  <2> QED BY <2>1, CountersAssumption DEF ReliableFlow, Sequences
<1>5. ASSUME NEW id \in DOMAIN flows, NEW i \in 1 .. Len(flows[id].pending)
      PROVE  /\ flows[id].pending[i] \in PendingSegment
             /\ flows[id].pending[i].sequence \in Nat
             /\ flows[id].pending[i].epoch \in Nat
             /\ flows[id].pending[i].expires_at \in Nat
  BY <1>4, EntryTyped
<1> QED BY <1>1, <1>2, <1>3, <1>4, <1>5

(* send appends to the window: the next sequence, the current epoch and    *)
(* the longest lifetime.                                                   *)
LEMMA QueueSent ==
  ASSUME Bookkeeping, NEW id \in FlowIds, NEW len \in Lengths, Send(id, len),
         QueueOK(flows[id], current, tick)
  PROVE  QueueOK(SentFlow(flows[id], len), current, tick)
<1> DEFINE f == flows[id]
           r == SentFlow(f, len)
           q == f.pending
           segment == [sequence |-> f.next_send, epoch |-> current,
                       len |-> len, expires_at |-> tick + MaxPendingAge]
<1>1. id \in DOMAIN flows /\ ~OverBudget(id, len)
  BY DEF Send
<1>2. /\ f \in ReliableFlow /\ q \in Seq(PendingSegment) /\ Len(q) \in Nat /\ f.next_send \in Nat
      /\ f.pending_bytes \in Nat /\ len \in Nat /\ current \in Nat /\ tick \in Nat
      /\ \A i \in 1 .. Len(q) : /\ q[i].sequence \in Nat /\ q[i].epoch \in Nat
                                /\ q[i].expires_at \in Nat
  BY <1>1, FlowTyped, CountersAssumption
<1>3. /\ MaxPendingSegments \in Nat /\ MaxPendingBytes \in Nat
      /\ MaxPendingAge \in Nat \ {0}
  BY LimitsAssumption
<1>4. Len(q) # MaxPendingSegments /\ f.pending_bytes + len <= MaxPendingBytes
  BY <1>1, <1>2, <1>3 DEF OverBudget
<1>5. /\ Len(q) <= MaxPendingSegments
      /\ \A i \in 1 .. Len(q) :
           /\ q[i].sequence + Len(q) + 1 = f.next_send + i
           /\ q[i].epoch <= current
           /\ q[i].expires_at > tick
           /\ q[i].expires_at <= tick + MaxPendingAge
           /\ \A j \in i .. Len(q) : /\ q[i].epoch <= q[j].epoch
                                     /\ q[i].expires_at <= q[j].expires_at
      /\ f.receive_final_next # None => f.next_receive <= f.receive_final_next
  BY DEF QueueOK
<1> HIDE DEF f
<1>6. /\ r.pending = Append(q, segment) /\ r.pending_bytes = f.pending_bytes + len
      /\ r.next_send = f.next_send + 1 /\ r.next_receive = f.next_receive
      /\ r.receive_final_next = f.receive_final_next
  BY <1>2 DEF SentFlow, ReliableFlow
<1> DEFINE p == Append(q, segment)
<1>7. /\ Len(p) = Len(q) + 1 /\ p[Len(q) + 1] = segment
      /\ \A i \in 1 .. Len(q) : p[i] = q[i]
  <2> HIDE DEF q, segment
  <2> QED BY <1>2
<1>8. /\ segment.sequence = f.next_send /\ segment.epoch = current
      /\ segment.expires_at = tick + MaxPendingAge
  OBVIOUS
<1> HIDE DEF p, q, segment, r
<1>9. ASSUME NEW i \in 1 .. Len(p)
      PROVE  /\ p[i].sequence + Len(p) + 1 = r.next_send + i
             /\ p[i].epoch <= current
             /\ p[i].expires_at > tick
             /\ p[i].expires_at <= tick + MaxPendingAge
             /\ \A j \in i .. Len(p) : /\ p[i].epoch <= p[j].epoch
                                       /\ p[i].expires_at <= p[j].expires_at
  <2>1. CASE i = Len(q) + 1
    <3>1. p[i] = segment /\ Len(p) = i /\ i \in Nat
      BY <1>2, <1>7, <2>1
    <3>2. f.next_send + i + 1 = (f.next_send + 1) + i
      BY <1>2, <3>1
    <3>3. p[i].sequence + Len(p) + 1 = r.next_send + i
      BY <1>6, <1>8, <3>1, <3>2
    <3>4. \A j \in i .. Len(p) : j = i
      BY <3>1
    <3>5. tick + MaxPendingAge > tick /\ tick + MaxPendingAge \in Nat
      BY <1>2, <1>3
    <3> QED BY <1>2, <1>8, <3>1, <3>3, <3>4, <3>5
  <2>2. CASE i \in 1 .. Len(q)
    <3>1. p[i] = q[i]
      BY <1>7, <2>2
    <3>2. q[i].sequence + Len(q) + 1 = f.next_send + i /\ q[i].sequence \in Nat
      BY <1>2, <1>5, <2>2
    <3>3. p[i].sequence + Len(p) + 1 = r.next_send + i
      BY <1>2, <1>6, <1>7, <2>2, <3>1, <3>2, SMTT(30)
    <3>4. ASSUME NEW j \in i .. Len(p)
          PROVE  p[i].epoch <= p[j].epoch /\ p[i].expires_at <= p[j].expires_at
      <4>1. CASE j = Len(q) + 1
        BY <1>5, <1>7, <1>8, <2>2, <3>1, <4>1
      <4>2. CASE j # Len(q) + 1
        <5>1. j \in i .. Len(q) /\ j \in 1 .. Len(q)
          <6>1. j \in i .. (Len(q) + 1)
            BY <1>7
          <6>2. PICK m \in Nat : m = Len(q)
            BY <1>2
          <6>3. j \in i .. (m + 1) /\ i \in 1 .. m /\ j # m + 1
            BY <2>2, <4>2, <6>1, <6>2
          <6>4. j \in i .. m /\ j \in 1 .. m
            BY ONLY <6>3, m \in Nat
          <6> QED BY <6>2, <6>4
        <5> QED BY <1>5, <1>7, <2>2, <3>1, <5>1
      <4> QED BY <4>1, <4>2
    <3> QED BY <1>5, <2>2, <3>1, <3>3, <3>4
  <2> QED BY <1>2, <1>7, <2>1, <2>2
<1>10. Len(p) <= MaxPendingSegments
  BY <1>2, <1>3, <1>4, <1>5, <1>7
<1> QED BY <1>4, <1>5, <1>6, <1>9, <1>10 DEF QueueOK, p, r, f

(* acknowledge drops the front of the window. *)
LEMMA QueueAcknowledged ==
  ASSUME Bookkeeping, NEW id \in DOMAIN flows, QueueOK(flows[id], current, tick),
         NEW n \in 0 .. Len(flows[id].pending)
  PROVE  QueueOK(AcknowledgedFlow(flows[id], n), current, tick)
<1> DEFINE f == flows[id]
           r == AcknowledgedFlow(f, n)
           q == f.pending
           p == SubSeq(q, n + 1, Len(q))
           b == Bytes(SubSeq(q, 1, n))
<1>1. /\ f \in ReliableFlow /\ q \in Seq(PendingSegment) /\ Len(q) \in Nat /\ f.next_send \in Nat
      /\ f.pending_bytes \in Nat /\ n \in Nat /\ n <= Len(q)
      /\ \A i \in 1 .. Len(q) : /\ q[i].sequence \in Nat /\ q[i].epoch \in Nat
                                /\ q[i].expires_at \in Nat
  BY FlowTyped
<1>2. /\ Len(q) <= MaxPendingSegments /\ f.pending_bytes <= MaxPendingBytes
      /\ \A i \in 1 .. Len(q) :
           /\ q[i].sequence + Len(q) + 1 = f.next_send + i
           /\ q[i].epoch <= current
           /\ q[i].expires_at > tick
           /\ q[i].expires_at <= tick + MaxPendingAge
           /\ \A j \in i .. Len(q) : /\ q[i].epoch <= q[j].epoch
                                     /\ q[i].expires_at <= q[j].expires_at
      /\ f.receive_final_next # None => f.next_receive <= f.receive_final_next
  BY DEF QueueOK
<1>3. n \in 0 .. Len(q)
  OBVIOUS
<1> HIDE DEF f
<1>4. /\ r.pending = p /\ r.pending_bytes = f.pending_bytes - b
      /\ r.next_send = f.next_send /\ r.next_receive = f.next_receive
      /\ r.receive_final_next = f.receive_final_next
  BY <1>1 DEF AcknowledgedFlow, ReliableFlow
<1> HIDE DEF q
<1>5. /\ Len(p) = Len(q) - n /\ \A i \in 1 .. (Len(q) - n) : p[i] = q[n + i]
      /\ SubSeq(q, 1, n) \in Seq(PendingSegment)
  BY <1>1, <1>3, BytesSplit
<1>6. b \in Nat
  BY <1>5, BytesNat
<1> HIDE DEF p, b, r
<1>7. ASSUME NEW i \in 1 .. Len(p)
      PROVE  /\ p[i].sequence + Len(p) + 1 = r.next_send + i
             /\ p[i].epoch <= current
             /\ p[i].expires_at > tick
             /\ p[i].expires_at <= tick + MaxPendingAge
             /\ \A j \in i .. Len(p) : /\ p[i].epoch <= p[j].epoch
                                       /\ p[i].expires_at <= p[j].expires_at
  <2>1. n + i \in 1 .. Len(q) /\ p[i] = q[n + i]
    BY <1>1, <1>5
  <2>2. q[n + i].sequence + Len(q) + 1 = f.next_send + (n + i) /\ q[n + i].sequence \in Nat
    BY <1>1, <1>2, <2>1
  <2>3. p[i].sequence + Len(p) + 1 = r.next_send + i
    <3>1. PICK a \in Nat, l \in Nat, t \in Nat :
            a = q[n + i].sequence /\ l = Len(q) /\ t = f.next_send
      BY <1>1, <2>2
    <3>2. q[n + i].sequence + (Len(q) - n) + 1 = f.next_send + i
      <4>1. a + l + 1 = t + (n + i) /\ n \in Nat /\ i \in Nat
        BY <1>1, <2>2, <3>1
      <4>2. a + (l - n) + 1 = t + i
        BY ONLY <4>1, a \in Nat, l \in Nat, t \in Nat
      <4> QED BY <3>1, <4>2
    <3> QED BY <1>4, <1>5, <2>1, <3>2
  <2>4. ASSUME NEW j \in i .. Len(p)
        PROVE  p[i].epoch <= p[j].epoch /\ p[i].expires_at <= p[j].expires_at
    <3>1. n + j \in (n + i) .. Len(q) /\ p[j] = q[n + j]
      BY <1>1, <1>5
    <3> QED BY <1>2, <2>1, <3>1
  <2> QED BY <1>2, <2>1, <2>3, <2>4
<1>8. Len(p) <= MaxPendingSegments /\ f.pending_bytes - b <= MaxPendingBytes
  BY <1>1, <1>2, <1>5, <1>6, LimitsAssumption
<1> QED BY <1>2, <1>4, <1>7, <1>8 DEF QueueOK, r, f

(* One flow is replaced by one that may be held. *)
LEMMA QueueReplaced ==
  ASSUME QueueInv, Bookkeeping', NEW id \in DOMAIN flows, NEW r,
         flows' = [flows EXCEPT ![id] = r], QueueOK(r, current, tick),
         UNCHANGED <<current, tick>>,
         pending_segments' <= MaxSessionPendingSegments,
         pending_bytes' <= MaxSessionPendingBytes
  PROVE  QueueInv'
<1>1. DOMAIN flows' = DOMAIN flows
  OBVIOUS
<1>2. \A i \in DOMAIN flows : flows'[i] = IF i = id THEN r ELSE flows[i]
  BY DEF QueueInv, Bookkeeping, TableOK
<1>3. \A i \in DOMAIN flows' : QueueOK(flows'[i], current, tick)
  BY <1>1, <1>2 DEF QueueInv
<1> QED BY <1>1, <1>3 DEF QueueInv

(* Flows leave the table, and give back what they held. *)
LEMMA QueueReleased ==
  ASSUME QueueInv, Bookkeeping', NEW ids \in SUBSET DOMAIN flows,
         flows' = Restrict(flows, DOMAIN flows \ ids),
         pending_segments' <= pending_segments, pending_bytes' <= pending_bytes,
         \A i \in DOMAIN flows \ ids : QueueOK(flows[i], current', tick')
  PROVE  QueueInv'
<1>1. /\ DOMAIN flows' = DOMAIN flows \ ids
      /\ \A i \in DOMAIN flows \ ids : flows'[i] = flows[i]
  BY DEF Restrict
<1>2. /\ IsFiniteSet(DOMAIN flows') /\ Cardinality(DOMAIN flows') <= Cardinality(DOMAIN flows)
      /\ Cardinality(DOMAIN flows') \in Nat /\ Cardinality(DOMAIN flows) \in Nat
  <2>1. IsFiniteSet(DOMAIN flows)
    BY DEF QueueInv
  <2> QED BY <1>1, <2>1, FS_Subset, FS_CardinalityType
<1>3. /\ Cardinality(DOMAIN flows') <= MaxFlows
      /\ pending_segments' <= MaxSessionPendingSegments
      /\ pending_bytes' <= MaxSessionPendingBytes
  <2>1. /\ pending_segments \in Nat /\ pending_bytes \in Nat
        /\ pending_segments' \in Nat /\ pending_bytes' \in Nat
    <3>1. \A fl, n, segments, bytes :
            TableOK(fl, n, segments, bytes) => n \in Nat /\ segments \in Nat /\ bytes \in Nat
      BY TableNat
    <3> QED BY <3>1 DEF QueueInv, Bookkeeping
  <2>2. /\ Cardinality(DOMAIN flows) <= MaxFlows
        /\ pending_segments <= MaxSessionPendingSegments
        /\ pending_bytes <= MaxSessionPendingBytes
    BY DEF QueueInv
  <2> QED BY <1>2, <2>1, <2>2, LimitsAssumption
<1>4. \A i \in DOMAIN flows' : QueueOK(flows'[i], current', tick')
  BY <1>1
<1> QED BY <1>2, <1>3, <1>4 DEF QueueInv

(* What the removed flows held is not negative. *)
LEMMA ReleaseShrinks ==
  ASSUME Bookkeeping, NEW ids \in SUBSET DOMAIN flows, ReleaseFlows(ids)
  PROVE  pending_segments' <= pending_segments /\ pending_bytes' <= pending_bytes
<1>1. pending_segments \in Nat /\ pending_bytes \in Nat /\ next_flow \in Nat
  BY FlowTyped
<1>2. \A i \in ids : SegmentWeights(flows)[i] \in Nat /\ ByteWeights(flows)[i] \in Nat
  BY WeightsTyped DEF Bookkeeping, TableOK
<1>3. SegmentsOf(ids) \in Nat /\ BytesOf(ids) \in Nat
  BY <1>1, <1>2, SumsOfTable, SumOverNat
<1> QED BY <1>1, <1>3 DEF ReleaseFlows

(* A new session holds nothing. *)
LEMMA InitQueues == Init => QueueInv
<1> SUFFICES ASSUME Init PROVE QueueInv
  OBVIOUS
<1>1. Bookkeeping
  BY InitBookkeeping
<1>2. DOMAIN flows = {}
  BY DEF Init
<1>3. IsFiniteSet(DOMAIN flows) /\ Cardinality(DOMAIN flows) = 0
  BY <1>2, FS_EmptySet
<1> QED BY <1>1, <1>2, <1>3, LimitsAssumption DEF QueueInv, Init

(* Every call on a session, and every expiry, keeps the queues sound. *)
LEMMA QueueStep == QueueInv /\ [Next]_flowVars => QueueInv'
<1> SUFFICES ASSUME QueueInv, [Next]_flowVars PROVE QueueInv'
  OBVIOUS
<1> USE DEF epochVars, counterVars
<1>0. Bookkeeping /\ Bookkeeping'
  BY BookkeepingStep DEF QueueInv
<1>0a. /\ IsFiniteSet(DOMAIN flows) /\ Cardinality(DOMAIN flows) <= MaxFlows
       /\ Cardinality(DOMAIN flows) \in Nat
       /\ pending_segments <= MaxSessionPendingSegments
       /\ pending_bytes <= MaxSessionPendingBytes
       /\ \A id \in DOMAIN flows : QueueOK(flows[id], current, tick)
  BY FS_CardinalityType DEF QueueInv
<1>0b. /\ pending_segments \in Nat /\ pending_bytes \in Nat /\ tick \in Nat /\ current \in Nat
       /\ MaxSessionPendingSegments \in Nat /\ MaxSessionPendingBytes \in Nat
       /\ MaxFlows \in Nat
  BY <1>0, FlowTyped, LimitsAssumption
<1>1. ASSUME NEW id \in FlowIds, OpenReliableFlow(id) PROVE QueueInv'
  <2>1. /\ id >= next_flow /\ Cardinality(DOMAIN flows) < MaxFlows
        /\ flows' = [f \in DOMAIN flows \cup {id} |-> IF f = id THEN NewFlow ELSE flows[f]]
        /\ UNCHANGED <<current, tick, pending_segments, pending_bytes>>
    BY <1>1 DEF OpenReliableFlow
  <2>2. id \notin DOMAIN flows
    BY <1>0, <2>1, FlowTyped
  <2>3. IsFiniteSet(DOMAIN flows') /\ Cardinality(DOMAIN flows') = Cardinality(DOMAIN flows) + 1
    <3>1. DOMAIN flows' = DOMAIN flows \cup {id}
      BY <2>1
    <3> QED BY <1>0a, <2>2, <3>1, FS_AddElement
  <2>4. QueueOK(NewFlow, current, tick)
    <3>1. Len(<<>>) = 0
      OBVIOUS
    <3>2. /\ NewFlow.pending = <<>> /\ NewFlow.pending_bytes = 0
          /\ NewFlow.receive_final_next = None
      BY DEF NewFlow
    <3> QED BY <3>1, <3>2, LimitsAssumption DEF QueueOK
  <2>5. \A i \in DOMAIN flows' : QueueOK(flows'[i], current, tick)
    <3> HIDE DEF QueueOK
    <3> QED BY <1>0a, <2>1, <2>4
  <2>6. Cardinality(DOMAIN flows') <= MaxFlows
    BY <1>0a, <1>0b, <2>1, <2>3
  <2> QED BY <1>0, <1>0a, <2>1, <2>3, <2>5, <2>6 DEF QueueInv
<1>2. ASSUME NEW id \in FlowIds, CloseReliableFlow(id) PROVE QueueInv'
  <2>1. /\ {id} \in SUBSET DOMAIN flows /\ flows' = Restrict(flows, DOMAIN flows \ {id})
        /\ UNCHANGED <<current, tick, pending_segments, pending_bytes>>
    BY <1>2 DEF CloseReliableFlow
  <2>2. pending_segments' <= pending_segments /\ pending_bytes' <= pending_bytes
    BY <1>0b, <2>1
  <2>3. \A i \in DOMAIN flows \ {id} : QueueOK(flows[i], current', tick')
    BY <1>0a, <2>1
  <2> QED BY <1>0, <2>1, <2>2, <2>3, QueueReleased
<1>3. ASSUME NEW id \in FlowIds, NEW len \in Lengths, Send(id, len) PROVE QueueInv'
  <2>1. /\ id \in DOMAIN flows /\ flows' = [flows EXCEPT ![id] = SentFlow(flows[id], len)]
    BY <1>0, <1>3, SendFlow
  <2>2. QueueOK(SentFlow(flows[id], len), current, tick)
    BY <1>0, <1>0a, <1>3, <2>1, QueueSent
  <2>3. /\ UNCHANGED <<current, tick>>
        /\ pending_segments' = pending_segments + 1 /\ pending_bytes' = pending_bytes + len
        /\ ~OverBudget(id, len)
    BY <1>3 DEF Send
  <2>4. /\ pending_segments' <= MaxSessionPendingSegments
        /\ pending_bytes' <= MaxSessionPendingBytes
    BY <1>0b, <2>3, CountersAssumption DEF OverBudget
  <2> QED BY <1>0, <2>1, <2>2, <2>3, <2>4, QueueReplaced
<1>5. ASSUME NEW id \in FlowIds, NEW e \in Epochs, NEW s \in Sequences,
             Acknowledge(id, e, s)
      PROVE  QueueInv'
  <2> DEFINE n == Released(flows[id].pending, s)
             b == Bytes(SubSeq(flows[id].pending, 1, n))
  <2>1. /\ id \in DOMAIN flows /\ n \in 0 .. Len(flows[id].pending) /\ b \in Nat
        /\ flows' = [flows EXCEPT ![id] = AcknowledgedFlow(flows[id], n)]
        /\ pending_segments' = pending_segments - n
        /\ pending_bytes' = pending_bytes - b
    BY <1>0, <1>5, AcknowledgeFlow
  <2>2. UNCHANGED <<current, tick>>
    BY <1>5 DEF Acknowledge
  <2> HIDE DEF n, b
  <2>3. QueueOK(AcknowledgedFlow(flows[id], n), current, tick)
    BY <1>0, <1>0a, <2>1, QueueAcknowledged
  <2>4. n \in Nat
    BY <1>0, <2>1, FlowTyped
  <2>5. /\ pending_segments' <= MaxSessionPendingSegments
        /\ pending_bytes' <= MaxSessionPendingBytes
    BY <1>0a, <1>0b, <2>1, <2>4
  <2> QED BY <1>0, <2>1, <2>2, <2>3, <2>5, QueueReplaced
<1>6. ASSUME NEW id \in FlowIds, NEW e \in Epochs, NEW s \in Sequences,
             ReceiveDelivered(id, e, s)
      PROVE  QueueInv'
  <2> DEFINE f == flows[id]
             r == [f EXCEPT !.next_receive = @ + 1]
  <2>1. /\ id \in DOMAIN flows /\ flows' = [flows EXCEPT ![id] = r]
        /\ UNCHANGED <<current, tick, pending_segments, pending_bytes>>
        /\ f.receive_final_next # None => f.next_receive < f.receive_final_next
    BY <1>6 DEF ReceiveDelivered, Receivable
  <2>2. f \in ReliableFlow /\ f.next_receive \in Nat /\ f.receive_final_next \in Nat \cup {None}
        /\ QueueOK(f, current, tick)
    BY <1>0, <1>0a, <2>1, FlowTyped
  <2> HIDE DEF f
  <2>3. /\ r.pending = f.pending /\ r.pending_bytes = f.pending_bytes
        /\ r.next_send = f.next_send /\ r.next_receive = f.next_receive + 1
        /\ r.receive_final_next = f.receive_final_next
    BY <2>2 DEF ReliableFlow
  <2>4. f.receive_final_next # None => f.next_receive + 1 <= f.receive_final_next
    BY <2>1, <2>2
  <2> HIDE DEF r
  <2>5. QueueOK(r, current, tick)
    BY <2>2, <2>3, <2>4 DEF QueueOK
  <2> QED BY <1>0, <1>0a, <2>1, <2>5, QueueReplaced
<1>8. ASSUME NEW id \in FlowIds, NEW e \in Epochs, NEW s \in Sequences,
             FinishReceiving(id, e, s)
      PROVE  QueueInv'
  <2> DEFINE f == flows[id]
             r == [f EXCEPT !.receive_final_next = s]
  <2>1. /\ id \in DOMAIN flows /\ flows' = [flows EXCEPT ![id] = r]
        /\ UNCHANGED <<current, tick, pending_segments, pending_bytes>>
        /\ f.next_receive <= s
    BY <1>0, <1>8, FlowTyped, CountersAssumption DEF FinishReceiving, Sequences
  <2>2. f \in ReliableFlow /\ QueueOK(f, current, tick)
    BY <1>0, <1>0a, <2>1, FlowTyped
  <2> HIDE DEF f
  <2>3. /\ r.pending = f.pending /\ r.pending_bytes = f.pending_bytes
        /\ r.next_send = f.next_send /\ r.next_receive = f.next_receive
        /\ r.receive_final_next = s
    BY <2>2 DEF ReliableFlow
  <2> HIDE DEF r
  <2>5. QueueOK(r, current, tick)
    BY <2>1, <2>2, <2>3 DEF QueueOK
  <2> QED BY <1>0, <1>0a, <2>1, <2>5, QueueReplaced
<1>9. ASSUME NEW id \in FlowIds, ResetReliableFlow(id) PROVE QueueInv'
  <2>1. /\ {id} \in SUBSET DOMAIN flows /\ ReleaseFlows({id}) /\ UNCHANGED <<current, tick>>
        /\ flows' = Restrict(flows, DOMAIN flows \ {id})
    BY <1>9 DEF ResetReliableFlow, ReleaseFlows
  <2>2. pending_segments' <= pending_segments /\ pending_bytes' <= pending_bytes
    BY <1>0, <2>1, ReleaseShrinks
  <2> QED BY <1>0, <1>0a, <2>1, <2>2, QueueReleased
<1>10. ASSUME NEW ticks \in Ticks, AdvanceTime(ticks) PROVE QueueInv'
  <2> DEFINE gone == TimedOut(tick')
  <2>1. /\ gone \in SUBSET DOMAIN flows /\ ReleaseFlows(gone) /\ UNCHANGED current
        /\ flows' = Restrict(flows, DOMAIN flows \ gone)
        /\ tick' = tick + ticks
    BY <1>10 DEF AdvanceTime, ReleaseFlows, TimedOut
  <2>2. pending_segments' <= pending_segments /\ pending_bytes' <= pending_bytes
    BY <1>0, <2>1, ReleaseShrinks
  <2>3. ticks \in Nat /\ tick' \in Nat /\ tick' >= tick /\ MaxPendingAge \in Nat
    BY <1>0b, <2>1, CountersAssumption, LimitsAssumption DEF Ticks
  <2>4. ASSUME NEW id \in DOMAIN flows \ gone PROVE QueueOK(flows[id], current, tick')
    <3> DEFINE q == flows[id].pending
    <3>1. /\ q \in Seq(PendingSegment) /\ Len(q) \in Nat
          /\ \A i \in 1 .. Len(q) : q[i].expires_at \in Nat
          /\ QueueOK(flows[id], current, tick)
      BY <1>0, <1>0a, FlowTyped
    <3>2. q # <<>> => ~(Head(q).expires_at <= tick')
      BY <2>4 DEF TimedOut
    <3>3. ASSUME NEW i \in 1 .. Len(q)
          PROVE  q[i].expires_at > tick' /\ q[i].expires_at <= tick' + MaxPendingAge
      <4>1. q # <<>> /\ Head(q) = q[1] /\ 1 \in 1 .. Len(q) /\ i \in 1 .. Len(q)
        <5> HIDE DEF q
        <5> QED BY <3>1
      <4>2. q[1].expires_at <= q[i].expires_at /\ q[i].expires_at <= tick + MaxPendingAge
        BY <3>1, <4>1 DEF QueueOK
      <4>3. q[1].expires_at \in Nat /\ q[i].expires_at \in Nat /\ ~(q[1].expires_at <= tick')
        BY <3>1, <3>2, <4>1
      <4> HIDE DEF q
      <4> QED BY <1>0b, <2>3, <4>2, <4>3
    <3> QED BY <3>1, <3>3 DEF QueueOK
  <2> HIDE DEF gone
  <2>5. \A id \in DOMAIN flows \ gone : QueueOK(flows[id], current', tick')
    BY <2>1, <2>4
  <2> QED BY <1>0, <2>1, <2>2, <2>5, QueueReleased
<1>11. ASSUME NEW n \in {0, 1}, BeginTransition(n) PROVE QueueInv'
  <2>1. current' = current + 1 /\ UNCHANGED <<tick, pending_segments, pending_bytes, flows>>
    BY <1>11 DEF BeginTransition, AdvanceEpoch
  <2>2. ASSUME NEW id \in DOMAIN flows PROVE QueueOK(flows[id], current + 1, tick)
    <3>1. \A i \in 1 .. Len(flows[id].pending) :
            flows[id].pending[i].epoch <= current => flows[id].pending[i].epoch <= current + 1
      BY <1>0, <1>0b, FlowTyped
    <3> QED BY <1>0a, <3>1 DEF QueueOK
  <2> QED BY <1>0, <1>0a, <2>1, <2>2 DEF QueueInv
<1>12. CASE UNCHANGED <<current, tick, pending_segments, pending_bytes, flows>>
  BY <1>0, <1>0a, <1>12 DEF QueueInv
<1>13. ASSUME \/ CompleteTransition \/ RejectTransition \/ UNCHANGED flowVars
              \/ \E id \in FlowIds, len \in Lengths : SendRefused(id, len)
              \/ \E id \in FlowIds, e \in Epochs, s \in Sequences : ReceiveIgnored(id, e, s)
       PROVE  QueueInv'
  BY <1>12, <1>13 DEF CompleteTransition, RejectTransition, flowVars, SendRefused,
     ReceiveIgnored
<1> QED
  BY <1>1, <1>2, <1>3, <1>5, <1>6, <1>8, <1>9, <1>10, <1>11, <1>13 DEF Next, FlowNext

(* The inductive invariant implies what the runs check of the queues. *)
LEMMA QueueInvImplies == QueueInv => QueuesSound
<1> SUFFICES ASSUME QueueInv PROVE QueuesSound
  OBVIOUS
<1>1. /\ Bookkeeping /\ \A id \in DOMAIN flows : QueueOK(flows[id], current, tick)
  BY DEF QueueInv
<1>2. WithinBudget
  BY <1>1 DEF QueueInv, WithinBudget, QueueOK
<1>3. PendingWindow /\ NothingOverdue
  BY <1>1 DEF PendingWindow, NothingOverdue, QueueOK
<1>4. ResumedFlowCanDrain
  <2> SUFFICES ASSUME NEW id \in DOMAIN flows, flows[id].next_send > 0
               PROVE  ~InvalidAcknowledgement(id, current, flows[id].next_send - 1)
    BY DEF ResumedFlowCanDrain
  <2>1. /\ flows[id].next_send \in Nat /\ current \in Nat
        /\ \A i \in 1 .. Len(flows[id].pending) : flows[id].pending[i].epoch \in Nat
    BY <1>1, FlowTyped
  <2>2. ~(flows[id].next_send - 1 >= flows[id].next_send)
    BY <2>1
  <2>3. \A i \in 1 .. Len(flows[id].pending) : ~(flows[id].pending[i].epoch > current)
    BY <1>1, <2>1 DEF QueueOK
  <2> QED BY <2>2, <2>3 DEF InvalidAcknowledgement
<1> QED BY <1>2, <1>3, <1>4 DEF QueuesSound

(* For every value of the limits and after any sequence of calls, what a flow
   retains is within every budget, is the gap-free window that acknowledge expects,
   is not overdue although advance_time looks at the front of a queue only, and can
   be drained by an acknowledgement of the current epoch. *)
THEOREM QueuesAlwaysSound == Spec => []QueuesSound
BY InitQueues, QueueStep, QueueInvImplies, PTL DEF Spec

-----------------------------------------------------------------------------
(* How a flow may change while it lives. *)
Follows(old, new) ==
  /\ new.next_send >= old.next_send
  /\ new.next_receive >= old.next_receive
  /\ new.next_send - Len(new.pending) >= old.next_send - Len(old.pending)
  /\ old.receive_final_next # None
       => /\ new.receive_final_next = old.receive_final_next
          /\ new.next_receive <= old.receive_final_next

TableFollows ==
  /\ \A id \in 0 .. next_flow - 1 : id \notin DOMAIN flows => id \notin DOMAIN flows'
  /\ \A id \in DOMAIN flows \cap DOMAIN flows' : Follows(flows[id], flows'[id])

(* A flow that does not change follows itself. *)
LEMMA FollowsSame ==
  ASSUME QueueInv, NEW id \in DOMAIN flows
  PROVE  Follows(flows[id], flows[id])
<1>1. /\ flows[id].next_send \in Nat /\ flows[id].next_receive \in Nat
      /\ Len(flows[id].pending) \in Nat
  BY FlowTyped DEF QueueInv
<1>2. flows[id].receive_final_next # None
        => flows[id].next_receive <= flows[id].receive_final_next
  BY DEF QueueInv, QueueOK
<1> QED BY <1>1, <1>2 DEF Follows

(* Steps that only take flows out of the table, and steps that change one. *)
LEMMA RemovedFollows ==
  ASSUME QueueInv, NEW ids, flows' = Restrict(flows, DOMAIN flows \ ids)
  PROVE  TableFollows
<1>1. DOMAIN flows' = DOMAIN flows \ ids /\ \A i \in DOMAIN flows \ ids : flows'[i] = flows[i]
  BY DEF Restrict
<1> QED BY <1>1, FollowsSame DEF TableFollows

(* ... and steps that change one flow.                                     *)
LEMMA ReplacedFollows ==
  ASSUME QueueInv, NEW id \in DOMAIN flows, NEW r, flows' = [flows EXCEPT ![id] = r],
         Follows(flows[id], r)
  PROVE  TableFollows
<1>1. DOMAIN flows' = DOMAIN flows
  OBVIOUS
<1>2. \A i \in DOMAIN flows : flows'[i] = IF i = id THEN r ELSE flows[i]
  BY DEF QueueInv, Bookkeeping, TableOK
<1> QED BY <1>1, <1>2, FollowsSame DEF TableFollows

(* Every step of a session moves the cursors of its flows forward only. *)
LEMMA StepFollows ==
  ASSUME QueueInv, Next
  PROVE  TableFollows
<1> USE DEF epochVars, counterVars
<1>0. Bookkeeping /\ next_flow \in Nat /\ DOMAIN flows \subseteq 0 .. (next_flow - 1)
  BY FlowTyped DEF QueueInv
<1>1. ASSUME NEW id \in FlowIds, OpenReliableFlow(id) PROVE TableFollows
  <2>1. /\ id >= next_flow /\ id \in Nat
        /\ flows' = [f \in DOMAIN flows \cup {id} |-> IF f = id THEN NewFlow ELSE flows[f]]
    BY <1>1, CountersAssumption DEF OpenReliableFlow, FlowIds
  <2>2. id \notin 0 .. next_flow - 1 /\ id \notin DOMAIN flows
    BY <1>0, <2>1
  <2>3. DOMAIN flows' = DOMAIN flows \cup {id} /\ \A i \in DOMAIN flows : flows'[i] = flows[i]
    BY <2>1, <2>2
  <2> QED BY <2>2, <2>3, FollowsSame DEF TableFollows
<1>2. ASSUME NEW id \in FlowIds, CloseReliableFlow(id) \/ ResetReliableFlow(id)
      PROVE  TableFollows
  BY <1>2, RemovedFollows DEF CloseReliableFlow, ResetReliableFlow, ReleaseFlows
<1>3. ASSUME NEW ticks \in Ticks, AdvanceTime(ticks) PROVE TableFollows
  BY <1>3, RemovedFollows DEF AdvanceTime, ReleaseFlows
<1>4. ASSUME NEW id \in FlowIds, NEW len \in Lengths, Send(id, len) PROVE TableFollows
  <2> DEFINE f == flows[id]
             r == SentFlow(f, len)
  <2>1. /\ id \in DOMAIN flows /\ flows' = [flows EXCEPT ![id] = r]
        /\ Len(r.pending) = Len(f.pending) + 1
    BY <1>0, <1>4, SendFlow
  <2>2. /\ f \in ReliableFlow /\ f.next_send \in Nat /\ f.next_receive \in Nat
        /\ Len(f.pending) \in Nat
    BY <1>0, <2>1, FlowTyped
  <2>3. Follows(f, f)
    BY <2>1, FollowsSame
  <2> HIDE DEF f
  <2>4. /\ r.next_send = f.next_send + 1 /\ r.next_receive = f.next_receive
        /\ r.receive_final_next = f.receive_final_next
    BY <2>2 DEF SentFlow, ReliableFlow
  <2> HIDE DEF r
  <2>5. r.next_send - Len(r.pending) >= f.next_send - Len(f.pending)
    <3>1. (f.next_send + 1) - (Len(f.pending) + 1) = f.next_send - Len(f.pending)
      BY <2>2
    <3> QED BY <2>1, <2>2, <2>4, <3>1
  <2>6. Follows(f, r)
    BY <2>2, <2>3, <2>4, <2>5 DEF Follows
  <2> QED BY <2>1, <2>6, ReplacedFollows DEF f
<1>5. ASSUME NEW id \in FlowIds, NEW e \in Epochs, NEW s \in Sequences, Acknowledge(id, e, s)
      PROVE  TableFollows
  <2> DEFINE f == flows[id]
             n == Released(f.pending, s)
             r == AcknowledgedFlow(f, n)
  <2>1. /\ id \in DOMAIN flows /\ flows' = [flows EXCEPT ![id] = r]
        /\ n \in 0 .. Len(f.pending) /\ Len(r.pending) = Len(f.pending) - n
    BY <1>0, <1>5, AcknowledgeFlow
  <2>2. /\ f \in ReliableFlow /\ f.next_send \in Nat /\ f.next_receive \in Nat
        /\ Len(f.pending) \in Nat
    BY <1>0, <2>1, FlowTyped
  <2>3. Follows(f, f)
    BY <2>1, FollowsSame
  <2> HIDE DEF f, n
  <2>4. /\ r.next_send = f.next_send /\ r.next_receive = f.next_receive
        /\ r.receive_final_next = f.receive_final_next
    BY <2>2 DEF AcknowledgedFlow, ReliableFlow
  <2> HIDE DEF r
  <2>5. r.next_send - Len(r.pending) >= f.next_send - Len(f.pending)
    BY <2>1, <2>2, <2>4
  <2>6. Follows(f, r)
    BY <2>2, <2>3, <2>4, <2>5 DEF Follows
  <2> QED BY <2>1, <2>6, ReplacedFollows DEF f
<1>6. ASSUME NEW id \in FlowIds, NEW e \in Epochs, NEW s \in Sequences,
             ReceiveDelivered(id, e, s)
      PROVE  TableFollows
  <2> DEFINE f == flows[id]
             r == [f EXCEPT !.next_receive = @ + 1]
  <2>1. /\ id \in DOMAIN flows /\ flows' = [flows EXCEPT ![id] = r]
        /\ f.receive_final_next # None => f.next_receive < f.receive_final_next
    BY <1>6 DEF ReceiveDelivered, Receivable
  <2>2. /\ f \in ReliableFlow /\ f.next_send \in Nat /\ f.next_receive \in Nat
        /\ Len(f.pending) \in Nat /\ f.receive_final_next \in Nat \cup {None}
    BY <1>0, <2>1, FlowTyped
  <2> HIDE DEF f
  <2>3. /\ r.next_send = f.next_send /\ r.next_receive = f.next_receive + 1
        /\ r.receive_final_next = f.receive_final_next /\ r.pending = f.pending
    BY <2>2 DEF ReliableFlow
  <2> HIDE DEF r
  <2>4. Follows(f, r)
    BY <2>1, <2>2, <2>3 DEF Follows
  <2> QED BY <2>1, <2>4, ReplacedFollows DEF f
<1>7. ASSUME NEW id \in FlowIds, NEW e \in Epochs, NEW s \in Sequences,
             FinishReceiving(id, e, s)
      PROVE  TableFollows
  <2> DEFINE f == flows[id]
             r == [f EXCEPT !.receive_final_next = s]
  <2>1. /\ id \in DOMAIN flows /\ flows' = [flows EXCEPT ![id] = r]
        /\ f.receive_final_next = None
    BY <1>7 DEF FinishReceiving
  <2>2. /\ f \in ReliableFlow /\ f.next_send \in Nat /\ f.next_receive \in Nat
        /\ Len(f.pending) \in Nat
    BY <1>0, <2>1, FlowTyped
  <2> HIDE DEF f
  <2>3. r.next_send = f.next_send /\ r.next_receive = f.next_receive /\ r.pending = f.pending
    BY <2>2 DEF ReliableFlow
  <2> HIDE DEF r
  <2>4. Follows(f, r)
    BY <2>1, <2>2, <2>3 DEF Follows
  <2> QED BY <2>1, <2>4, ReplacedFollows DEF f
<1>8. ASSUME UNCHANGED flows PROVE TableFollows
  BY <1>8, FollowsSame DEF TableFollows
<1>9. ASSUME \/ CompleteTransition \/ RejectTransition \/ \E n \in {0, 1} : BeginTransition(n)
             \/ \E id \in FlowIds, len \in Lengths : SendRefused(id, len)
             \/ \E id \in FlowIds, e \in Epochs, s \in Sequences : ReceiveIgnored(id, e, s)
      PROVE  TableFollows
  BY <1>8, <1>9 DEF CompleteTransition, RejectTransition, BeginTransition, SendRefused,
     ReceiveIgnored
<1> QED
  BY <1>1, <1>2, <1>3, <1>4, <1>5, <1>6, <1>7, <1>9 DEF Next, FlowNext

(* For every value of the limits: the cursors of a flow only advance, what was
   acknowledged is never queued again, an announced final cursor is final, and the
   identifier of a flow that is gone never names a flow again. *)
THEOREM CursorsNeverRetreat == Spec => CursorsOnlyAdvance
<1>1. QueueInv /\ [Next]_flowVars => [TableFollows]_flowVars
  BY StepFollows
<1>2. Spec => [][TableFollows]_flowVars
  BY <1>1, InitQueues, QueueStep, PTL DEF Spec
<1> QED BY <1>2 DEF CursorsOnlyAdvance, TableFollows, Follows
=============================================================================
