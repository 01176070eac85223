---------------------------- MODULE FoldLemmas -----------------------------
(***************************************************************************)
(* What FoldLeft makes of a sequence, one element after the other: for a    *)
(* fold over n elements there is a run of n + 1 values, from the one it     *)
(* begins with to the one it yields, each made of the one before and the    *)
(* next element.  An induction along that run then says what holds of the   *)
(* result, whatever the length.                                             *)
(*                                                                         *)
(* FoldLeft is a MapThenFoldSet over the numbers of the elements, which     *)
(* takes the greatest of them first and is a CHOOSE of a function on their  *)
(* subsets: hence the lemmas on greatest elements, and that such a function *)
(* exists.                                                                  *)
(***************************************************************************)
EXTENDS FiniteSetsExt, WellFoundedInduction, TLAPS

(* Induction up to n, for a set of numbers.                                        *)
LEMMA Upward == ASSUME NEW n \in Nat, NEW N, 0 \in N, \A k \in 0..(n - 1) : k \in N => k + 1 \in N PROVE \A k \in 0..n : k \in N
<1> SUFFICES ASSUME NEW x \in 0..n, x \notin N PROVE FALSE
  OBVIOUS
<1> DEFINE Out == {k \in 0..n : k \notin N}
<1>1. Out \subseteq Nat /\ Out # {}
  OBVIOUS
<1>2. PICK k \in Out : \A m \in Out : ~(<<m, k>> \in OpToRel(<, Nat))
  BY <1>1, NatLessThanWellFounded, WFMin
<1>3. k # 0 /\ k \in Nat /\ k - 1 \in 0..(n - 1) /\ (k - 1) + 1 = k
  OBVIOUS
<1>4. <<k - 1, k>> \in OpToRel(<, Nat)
  BY <1>3 DEF OpToRel
<1>5. k - 1 \in N
  <2>1. k - 1 \notin Out
    BY <1>2, <1>4
  <2>2. k - 1 \in 0..n
    BY <1>3
  <2> QED BY <2>1, <2>2
<1>6. (k - 1) + 1 \in N
  BY <1>3, <1>5
<1> QED BY <1>3, <1>6

(* A set of numbers up to n has a greatest.                                         *)
LEMMA TopOf == ASSUME NEW n \in Nat, NEW s \in SUBSET (1..n), s # {} PROVE Max(s) \in s /\ \A y \in s : Max(s) >= y
<1>1. \E x \in s : \A y \in s : x >= y
  <2> DEFINE N == {k \in 0..n : (\E y \in s : y <= k) => \E x \in s : \A y \in s : y <= k => x >= y}
  <2>1. 0 \in N
    OBVIOUS
  <2>2. ASSUME NEW k \in 0..(n - 1), k \in N PROVE k + 1 \in N
    <3>1. CASE k + 1 \in s
      BY <3>1
    <3>2. CASE k + 1 \notin s
      <4>1. \A y \in s : y <= k + 1 => y <= k
        BY <3>2
      <4> QED BY <2>2, <4>1
    <3> QED BY <3>1, <3>2
  <2>3. n \in N
    <3> HIDE DEF N
    <3>1. \A k \in 0..n : k \in N
      BY <2>1, <2>2, Upward
    <3> QED BY <3>1
  <2>4. \A y \in s : y <= n
    OBVIOUS
  <2> QED BY <2>3, <2>4
<1> QED BY <1>1 DEF Max

(* What a fold over n elements is the last value of, its operator as a function of   *)
(* what was made so far and the number of the next element: there is one.            *)
IsFold(it, n, begin, step) ==
  it = [s \in SUBSET (1..n) |-> IF s = {} THEN begin ELSE step[<<it[s \ {Max(s)}], Max(s)>>]]

LEMMA FoldExists ==
  ASSUME NEW n \in Nat, NEW Acc, NEW begin \in Acc, NEW step \in [Acc \X (1..n) -> Acc]
  PROVE  \E it \in [SUBSET (1..n) -> Acc] : IsFold(it, n, begin, step)
<1> DEFINE N == {k \in 0..n : \E it \in [SUBSET (1..k) -> Acc] : IsFold(it, k, begin, step)}
<1>1. 0 \in N
  <2> DEFINE it == [s \in SUBSET (1..0) |-> begin]
  <2>1. \A s \in SUBSET (1..0) : s = {}
    OBVIOUS
  <2>2. it \in [SUBSET (1..0) -> Acc] /\ IsFold(it, 0, begin, step)
    BY <2>1 DEF IsFold
  <2> QED BY <2>2
<1>2. ASSUME NEW k \in 0..(n - 1), k \in N PROVE k + 1 \in N
  <2>1. PICK old \in [SUBSET (1..k) -> Acc] : IsFold(old, k, begin, step)
    BY <1>2
  <2> DEFINE it == [s \in SUBSET (1..(k + 1)) |->
                     IF s \in SUBSET (1..k) THEN old[s] ELSE step[<<old[s \ {k + 1}], k + 1>>]]
  <2>2. ASSUME NEW s \in SUBSET (1..(k + 1)), s \notin SUBSET (1..k)
        PROVE  s # {} /\ Max(s) = k + 1 /\ s \ {k + 1} \in SUBSET (1..k)
    <3>1. k + 1 \in s /\ s # {} /\ k + 1 \in Nat
      BY <2>2
    <3>2. Max(s) \in s /\ Max(s) >= k + 1
      BY <3>1, TopOf
    <3>3. \A x \in 1..(k + 1) : x >= k + 1 => x = k + 1
      OBVIOUS
    <3>4. \A x \in 1..(k + 1) : x # k + 1 => x \in 1..k
      OBVIOUS
    <3> QED BY <3>1, <3>2, <3>3, <3>4
  <2>3. ASSUME NEW s \in SUBSET (1..k), s # {} PROVE Max(s) \in 1..k /\ s \ {Max(s)} \in SUBSET (1..k)
    <3>1. k \in Nat
      OBVIOUS
    <3>2. Max(s) \in s
      BY <2>3, <3>1, TopOf
    <3> QED BY <3>2
  <2>4. it \in [SUBSET (1..(k + 1)) -> Acc]
    <3> SUFFICES ASSUME NEW s \in SUBSET (1..(k + 1)) PROVE it[s] \in Acc
      OBVIOUS
    <3>1. CASE s \in SUBSET (1..k)
      BY <3>1
    <3>2. CASE s \notin SUBSET (1..k)
      <4>1. s \ {k + 1} \in SUBSET (1..k) /\ k + 1 \in 1..n
        BY <2>2, <3>2
      <4> QED BY <3>2, <4>1
    <3> QED BY <3>1, <3>2
  <2>5. ASSUME NEW s \in SUBSET (1..(k + 1))
        PROVE  it[s] = IF s = {} THEN begin ELSE step[<<it[s \ {Max(s)}], Max(s)>>]
    <3>1. CASE s \in SUBSET (1..k)
      <4>1. old[s] = IF s = {} THEN begin ELSE step[<<old[s \ {Max(s)}], Max(s)>>]
        BY <2>1, <3>1 DEF IsFold
      <4>2. s # {} => it[s \ {Max(s)}] = old[s \ {Max(s)}]
        BY <2>3, <3>1
      <4>3. it[s] = old[s]
        BY <3>1
      <4> QED BY <4>1, <4>2, <4>3
    <3>2. CASE s \notin SUBSET (1..k)
      <4>1. s # {} /\ Max(s) = k + 1 /\ s \ {k + 1} \in SUBSET (1..k)
        BY <2>2, <3>2
      <4>2. it[s \ {k + 1}] = old[s \ {k + 1}]
        BY <4>1
      <4>3. it[s] = step[<<old[s \ {k + 1}], k + 1>>]
        BY <3>2
      <4> QED BY <4>1, <4>2, <4>3
    <3> QED BY <3>1, <3>2
  <2>6. IsFold(it, k + 1, begin, step)
    BY <2>4, <2>5 DEF IsFold
  <2>7. k + 1 \in 0..n
    OBVIOUS
  <2> QED BY <2>4, <2>6, <2>7
<1>3. n \in N
  <2> HIDE DEF N
  <2>1. \A k \in 0..n : k \in N
    BY <1>1, <1>2, Upward
  <2> QED BY <2>1
<1> QED BY <1>3


(* The last of the first k is k.                                                        *)
LEMMA TopOfFirst ==
  ASSUME NEW n \in Nat, NEW k \in 1..n
  PROVE  1..k \in SUBSET (1..n) /\ 1..k # {} /\ Max(1..k) = k /\ (1..k) \ {k} = 1..(k - 1)
<1>1. 1..k \in SUBSET (1..n) /\ k \in 1..k /\ 1..k # {}
  OBVIOUS
<1>2. Max(1..k) \in 1..k /\ Max(1..k) >= k
  BY <1>1, TopOf
<1>3. Max(1..k) = k
  BY <1>2
<1>4. (1..k) \ {k} = 1..(k - 1)
  OBVIOUS
<1> QED BY <1>1, <1>3, <1>4


(* Element by element, a fold leads from its first value to its last.                        *)
Leads(f, n, Acc, begin, step) ==
  /\ f[{}] = begin
  /\ \A k \in 1..n : f[1..(k - 1)] \in Acc => f[1..k] = step[<<f[1..(k - 1)], k>>]

IsRun(r, n, begin, step) == r[0] = begin /\ \A k \in 1..n : r[k] = step[<<r[k - 1], k>>]

LEMMA FoldRuns ==
  ASSUME NEW n \in Nat, NEW Acc, NEW begin \in Acc, NEW step \in [Acc \X (1..n) -> Acc],
         NEW f, Leads(f, n, Acc, begin, step)
  PROVE  \E r \in [0..n -> Acc] : r[n] = f[1..n] /\ IsRun(r, n, begin, step)
<1> DEFINE r == [k \in 0..n |-> f[1..k]]
           N == {k \in 0..n : f[1..k] \in Acc}
<1>1. 0 \in N /\ r[0] = begin
  <2>1. 1..0 = {} /\ 0 \in 0..n
    OBVIOUS
  <2>2. f[1..0] = begin
    BY <2>1 DEF Leads
  <2> QED BY <2>1, <2>2
<1>2. ASSUME NEW k \in 0..(n - 1), k \in N PROVE k + 1 \in N
  <2>1. k + 1 \in 1..n /\ (k + 1) - 1 = k /\ k + 1 \in 0..n
    OBVIOUS
  <2>2. f[1..(k + 1)] = step[<<f[1..k], k + 1>>]
    BY <1>2, <2>1 DEF Leads
  <2>3. <<f[1..k], k + 1>> \in Acc \X (1..n)
    BY <1>2, <2>1
  <2> QED BY <2>1, <2>2, <2>3
<1>3. \A k \in 0..n : f[1..k] \in Acc
  <2> HIDE DEF N
  <2>1. \A k \in 0..n : k \in N
    BY <1>1, <1>2, Upward
  <2> QED BY <2>1 DEF N
<1>4. ASSUME NEW k \in 1..n PROVE r[k] = step[<<r[k - 1], k>>]
  <2>1. k \in 0..n /\ k - 1 \in 0..n
    OBVIOUS
  <2> QED BY <1>3, <2>1 DEF Leads
<1>5. r \in [0..n -> Acc] /\ r[n] = f[1..n]
  BY <1>3
<1>6. IsRun(r, n, begin, step)
  BY <1>1, <1>4 DEF IsRun
<1> QED BY <1>5, <1>6
=============================================================================
