----------------------------- MODULE FoldTheorems -----------------------------
(***************************************************************************)
(* What a recursion along a sequence computes, for any step Op and any     *)
(* start Base.  A proof module instantiates it with the step of a reader   *)
(* of a file, one line after the other.                                    *)
(*                                                                         *)
(* The induction is on the naturals, by a least counterexample.            *)
(***************************************************************************)
EXTENDS Sequences, Naturals, WellFoundedInduction, TLAPS

CONSTANTS
  Op(_, _),     \* one element after what was computed so far
  Base,         \* before the first element
  Holds(_, _)   \* what is to be shown of a result and its sequence

Fold(log) ==
  LET f[n \in 0..Len(log)] == IF n = 0 THEN Base ELSE Op(f[n - 1], log[n])
  IN  f[Len(log)]

\* A set of naturals has a least one.
LEMMA LeastNatural ==
  ASSUME NEW T \in SUBSET Nat, T # {}
  PROVE  \E n \in T : \A m \in T : n <= m
<1>1. PICK n \in T : \A m \in T : <<m, n>> \notin OpToRel(<, Nat)
  BY NatLessThanWellFounded, WFMin
<1>2. \A m \in T : ~ (m < n)
  BY <1>1 DEF OpToRel
<1> QED
  BY <1>2

\* f holds the results for the first lines of log, up to k of them.
Folds(log, f, k) == f = [n \in 0..k |-> IF n = 0 THEN Base ELSE Op(f[n - 1], log[n])]

\* The recursion is well-defined.
LEMMA FoldExists ==
  ASSUME NEW log, NEW k \in Nat
  PROVE  \E f : Folds(log, f, k)
<1> DEFINE T == {n \in Nat : ~ \E f : Folds(log, f, n)}
<1>1. SUFFICES ASSUME T # {} PROVE FALSE
  OBVIOUS
<1>2. PICK n \in T : \A m \in T : n <= m
  <2>1. T \in SUBSET Nat
    OBVIOUS
  <2> HIDE DEF T
  <2> QED
    BY <1>1, <2>1, LeastNatural
<1>3. n # 0
  <2>1. Folds(log, [i \in 0..0 |-> Base], 0)
    BY DEF Folds
  <2> QED
    BY <2>1
<1>4. PICK g : Folds(log, g, n - 1)
  <2>1. n - 1 \in Nat /\ n - 1 \notin T
    BY <1>2, <1>3
  <2> QED
    BY <2>1
<1> DEFINE h == [i \in 0..n |-> IF i = n THEN Op(g[n - 1], log[n]) ELSE g[i]]
<1>5. \A i \in 0..(n - 1) : g[i] = IF i = 0 THEN Base ELSE Op(g[i - 1], log[i])
  BY <1>4 DEF Folds
<1>6. ASSUME NEW i \in 0..n
      PROVE  h[i] = IF i = 0 THEN Base ELSE Op(h[i - 1], log[i])
  <2>1. CASE i = n
    BY <2>1, <1>3
  <2>2. CASE i # n
    BY <2>2, <1>5, <1>3
  <2> QED
    BY <2>1, <2>2
<1>7. Folds(log, h, n)
  <2>1. h = [i \in 0..n |-> h[i]]
    OBVIOUS
  <2> HIDE DEF h
  <2> QED
    BY <1>6, <2>1 DEF Folds
<1> QED
  BY <1>7

\* It reads no more than the lines it has come to.
LEMMA FoldUnique ==
  ASSUME NEW log, NEW k \in Nat, NEW f, Folds(log, f, k),
         NEW other, NEW m \in Nat, NEW g, Folds(other, g, m), k <= m,
         \A i \in 1..k : log[i] = other[i]
  PROVE  \A n \in 0..k : f[n] = g[n]
<1> DEFINE T == {n \in 0..k : f[n] # g[n]}
<1>1. SUFFICES ASSUME T # {} PROVE FALSE
  OBVIOUS
<1>2. PICK n \in T : \A i \in T : n <= i
  <2>1. T \in SUBSET Nat
    OBVIOUS
  <2> HIDE DEF T
  <2> QED
    BY <1>1, <2>1, LeastNatural
<1>3. n \in 0..k /\ n \in 0..m
  OBVIOUS
<1>4. f[n] = (IF n = 0 THEN Base ELSE Op(f[n - 1], log[n]))
      /\ g[n] = (IF n = 0 THEN Base ELSE Op(g[n - 1], other[n]))
  BY <1>3 DEF Folds
<1>5. n # 0
  BY <1>4
<1>6. f[n - 1] = g[n - 1]
  <2>1. n - 1 \in 0..k /\ n - 1 \notin T
    BY <1>2, <1>3, <1>5
  <2> QED
    BY <2>1
<1>7. log[n] = other[n]
  BY <1>3, <1>5
<1> QED
  BY <1>4, <1>5, <1>6, <1>7

\* The results for all beginnings of a sequence, of which the last is its own.
LEMMA FoldSteps ==
  ASSUME NEW S, NEW log \in Seq(S)
  PROVE  \E f : /\ Fold(log) = f[Len(log)] /\ f[0] = Base
                /\ \A n \in 1..Len(log) : f[n] = Op(f[n - 1], log[n])
                /\ Folds(log, f, Len(log))
<1> DEFINE f == CHOOSE f : Folds(log, f, Len(log))
<1>1. Folds(log, f, Len(log))
  BY FoldExists
<1>2. Fold(log) = f[Len(log)]
  BY DEF Fold, Folds
<1> HIDE DEF f
<1>3. \A n \in 0..Len(log) : f[n] = IF n = 0 THEN Base ELSE Op(f[n - 1], log[n])
  BY <1>1 DEF Folds
<1>4. f[0] = Base /\ \A n \in 1..Len(log) : f[n] = Op(f[n - 1], log[n])
  BY <1>3
<1> QED
  BY <1>1, <1>2, <1>4

\* Nothing read.
LEMMA FoldEmpty == Fold(<<>>) = Base
<1>1. <<>> \in Seq({}) /\ Len(<<>>) = 0
  OBVIOUS
<1> QED
  BY <1>1, FoldSteps

\* One line more.
LEMMA FoldAppend ==
  ASSUME NEW S, NEW log \in Seq(S), NEW x \in S
  PROVE  Fold(Append(log, x)) = Op(Fold(log), x)
<1> DEFINE new == Append(log, x)
<1>1. new \in Seq(S) /\ Len(new) = Len(log) + 1 /\ new[Len(log) + 1] = x
      /\ Len(log) \in Nat
      /\ \A i \in 1..Len(log) : new[i] = log[i]
  OBVIOUS
<1>2. PICK f : Fold(log) = f[Len(log)] /\ Folds(log, f, Len(log))
  BY FoldSteps
<1> HIDE DEF new
<1>3. PICK g : /\ Fold(new) = g[Len(new)] /\ Folds(new, g, Len(new))
               /\ \A n \in 1..Len(new) : g[n] = Op(g[n - 1], new[n])
  BY <1>1, FoldSteps
<1>4. f[Len(log)] = g[Len(log)]
  BY <1>1, <1>2, <1>3, FoldUnique
<1>5. g[Len(log) + 1] = Op(g[Len(log)], x)
  <2>1. Len(log) + 1 \in 1..Len(new) /\ (Len(log) + 1) - 1 = Len(log)
    BY <1>1
  <2> QED
    BY <1>1, <1>3, <2>1
<1> QED
  BY <1>1, <1>2, <1>3, <1>4, <1>5 DEF new

\* What holds before the first line and is kept by every line, holds in the end.
LEMMA FoldInduction ==
  ASSUME NEW S, Holds(Base, <<>>),
         \A log \in Seq(S), x \in S :
           Holds(Fold(log), log) => Holds(Op(Fold(log), x), Append(log, x))
  PROVE  \A log \in Seq(S) : Holds(Fold(log), log)
<1> DEFINE Fails(n) == \E log \in Seq(S) : Len(log) = n /\ ~Holds(Fold(log), log)
           T == {n \in Nat : Fails(n)}
<1>1. SUFFICES ASSUME NEW any \in Seq(S), ~Holds(Fold(any), any) PROVE FALSE
  OBVIOUS
<1>2. T # {} /\ T \in SUBSET Nat
  <2>1. Len(any) \in Nat /\ Fails(Len(any))
    BY <1>1
  <2> QED
    BY <2>1
<1>3. PICK n \in T : \A m \in T : n <= m
  <2> HIDE DEF T
  <2> QED
    BY <1>2, LeastNatural
<1>4. PICK log \in Seq(S) : Len(log) = n /\ ~Holds(Fold(log), log)
  OBVIOUS
<1>5. n # 0
  <2>1. ASSUME n = 0 PROVE FALSE
    <3>1. log = <<>>
      BY <1>4, <2>1
    <3> QED
      BY <1>1, <1>4, <3>1, FoldEmpty
  <2> QED
    BY <2>1
<1> DEFINE front == [i \in 1..(n - 1) |-> log[i]]
<1>6. n \in Nat
  BY <1>2
<1>7. front \in Seq(S) /\ Len(front) = n - 1 /\ log[n] \in S /\ log = Append(front, log[n])
  <2>1. n - 1 \in Nat /\ \A i \in 1..n : log[i] \in S
    BY <1>4, <1>5, <1>6
  <2>2. front \in Seq(S) /\ Len(front) = n - 1 /\ \A i \in 1..(n - 1) : front[i] = log[i]
    BY <2>1
  <2> HIDE DEF front
  <2>3. log = Append(front, log[n])
    BY <1>4, <1>5, <1>6, <2>1, <2>2
  <2> QED
    BY <1>5, <1>6, <2>1, <2>2, <2>3
<1> HIDE DEF front
<1>8. Holds(Fold(front), front)
  <2>1. n - 1 \in Nat /\ ~ (n <= n - 1)
    BY <1>5, <1>6
  <2>2. n - 1 \notin T
    <3> HIDE DEF T
    <3> QED
      BY <1>3, <2>1
  <2> QED
    BY <1>7, <2>1, <2>2
<1>9. Fold(log) = Op(Fold(front), log[n])
  BY <1>7, FoldAppend
<1> QED
  BY <1>4, <1>7, <1>8, <1>9
=============================================================================
