--------------------------- MODULE AppendLogProofs ---------------------------
(***************************************************************************)
(* What an append to a JSON Lines file does to its lines, for any records, *)
(* and for every part of the append that a kill or a full disk may leave.  *)
(***************************************************************************)
EXTENDS AppendLog, WellFoundedInduction, TLAPS

\* The line that is appended is a line of the log.
LEMMA PutTyped ==
  ASSUME NEW Rec, NEW log \in Log(Rec), NEW r \in Rec \cup {Garbled}, NEW e \in BOOLEAN
  PROVE  Put(log, r, e) \in Log(Rec)
<1>1. [record |-> r, ended |-> e] \in Line(Rec) /\ [record |-> Garbled, ended |-> e] \in Line(Rec)
  BY DEF Line
<1>2. CASE Ended(log)
  BY <1>1, <1>2 DEF Put, Log
<1>3. CASE ~Ended(log)
  <2>1. log # <<>> /\ Len(log) \in 1..Len(log)
    BY <1>3 DEF Ended, Log
  <2> QED
    BY <1>1, <1>3, <2>1 DEF Put, Log
<1> QED
  BY <1>2, <1>3

\* An append keeps every line that stays readable, adds at most one at the end,
\* and leaves a malformed line when it loses one.
LEMMA PutKeeps ==
  ASSUME NEW Rec, NEW log \in Log(Rec), NEW r, NEW e,
         NEW new, new = Put(log, r, e)
  PROVE  /\ \A i \in Whole(new) : \/ i \in Whole(log) /\ new[i] = log[i]
                                  \/ i = Len(log) + 1 /\ new[i].record = r
         /\ Malformed(new) \/ \A i \in Whole(log) : i \in Whole(new) /\ new[i] = log[i]
         /\ Malformed(new) \/ (Len(log) + 1 \in Whole(new) /\ new[Len(log) + 1].record = r)
         /\ Malformed(log) => Malformed(new)
<1>1. CASE Ended(log)
  <2> DEFINE line == [record |-> r, ended |-> e]
  <2>1. new = Append(log, line)
    BY <1>1 DEF Put
  <2> HIDE DEF line
  <2>2. Len(new) = Len(log) + 1 /\ new[Len(log) + 1] = line /\ \A i \in 1..Len(log) : new[i] = log[i]
    BY <2>1 DEF Log
  <2>3. line.record = r
    BY DEF line
  <2>4. Len(log) \in Nat
    BY DEF Log
  <2> QED
    BY <2>2, <2>3, <2>4 DEF Whole, Malformed
<1>2. CASE ~Ended(log)
  <2> DEFINE line == [record |-> Garbled, ended |-> e]
  <2>1. new = [log EXCEPT ![Len(log)] = line]
    BY <1>2 DEF Put
  <2> HIDE DEF line
  <2>2. log # <<>> /\ Len(log) \in 1..Len(log)
    BY <1>2 DEF Ended, Log
  <2>3. Len(new) = Len(log) /\ new[Len(log)] = line
        /\ \A i \in 1..Len(log) : i # Len(log) => new[i] = log[i]
    BY <2>1, <2>2 DEF Log
  <2>4. line.record = Garbled
    BY DEF line
  <2> QED
    BY <2>2, <2>3, <2>4 DEF Whole, Malformed
<1> QED
  BY <1>1, <1>2

\* The lines before one that is readable afterwards are what they were.
LEMMA PutKeepsEarlier ==
  ASSUME NEW Rec, NEW log \in Log(Rec), NEW r, NEW e
  PROVE  LET new == Put(log, r, e) IN
         \A k \in Whole(log), i \in Whole(new) : k < i => k \in Whole(new) /\ new[k] = log[k]
<1> DEFINE new == Put(log, r, e)
<1>1. CASE Ended(log)
  <2> DEFINE line == [record |-> r, ended |-> e]
  <2>1. new = Append(log, line)
    BY <1>1 DEF Put
  <2> HIDE DEF line, new
  <2>2. Len(log) \in Nat /\ Len(new) = Len(log) + 1 /\ \A i \in 1..Len(log) : new[i] = log[i]
    BY <2>1 DEF Log
  <2>3. \A k \in Whole(log) : k \in Whole(new) /\ new[k] = log[k]
    BY <2>2 DEF Whole
  <2> QED
    BY <2>3 DEF new
<1>2. CASE ~Ended(log)
  <2> DEFINE line == [record |-> Garbled, ended |-> e]
  <2>1. new = [log EXCEPT ![Len(log)] = line]
    BY <1>2 DEF Put
  <2> HIDE DEF line, new
  <2>2. log # <<>> /\ Len(log) \in 1..Len(log)
    BY <1>2 DEF Ended, Log
  <2>3. Len(new) = Len(log) /\ \A i \in 1..Len(log) : i # Len(log) => new[i] = log[i]
    BY <2>1, <2>2 DEF Log
  <2>4. ASSUME NEW k \in Whole(log), NEW i \in Whole(new), k < i
        PROVE  k \in Whole(new) /\ new[k] = log[k]
    <3>1. k \in 1..Len(log) /\ k # Len(log)
      BY <2>2, <2>3, <2>4 DEF Whole
    <3> QED
      BY <2>3, <3>1 DEF Whole
  <2> QED
    BY <2>4 DEF new
<1> QED
  BY <1>1, <1>2

\* A set of places in a log has a last one.
LEMMA LastOf ==
  ASSUME NEW n \in Nat, NEW S \in SUBSET (1..n), S # {}
  PROVE  \E i \in S : \A j \in S : j <= i
<1> DEFINE T == {n - i : i \in S}
<1>1. T \subseteq Nat /\ T # {}
  <2>1. ASSUME NEW y \in T PROVE y \in Nat
    <3>1. PICK i \in S : y = n - i
      OBVIOUS
    <3>2. i \in 1..n
      OBVIOUS
    <3> QED
      BY <3>1, <3>2
  <2> QED
    BY <2>1
<1>2. PICK x \in T : \A y \in T : <<y, x>> \notin OpToRel(<, Nat)
  <2> HIDE DEF T
  <2> QED
    BY <1>1, NatLessThanWellFounded, WFMin
<1>3. \A y \in T : ~ (y < x)
  BY <1>1, <1>2 DEF OpToRel
<1>4. PICK i \in S : x = n - i
  OBVIOUS
<1>5. \A j \in S : j <= i
  <2> TAKE j \in S
  <2>1. n - j \in T
    OBVIOUS
  <2>2. ~ (n - j < n - i)
    BY <1>3, <1>4, <2>1
  <2> QED
    BY <2>2
<1> QED
  BY <1>5
=============================================================================
