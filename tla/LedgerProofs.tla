----------------------------- MODULE LedgerProofs -----------------------------
(***************************************************************************)
(* Proofs about SourceLedger for any number of sources and commands and    *)
(* any bounds.                                                             *)
(*                                                                         *)
(* LedgerInv is shown to hold initially and to be preserved by every step. *)
(* What the readers of the file return after an append is derived from the *)
(* recursion that reads it, line by line.                                  *)
(***************************************************************************)
EXTENDS LedgerInvariant, AppendLogProofs

AreRecords(read, log) == read \in Seq(Record)

\* read_records, as a recursion along the lines.
Reading == INSTANCE FoldTheorems WITH Op <- ReadLine, Base <- <<>>, Holds <- AreRecords

-----------------------------------------------------------------------------
(* What is read.                                                           *)

LEMMA RecordsAreRead == \A log : Records(log) = Reading!Fold(log)
  BY DEF Records, Reading!Fold

\* A line is read, or skipped.
LEMMA ReadLineTyped ==
  ASSUME NEW read \in Seq(Record), NEW line \in Line(Record)
  PROVE  ReadLine(read, line) \in Seq(Record)
<1>1. line.record \in Record \cup {Garbled}
  BY DEF Line
<1>2. CASE line.record = Garbled \/ line.record.event = "legacy"
  BY <1>2 DEF ReadLine
<1>3. CASE ~ (line.record = Garbled \/ line.record.event = "legacy")
  BY <1>1, <1>3 DEF ReadLine
<1> QED
  BY <1>2, <1>3

LEMMA RecordsTyped ==
  ASSUME NEW log \in Log(Record)
  PROVE  Records(log) \in Seq(Record)
<1>1. log \in Seq(Line(Record)) /\ AreRecords(<<>>, <<>>)
  BY DEF Log, AreRecords
<1>2. \A lines \in Seq(Line(Record)), line \in Line(Record) :
        AreRecords(Reading!Fold(lines), lines)
          => AreRecords(ReadLine(Reading!Fold(lines), line), Append(lines, line))
  BY ReadLineTyped DEF AreRecords
<1>3. AreRecords(Reading!Fold(log), log)
  BY <1>1, <1>2, Reading!FoldInduction
<1> QED
  BY <1>3, RecordsAreRead DEF AreRecords

\* A record that begins a line of its own is read after all others.
LEMMA PutReads ==
  ASSUME NEW log \in Log(Record), NEW r \in Record, r.event # "legacy", NEW e \in BOOLEAN,
         Ended(log)
  PROVE  Records(Put(log, r, e)) = Append(Records(log), r)
<1> DEFINE line == [record |-> r, ended |-> e]
<1>1. Put(log, r, e) = Append(log, line)
  BY DEF Put
<1>2. line \in Line(Record) /\ line.record = r
  BY DEF Line
<1> HIDE DEF line
<1>3. log \in Seq(Line(Record))
  BY DEF Log
<1>4. Reading!Fold(Append(log, line)) = ReadLine(Reading!Fold(log), line)
  BY <1>2, <1>3, Reading!FoldAppend
<1>5. r # Garbled
  BY GarbledNotARecord
<1>6. ReadLine(Records(log), line) = Append(Records(log), r)
  BY <1>2, <1>5 DEF ReadLine
<1> QED
  BY <1>1, <1>4, <1>6, RecordsAreRead

\* An append that leaves no malformed line has begun a line of its own.
LEMMA PutBegins ==
  ASSUME NEW log \in Log(Record), NEW r, NEW e, ~Malformed(Put(log, r, e))
  PROVE  Ended(log)
<1> DEFINE bad == [record |-> Garbled, ended |-> e]
           new == Put(log, r, e)
<1>1. SUFFICES ASSUME ~Ended(log) PROVE FALSE
  OBVIOUS
<1>2. new = [log EXCEPT ![Len(log)] = bad]
  BY <1>1 DEF Put
<1>3. log # <<>> /\ Len(log) \in 1..Len(log)
  BY <1>1 DEF Ended, Log
<1>4. bad.record = Garbled
  OBVIOUS
<1> HIDE DEF bad, new
<1>5. Len(new) = Len(log) /\ new[Len(log)] = bad
  BY <1>2, <1>3 DEF Log
<1>6. Malformed(new)
  BY <1>3, <1>4, <1>5 DEF Malformed
<1> QED
  BY <1>6 DEF new

\* No append of today adds a legacy line.
LEMMA PutAddsNoLegacy ==
  ASSUME NEW log \in Log(Record), NEW r \in Record \cup {Garbled}, NEW e \in BOOLEAN,
         r # Garbled => r.event # "legacy", NEW s, HasLegacyLine(Put(log, r, e), s)
  PROVE  HasLegacyLine(log, s)
<1> DEFINE new == Put(log, r, e)
<1>1. PICK i \in Whole(new) : new[i].record.source = s /\ new[i].record.event = "legacy"
  BY DEF HasLegacyLine
<1>2. new[i].record # Garbled
  BY DEF Whole
<1> HIDE DEF new
<1>3. i \in Whole(log) /\ new[i] = log[i]
  <2>1. \/ i \in Whole(log) /\ new[i] = log[i]
        \/ i = Len(log) + 1 /\ new[i].record = r
    BY PutKeeps DEF new
  <2> QED
    BY <1>1, <1>2, <2>1
<1> QED
  BY <1>1, <1>3 DEF HasLegacyLine

LEMMA PutGarbled ==
  ASSUME NEW log \in Log(Record), NEW e \in BOOLEAN
  PROVE  Malformed(Put(log, Garbled, e))
<1> DEFINE new == Put(log, Garbled, e)
<1>1. Malformed(new) \/ (Len(log) + 1 \in Whole(new) /\ new[Len(log) + 1].record = Garbled)
  BY PutKeeps
<1> QED
  BY <1>1 DEF Whole

\* An append makes the file one line longer at most.
LEMMA PutLength ==
  ASSUME NEW log \in Log(Record), NEW r, NEW e
  PROVE  Len(Put(log, r, e)) \in Nat /\ Len(Put(log, r, e)) <= Len(log) + 1
<1>1. CASE Ended(log)
  BY <1>1 DEF Put, Log
<1>2. CASE ~Ended(log)
  <2>1. Put(log, r, e) = [log EXCEPT ![Len(log)] = [record |-> Garbled, ended |-> e]]
    BY <1>2 DEF Put
  <2>2. \A x : Len([log EXCEPT ![Len(log)] = x]) = Len(log)
    BY <1>2 DEF Log, Ended
  <2> QED
    BY <2>1, <2>2 DEF Log
<1> QED
  BY <1>1, <1>2

\* A whole append ends its line.
LEMMA WrittenEnds ==
  ASSUME NEW log \in Log(Record), NEW r
  PROVE  Ended(Written(log, r))
<1> DEFINE line == [record |-> r, ended |-> TRUE]
           bad == [record |-> Garbled, ended |-> TRUE]
<1>1. line.ended /\ bad.ended
  OBVIOUS
<1>2. CASE Ended(log)
  <2>1. Written(log, r) = Append(log, line)
    BY <1>2 DEF Written, Put
  <2> HIDE DEF line
  <2> QED
    BY <1>1, <2>1 DEF Ended, Log
<1>3. CASE ~Ended(log)
  <2>1. Written(log, r) = [log EXCEPT ![Len(log)] = bad]
    BY <1>3 DEF Written, Put
  <2>2. log # <<>> /\ Len(log) \in 1..Len(log)
    BY <1>3 DEF Ended, Log
  <2> HIDE DEF bad
  <2> QED
    BY <1>1, <2>1, <2>2 DEF Ended, Log
<1> QED
  BY <1>2, <1>3

-----------------------------------------------------------------------------
(* Records and their numbers.                                              *)

SequencesBounded(records, n) ==
  \E bound \in Nat : \A i \in 1..n : records[i].seq <= bound

\* One record more does not change that.
LEMMA NextBound ==
  ASSUME NEW records \in Seq(Record), NEW n \in 1..Len(records),
         SequencesBounded(records, n - 1)
  PROVE  SequencesBounded(records, n)
<1>1. PICK bound \in Nat : \A i \in 1..(n - 1) : records[i].seq <= bound
  BY DEF SequencesBounded
<1>2. \A i \in 1..Len(records) : records[i].seq \in Nat
  <2>1. \A i \in 1..Len(records) : records[i] \in Record
    OBVIOUS
  <2> QED
    BY <2>1 DEF Record
<1>3. n \in Nat /\ n <= Len(records) /\ Len(records) \in Nat
  OBVIOUS
<1>4. records[n].seq \in Nat /\ bound + records[n].seq \in Nat
  BY <1>2
<1>5. ASSUME NEW i \in 1..n PROVE records[i].seq <= bound + records[n].seq
  <2>1. i \in 1..Len(records)
    BY <1>3
  <2>2. CASE i = n
    BY <1>4, <2>2
  <2>3. CASE i # n
    <3>1. i \in 1..(n - 1)
      BY <1>3, <2>3
    <3>2. records[i].seq <= bound /\ records[i].seq \in Nat
      BY <1>1, <1>2, <2>1, <3>1
    <3> QED
      BY <1>4, <3>2
  <2> QED
    BY <2>2, <2>3
<1> QED
  BY <1>4, <1>5 DEF SequencesBounded

\* The numbers of the records of a file are bounded.
LEMMA AllBounded ==
  ASSUME NEW records \in Seq(Record)
  PROVE  SequencesBounded(records, Len(records))
<1> DEFINE T == {n \in 0..Len(records) : ~SequencesBounded(records, n)}
<1>1. T = {}
  <2>1. SUFFICES ASSUME T # {} PROVE FALSE
    OBVIOUS
  <2>2. PICK n \in T : \A m \in T : n <= m
    <3>1. T \in SUBSET Nat
      OBVIOUS
    <3> HIDE DEF T
    <3> QED
      BY <2>1, <3>1, Reading!LeastNatural
  <2>3. n # 0
    <3>1. SequencesBounded(records, 0)
      <4>1. 0 \in Nat /\ \A i \in 1..0 : records[i].seq <= 0
        OBVIOUS
      <4> QED
        BY <4>1 DEF SequencesBounded
    <3> QED
      BY <3>1
  <2>4. n \in 1..Len(records) /\ n - 1 \in 0..Len(records) /\ ~ (n <= n - 1)
    BY <2>3
  <2>5. n - 1 \notin T
    <3> HIDE DEF T
    <3> QED
      BY <2>2, <2>4
  <2> QED
    BY <2>4, <2>5, NextBound
<1> QED
  BY <1>1

\* mint_ledger_identity finds a number, and one that no record of this source has.
LEMMA NextSequenceIsNew ==
  ASSUME NEW log \in Log(Record), NEW s
  PROVE  /\ NextSequence(log, s) \in Nat
         /\ \A i \in PlacesOf(Records(log), s) : Records(log)[i].seq # NextSequence(log, s)
<1> DEFINE records == Records(log)
           taken == {0} \cup {records[i].seq : i \in PlacesOf(records, s)}
<1>1. records \in Seq(Record)
  BY RecordsTyped
<1>2. NextSequence(log, s) = 1 + Max(taken)
  BY DEF NextSequence
<1> HIDE DEF records
<1>3. taken \in SUBSET Nat
  <2>1. ASSUME NEW i \in PlacesOf(records, s) PROVE records[i].seq \in Nat
    <3>1. records[i] \in Record
      BY <1>1 DEF PlacesOf
    <3> QED
      BY <3>1 DEF Record
  <2> QED
    BY <2>1
<1>4. PICK bound \in Nat : \A x \in taken : x <= bound
  <2>1. PICK bound \in Nat : \A i \in 1..Len(records) : records[i].seq <= bound
    BY <1>1, AllBounded DEF SequencesBounded
  <2>2. \A i \in PlacesOf(records, s) : records[i].seq <= bound
    BY <1>1, <2>1 DEF PlacesOf
  <2>3. ASSUME NEW x \in taken PROVE x <= bound
    <3>1. CASE x = 0
      BY <3>1
    <3>2. CASE x # 0
      <4>1. PICK i \in PlacesOf(records, s) : x = records[i].seq
        BY <3>2
      <4> QED
        BY <2>2, <4>1
    <3> QED
      BY <3>1, <3>2
  <2> HIDE DEF taken
  <2> QED
    BY <2>3
<1>5. 0 \in taken
  OBVIOUS
<1> HIDE DEF taken
<1>6. PICK x \in taken : \A y \in taken : y <= x
  <2> DEFINE U == {n \in Nat : \A x \in taken : x <= n}
  <2>1. U \in SUBSET Nat /\ bound \in U
    BY <1>4
  <2>2. PICK n \in U : \A m \in U : n <= m
    <3> HIDE DEF U
    <3> QED
      BY <2>1, Reading!LeastNatural
  <2>3. n \in Nat /\ \A x \in taken : x <= n
    OBVIOUS
  <2>4. CASE n \in taken
    BY <2>3, <2>4
  <2>5. CASE n \notin taken
    <3>1. n # 0 /\ n - 1 \in Nat
      BY <1>5, <2>3, <2>5
    <3>2. \A x \in taken : x <= n - 1
      BY <1>3, <2>3, <2>5
    <3>3. n - 1 \in U
      BY <3>1, <3>2
    <3> QED
      BY <2>2, <2>3, <3>3
  <2> QED
    BY <2>4, <2>5
<1>7. \A y \in taken : x >= y
  BY <1>3, <1>6
<1>8. Max(taken) \in Nat /\ \A y \in taken : Max(taken) >= y
  BY <1>3, <1>7 DEF Max
<1>9. \A i \in PlacesOf(records, s) : records[i].seq \in taken
  BY DEF taken
<1>10. \A i \in PlacesOf(records, s) : records[i].seq # 1 + Max(taken)
  BY <1>3, <1>8, <1>9
<1> QED
  BY <1>2, <1>8, <1>10 DEF records

LEMMA MintedTyped ==
  ASSUME ledger \in Log(Record), NEW s \in Source,
         NEW event \in PrimaryEvents \cup {"ingest_failed"}
  PROVE  /\ Minted(s, event) \in Record /\ Minted(s, event).event # "legacy"
         /\ Minted(s, event).source = s /\ Minted(s, event).event = event
<1>1. NextSequence(ledger, s) \in Nat
  BY NextSequenceIsNew
<1> QED
  BY <1>1 DEF Minted, Record, PrimaryEvents

\* A source without outputs has none in any of its records, when no later
\* record takes them from it.
LEMMA NotFiled ==
  ASSUME ledger \in Log(Record), ~Issues(ledger), KeptOrReported, OutputsStay,
         NEW s \in Source, ~IsFiled(ledger, s)
  PROVE  Primary(appended, s) = {}
<1>1. Records(ledger) = appended /\ appended \in Seq(Record)
  BY RecordsTyped DEF KeptOrReported
<1> DEFINE places == PlacesOf(appended, s)
<1>2. SUFFICES ASSUME NEW i \in Primary(appended, s) PROVE FALSE
  OBVIOUS
<1>3. places \in SUBSET (1..Len(appended)) /\ i \in places /\ Len(appended) \in Nat
  BY <1>1 DEF PlacesOf, Primary
<1>4. PICK m \in places : \A j \in places : j <= m
  <2> HIDE DEF places
  <2> QED
    BY <1>3, LastOf
<1>5. appended[m].event \in PrimaryEvents
  <2>1. i <= m /\ i \in DOMAIN appended /\ m \in DOMAIN appended
        /\ appended[i].source = appended[m].source /\ appended[i].event \in PrimaryEvents
    BY <1>3, <1>4 DEF PlacesOf, Primary
  <2>2. i = m \/ i < m
    BY <1>1, <2>1
  <2> QED
    BY <2>1, <2>2 DEF OutputsStay
<1>6. LatestIs(ledger, s, PrimaryEvents)
  BY <1>1, <1>4, <1>5 DEF LatestIs
<1> QED
  BY <1>6 DEF IsFiled

\* A source with outputs has a record.
LEMMA FiledHasRecord ==
  ASSUME ~Issues(ledger), KeptOrReported, NEW s, IsFiled(ledger, s)
  PROVE  PlacesOf(appended, s) # {}
  BY DEF KeptOrReported, IsFiled, LatestIs

-----------------------------------------------------------------------------
(* The file and its history.                                               *)

LEMMA QuietFile ==
  ASSUME LedgerSound, UNCHANGED <<ledger, appended>>
  PROVE  LedgerSound'
  BY DEF LedgerSound, KeptOrReported, FiledOnce, OutputsStay, LegacyAlone

\* Of two records of a source the later one is the new one or none is.
LEMMA OneMoreRecord ==
  ASSUME appended \in Seq(Record), NEW r \in Record, appended' = Append(appended, r)
  PROVE  /\ appended' \in Seq(Record)
         /\ DOMAIN appended = 1..Len(appended) /\ Len(appended) \in Nat
         /\ DOMAIN appended' = 1..(Len(appended) + 1)
         /\ appended'[Len(appended) + 1] = r
         /\ \A i \in DOMAIN appended : i \in DOMAIN appended' /\ appended'[i] = appended[i]
         /\ \A i \in DOMAIN appended' : i \in DOMAIN appended \/ i = Len(appended) + 1
  OBVIOUS

\* An append, whole or cut short, of a record that fits.
LEMMA AppendKeeps ==
  ASSUME LedgerSound, Len(ledger) < MaxLines,
         NEW r \in Record, r.event \in PrimaryEvents \cup {"ingest_failed"},
         Issues(ledger) \/
           /\ ~HasLegacyLine(ledger, r.source)
           /\ r.event \in {"primary_artifacts_ready", "ingest_failed"}
                => Primary(appended, r.source) = {},
         NEW x \in {r, Garbled}, NEW e \in BOOLEAN, Shows(Put(ledger, x, e), r)
  PROVE  /\ LedgerSound'
         /\ Issues(ledger') \/
              /\ ~Issues(ledger) /\ Ended(ledger)
              /\ Records(ledger') = Append(Records(ledger), r)
              /\ appended' = Append(appended, r)
              /\ \A s : HasLegacyLine(ledger', s) => HasLegacyLine(ledger, s)
<1> DEFINE new == Put(ledger, x, e)
<1>1. ledger' = new /\ ledger \in Log(Record) /\ appended \in Seq(Record)
  BY DEF Shows, LedgerSound
<1>2. new \in Log(Record) /\ Len(new) \in Nat /\ Len(new) <= Len(ledger) + 1
  BY <1>1, PutTyped, PutLength
<1>3. r.event # "legacy"
  BY DEF PrimaryEvents
<1>4. Len(new) <= MaxLines
  BY <1>1, <1>2, LedgerAssumption DEF Log
<1>5. appended' \in Seq(Record)
  BY <1>1 DEF Shows
<1>6. CASE Malformed(new)
  <2>1. Issues(ledger')
    BY <1>1, <1>6 DEF Issues
  <2> QED
    BY <1>1, <1>2, <1>4, <1>5, <2>1
       DEF LedgerSound, KeptOrReported, FiledOnce, OutputsStay, LegacyAlone
<1>7. CASE ~Malformed(new)
  <2>1. x = r
    BY <1>1, <1>7, PutGarbled
  <2>2. ~Malformed(ledger)
    BY <1>1, <1>7, PutKeeps
  <2>3. Ended(ledger) /\ Records(new) = Append(Records(ledger), r)
    <3>1. Ended(ledger)
      BY <1>1, <1>7, PutBegins
    <3> QED
      BY <1>1, <1>3, <2>1, <3>1, PutReads
  <2>4. ~Issues(ledger) /\ ~Issues(ledger')
    BY <1>1, <1>7, <2>2 DEF Issues
  <2>5. Records(ledger) = appended
    BY <2>4 DEF LedgerSound, KeptOrReported
  <2>6. appended' = Append(appended, r)
    BY <1>1, <2>3, <2>5 DEF Shows
  <2>7. \A s : HasLegacyLine(ledger', s) => HasLegacyLine(ledger, s)
    BY <1>1, <1>3, PutAddsNoLegacy
  <2> HIDE DEF new
  <2> DEFINE n == Len(appended) + 1
  <2>8. /\ DOMAIN appended = 1..Len(appended) /\ Len(appended) \in Nat
        /\ appended'[n] = r
        /\ \A i \in DOMAIN appended : appended'[i] = appended[i]
        /\ \A i \in DOMAIN appended' : i \in DOMAIN appended \/ i = n
    BY <1>1, <2>6, OneMoreRecord
  <2>9. n \in Nat /\ \A i \in DOMAIN appended : i \in Nat /\ ~ (n < i)
    BY <2>8
  <2> HIDE DEF n
  <2>10. KeptOrReported'
    BY <1>1, <2>3, <2>5, <2>6 DEF KeptOrReported
  <2>11. FiledOnce'
    <3>1. SUFFICES ASSUME NEW s \in Source,
                          NEW i \in DOMAIN appended', appended'[i].source = s,
                          appended'[i].event = "primary_artifacts_ready"
                   PROVE  /\ ~HasLegacyLine(ledger', s)
                          /\ \A j \in DOMAIN appended' :
                               (appended'[j].source = s
                                 /\ appended'[j].event = "primary_artifacts_ready") => i = j
      BY DEF FiledOnce
    <3>2. ~HasLegacyLine(ledger', s)
      <4>1. CASE i = n
        BY <2>4, <2>7, <2>8, <3>1, <4>1
      <4>2. CASE i \in DOMAIN appended
        <5>1. appended[i].source = s /\ appended[i].event = "primary_artifacts_ready"
          BY <2>8, <3>1, <4>2
        <5> QED
          BY <2>4, <2>7, <4>2, <5>1 DEF LedgerSound, FiledOnce
      <4> QED
        BY <2>8, <4>1, <4>2
    <3>3. ASSUME NEW j \in DOMAIN appended', appended'[j].source = s,
                 appended'[j].event = "primary_artifacts_ready"
          PROVE  i = j
      <4>1. CASE i = n /\ j = n
        BY <4>1
      <4>2. CASE i \in DOMAIN appended /\ j \in DOMAIN appended
        BY <2>4, <2>8, <3>1, <3>3, <4>2 DEF LedgerSound, FiledOnce
      <4>3. ASSUME NEW k \in DOMAIN appended, appended[k].source = s,
                   appended[k].event = "primary_artifacts_ready",
                   r.source = s, r.event = "primary_artifacts_ready"
            PROVE  FALSE
        <5>1. k \in Primary(appended, s)
          BY <4>3 DEF Primary, PrimaryEvents
        <5> QED
          BY <2>4, <4>3, <5>1
      <4> QED
        BY <2>8, <3>1, <3>3, <4>1, <4>2, <4>3
    <3> QED
      BY <3>2, <3>3
  <2>12. OutputsStay'
    <3>1. SUFFICES ASSUME NEW i \in DOMAIN appended', NEW j \in DOMAIN appended', i < j,
                          appended'[i].source = appended'[j].source,
                          appended'[i].event \in PrimaryEvents
                   PROVE  appended'[j].event \in PrimaryEvents
      BY DEF OutputsStay
    <3>2. CASE j \in DOMAIN appended /\ i \in DOMAIN appended
      BY <2>4, <2>8, <3>1, <3>2 DEF LedgerSound, OutputsStay
    <3>3. CASE j \in DOMAIN appended /\ i = n
      BY <2>9, <3>1, <3>3, <2>8
    <3>4. CASE j = n /\ i = n
      BY <2>8, <3>1, <3>4
    <3>5. CASE j = n /\ i \in DOMAIN appended
      <4>1. i \in Primary(appended, r.source)
        BY <2>8, <3>1, <3>5 DEF Primary
      <4>2. r.event # "ingest_failed"
        BY <2>4, <4>1
      <4> QED
        BY <2>8, <3>5, <4>2
    <3> QED
      BY <2>8, <3>2, <3>3, <3>4, <3>5
  <2>13. LegacyAlone'
    <3>1. SUFFICES ASSUME NEW s \in Source, HasLegacyLine(ledger', s),
                          NEW i \in DOMAIN appended', appended'[i].source = s
                   PROVE  FALSE
      BY DEF LegacyAlone, PlacesOf
    <3>2. HasLegacyLine(ledger, s)
      BY <2>7, <3>1
    <3>3. PlacesOf(appended, s) = {}
      BY <2>4, <3>2 DEF LedgerSound, LegacyAlone
    <3>4. CASE i = n
      BY <2>4, <2>8, <3>1, <3>2, <3>4
    <3>5. CASE i \in DOMAIN appended
      BY <2>8, <3>1, <3>3, <3>5 DEF PlacesOf
    <3> QED
      BY <2>8, <3>4, <3>5
  <2> QED
    BY <1>1, <1>2, <1>4, <1>5, <2>3, <2>4, <2>6, <2>7, <2>10, <2>11, <2>12, <2>13 DEF LedgerSound
<1> QED
  BY <1>6, <1>7

-----------------------------------------------------------------------------
(* Steps of a command.                                                     *)

CommandSteps == {"idle", "admitted", "append", "verify", "dead"}

Job == [todo : SUBSET Source, link : Nat, event : PrimaryEvents \cup {"ingest_failed", "none"}]

\* The steps at which a command has the lock.
Holding == {"append", "verify", "dead"}

\* A step of c, which changes the file only when it has the lock.
LEMMA CommandStep ==
  ASSUME LedgerInv, NEW c \in Command, NEW to \in CommandSteps, NEW j \in Job,
         pc' = [pc EXCEPT ![c] = to], job' = [job EXCEPT ![c] = j],
         \/ UNCHANGED <<ledger, appended>>
         \/ pc[c] \in Holding,
         \/ lock' = lock /\ (to \in Holding <=> pc[c] \in Holding)
         \/ lock = None /\ lock' = c /\ to \in Holding
         \/ lock' = None /\ pc[c] \in Holding /\ to \notin Holding,
         faults' \in 0..MaxFaults, LedgerSound', CommandFits(c)'
  PROVE  LedgerInv'
<1>1. /\ lock \in Command \cup {None} /\ None \notin Command
      /\ pc \in [Command -> CommandSteps] /\ job \in [Command -> Job]
      /\ \A d \in Command : lock = d <=> pc[d] \in Holding
  BY LedgerAssumption DEF LedgerInv, TypeOK, CommandSteps, Job, Holding
<1>2. pc' \in [Command -> CommandSteps] /\ job' \in [Command -> Job]
  BY <1>1
<1>3. pc'[c] = to /\ \A d \in Command : d # c => pc'[d] = pc[d] /\ job'[d] = job[d]
  BY <1>1
<1>4. lock' \in Command \cup {None} /\ \A d \in Command : lock' = d <=> pc'[d] \in Holding
  BY <1>1, <1>3
<1>5. TypeOK'
  BY <1>2, <1>4 DEF TypeOK, LedgerSound, CommandSteps, Job, Holding
<1>6. ASSUME NEW d \in Command, d # c PROVE CommandFits(d)'
  <2>1. CommandFits(d)
    BY DEF LedgerInv
  <2>2. CASE UNCHANGED <<ledger, appended>>
    BY <1>3, <1>6, <2>1, <2>2 DEF CommandFits, AppendFits, VerifyFits, CompletionFits, OneSource
  <2>3. CASE pc[c] \in Holding
    <3>1. pc'[d] \notin Holding
      BY <1>1, <1>3, <1>6, <2>3
    <3> QED
      BY <3>1 DEF CommandFits, AppendFits, VerifyFits, CompletionFits, Holding
  <2> QED
    BY <2>2, <2>3
<1> QED
  BY <1>5, <1>6 DEF LedgerInv

\* A command at no step of the lock relies on nothing.
LEMMA OutsideFits ==
  ASSUME NEW c, pc'[c] \notin {"append", "verify"}
  PROVE  CommandFits(c)'
  BY DEF CommandFits, AppendFits, VerifyFits, CompletionFits

LEMMA Types ==
  ASSUME LedgerInv
  PROVE  /\ pc \in [Command -> CommandSteps] /\ job \in [Command -> Job]
         /\ faults \in 0..MaxFaults /\ LedgerSound
         /\ ledger \in Log(Record) /\ appended \in Seq(Record)
         /\ \A c \in Command : CommandFits(c)
  BY DEF LedgerInv, TypeOK, CommandSteps, Job, LedgerSound

\* A step that leaves the file alone and takes no lock.
LEMMA QuietStep ==
  ASSUME LedgerInv, NEW c \in Command, NEW to \in {"idle", "admitted"},
         pc[c] \in {"idle", "admitted"}, pc' = [pc EXCEPT ![c] = to],
         UNCHANGED <<ledger, appended, lock, job, faults>>
  PROVE  LedgerInv'
<1>1. job' = [job EXCEPT ![c] = job[c]] /\ job[c] \in Job /\ to \in CommandSteps
  BY Types DEF CommandSteps
<1>2. LedgerSound' /\ faults' \in 0..MaxFaults
  BY Types, QuietFile
<1>3. CommandFits(c)'
  <2>1. pc'[c] = to
    BY Types
  <2> QED
    BY <2>1, OutsideFits
<1> QED
  BY <1>1, <1>2, <1>3, CommandStep DEF Holding

LEMMA StartKeeps ==
  ASSUME LedgerInv, NEW c \in Command, Start(c)
  PROVE  LedgerInv'
  BY QuietStep DEF Start, Step

LEMMA GiveUpKeeps ==
  ASSUME LedgerInv, NEW c \in Command, GiveUp(c)
  PROVE  LedgerInv'
  BY QuietStep DEF GiveUp, Step

\* The lock is taken with a job that fits the file.
LEMMA BeginKeeps ==
  ASSUME LedgerInv, NEW c \in Command, NEW todo \in SUBSET Source,
         NEW event \in {"primary_artifacts_ready", "ingest_failed", "reconcile_repaired"},
         Begin(c, todo, event),
         Issues(ledger) \/
           \A s \in todo :
             /\ ~HasLegacyLine(ledger, s)
             /\ event # "reconcile_repaired" => Primary(appended, s) = {},
         event # "reconcile_repaired" => \A s, t \in todo : s = t
  PROVE  LedgerInv'
<1> DEFINE j == [todo |-> todo, event |-> event, link |-> 0]
<1>1. /\ lock = None /\ lock' = c /\ UNCHANGED <<ledger, appended, faults>>
      /\ pc' = [pc EXCEPT ![c] = "append"] /\ job' = [job EXCEPT ![c] = j]
  BY DEF Begin, Step
<1>2. j \in Job
  BY DEF Job, PrimaryEvents
<1>3. LedgerSound' /\ faults' \in 0..MaxFaults
  BY <1>1, Types, QuietFile
<1>4. pc'[c] = "append" /\ job'[c] = j /\ j.todo = todo /\ j.event = event
  BY <1>1, Types
<1> HIDE DEF j
<1>5. CommandFits(c)'
  BY <1>1, <1>4 DEF CommandFits, AppendFits, VerifyFits, CompletionFits, PrimaryEvents, OneSource
<1> QED
  BY <1>1, <1>2, <1>3, <1>5, CommandStep DEF CommandSteps, Holding

LEMMA IngestKeeps ==
  ASSUME LedgerInv, NEW c \in Command, NEW s \in Source, Ingest(c, s)
  PROVE  LedgerInv'
<1>1. PICK event \in {"primary_artifacts_ready", "ingest_failed"} : Begin(c, {s}, event)
  BY DEF Ingest
<1>2. CASE Issues(ledger)
  BY <1>1, <1>2, BeginKeeps
<1>3. CASE ~Issues(ledger)
  <2>1. Primary(appended, s) = {}
    BY <1>3, Types, NotFiled DEF Ingest, LedgerSound
  <2>2. ~HasLegacyLine(ledger, s)
    <3>1. Records(ledger) = appended
      BY <1>3, Types DEF LedgerSound, KeptOrReported
    <3> QED
      BY <1>3, <3>1, Types DEF Ingest, LegacyUnresolved, LedgerSound, LegacyAlone
  <2> QED
    BY <1>1, <2>1, <2>2, BeginKeeps
<1> QED
  BY <1>2, <1>3

LEMMA ReconcileKeeps ==
  ASSUME LedgerInv, NEW c \in Command, NEW found \in SUBSET Source, Reconcile(c, found)
  PROVE  LedgerInv'
<1>1. Begin(c, found, "reconcile_repaired")
  BY DEF Reconcile
<1>2. ASSUME ~Issues(ledger), NEW s \in found PROVE ~HasLegacyLine(ledger, s)
  <2>1. PlacesOf(appended, s) # {}
    BY <1>2, Types, FiledHasRecord DEF Reconcile, LedgerSound
  <2> QED
    BY <1>2, <2>1, Types DEF LedgerSound, LegacyAlone
<1> QED
  BY <1>1, <1>2, BeginKeeps

\* A record of another kind leaves the link of an earlier one alone.
LEMMA LinkKept ==
  ASSUME NEW old \in Log(Record), NEW new, NEW r \in Record,
         Records(new) = Append(Records(old), r), r.event # "primary_artifacts_ready",
         NEW s, NEW seq, LinkHolds(old, s, seq)
  PROVE  LinkHolds(new, s, seq)
<1> DEFINE before == Records(old)
           after == Records(new)
           Linked(records) ==
             {j \in PlacesOf(records, s) :
                records[j].seq = seq /\ records[j].event = "primary_artifacts_ready"}
<1>1. before \in Seq(Record)
  BY RecordsTyped
<1>2. PICK i \in PlacesOf(before, s) : Linked(before) = {i}
  BY DEF LinkHolds
<1>3. /\ DOMAIN before = 1..Len(before) /\ Len(before) \in Nat
      /\ DOMAIN after = 1..(Len(before) + 1)
      /\ after[Len(before) + 1] = r
      /\ \A k \in DOMAIN before : k \in DOMAIN after /\ after[k] = before[k]
      /\ \A k \in DOMAIN after : k \in DOMAIN before \/ k = Len(before) + 1
  <2> HIDE DEF before
  <2>1. after = Append(before, r)
    BY DEF before
  <2> HIDE DEF after
  <2> QED
    BY <1>1, <2>1
<1> HIDE DEF before, after
<1>4. i \in PlacesOf(after, s)
  BY <1>3 DEF PlacesOf
<1>5. Linked(after) = Linked(before)
  BY <1>3 DEF PlacesOf
<1> QED
  BY <1>2, <1>4, <1>5 DEF LinkHolds, before, after

\* The record that was read last is the latest of its source.
LEMMA LatestRead ==
  ASSUME NEW old \in Log(Record), NEW new, NEW r \in Record,
         Records(new) = Append(Records(old), r), NEW events, r.event \in events
  PROVE  LatestIs(new, r.source, events)
<1> DEFINE before == Records(old)
           after == Records(new)
           n == Len(before) + 1
<1>1. before \in Seq(Record)
  BY RecordsTyped
<1>2. after = Append(before, r)
  OBVIOUS
<1> HIDE DEF before, after
<1>3. n \in DOMAIN after /\ after[n] = r /\ \A j \in DOMAIN after : j <= n
  BY <1>1, <1>2
<1> HIDE DEF n
<1>4. n \in PlacesOf(after, r.source) /\ \A j \in PlacesOf(after, r.source) : j <= n
  BY <1>3 DEF PlacesOf
<1> QED
  BY <1>3, <1>4 DEF LatestIs, after

\* What a command that appends knows of the record that it appends.
LEMMA MintedFits ==
  ASSUME LedgerInv, NEW c \in Command, pc[c] = "append", NEW s \in job[c].todo
  PROVE  LET r == Minted(s, job[c].event) IN
         /\ r \in Record /\ r.event # "legacy" /\ r.source = s /\ r.event = job[c].event
         /\ r.event \in PrimaryEvents \cup {"ingest_failed"}
         /\ Issues(ledger) \/
              /\ ~HasLegacyLine(ledger, r.source)
              /\ r.event \in {"primary_artifacts_ready", "ingest_failed"}
                   => Primary(appended, r.source) = {}
<1>1. s \in Source
  BY Types DEF Job
<1>2. AppendFits(c) /\ ledger \in Log(Record)
  BY Types DEF CommandFits
<1>3. job[c].event \in PrimaryEvents \cup {"ingest_failed"}
  BY <1>2 DEF AppendFits
<1> DEFINE r == Minted(s, job[c].event)
<1>4. r \in Record /\ r.event # "legacy" /\ r.source = s /\ r.event = job[c].event
  BY <1>1, <1>2, <1>3, MintedTyped
<1> HIDE DEF r
<1>5. Issues(ledger) \/
        /\ ~HasLegacyLine(ledger, r.source)
        /\ r.event \in {"primary_artifacts_ready", "ingest_failed"}
             => Primary(appended, r.source) = {}
  BY <1>2, <1>4 DEF AppendFits
<1> QED
  BY <1>3, <1>4, <1>5 DEF r

\* The command leaves: its lock is free.
LEMMA LeaveKeeps ==
  ASSUME LedgerInv, NEW c \in Command, pc[c] \in Holding, Leave(c),
         faults' \in 0..MaxFaults, LedgerSound'
  PROVE  LedgerInv'
<1>1. Idle \in Job
  BY DEF Idle, Job
<1>2. pc'[c] = "idle"
  BY Types DEF Leave
<1>3. CommandFits(c)'
  BY <1>2, OutsideFits
<1> QED
  BY <1>1, <1>3, CommandStep DEF Leave, CommandSteps, Holding

\* What the ledger is after an append that was not cut short.
LEMMA AppendSnapshotShows ==
  ASSUME LedgerInv, NEW c \in Command, NEW s \in Source, AppendSnapshot(c, s)
  PROVE  LET r == Minted(s, job[c].event) IN
         /\ LedgerSound' /\ Ended(ledger')
         /\ Ended(ledger) => Records(ledger') = Append(Records(ledger), r)
         /\ Issues(ledger') \/
              /\ ~Issues(ledger) /\ appended' = Append(appended, r)
              /\ \A t : HasLegacyLine(ledger', t) => HasLegacyLine(ledger, t)
<1> DEFINE r == Minted(s, job[c].event)
<1>1. /\ pc[c] = "append" /\ s \in job[c].todo /\ Len(ledger) < MaxLines
      /\ Shows(Put(ledger, r, TRUE), r) /\ ledger' = Written(ledger, r)
  BY DEF AppendSnapshot, Shows, Written
<1>2. /\ r \in Record /\ r.event # "legacy"
      /\ r.event \in PrimaryEvents \cup {"ingest_failed"}
      /\ Issues(ledger) \/
           /\ ~HasLegacyLine(ledger, r.source)
           /\ r.event \in {"primary_artifacts_ready", "ingest_failed"}
                => Primary(appended, r.source) = {}
  BY <1>1, MintedFits
<1> HIDE DEF r
<1>3. /\ LedgerSound'
      /\ Issues(ledger') \/
           /\ ~Issues(ledger) /\ appended' = Append(appended, r)
           /\ \A t : HasLegacyLine(ledger', t) => HasLegacyLine(ledger, t)
  BY <1>1, <1>2, Types, AppendKeeps
<1>4. Ended(ledger')
  BY <1>1, Types, WrittenEnds
<1>5. Ended(ledger) => Records(ledger') = Append(Records(ledger), r)
  BY <1>1, <1>2, Types, PutReads DEF Written
<1> QED
  BY <1>3, <1>4, <1>5 DEF r

LEMMA AppendSnapshotKeeps ==
  ASSUME LedgerInv, NEW c \in Command, NEW s \in Source, AppendSnapshot(c, s)
  PROVE  LedgerInv'
<1> DEFINE r == Minted(s, job[c].event)
           rest == job[c].todo \ {s}
<1>1. /\ LedgerSound' /\ Ended(ledger')
      /\ Ended(ledger) => Records(ledger') = Append(Records(ledger), r)
      /\ Issues(ledger') \/
           /\ ~Issues(ledger) /\ appended' = Append(appended, r)
           /\ \A t : HasLegacyLine(ledger', t) => HasLegacyLine(ledger, t)
  BY AppendSnapshotShows
<1>2. pc[c] = "append" /\ s \in job[c].todo
  BY DEF AppendSnapshot
<1>3. r \in Record /\ r.source = s /\ r.event = job[c].event
  BY <1>2, MintedFits
<1>4. faults' = faults /\ faults' \in 0..MaxFaults
  BY Types DEF AppendSnapshot
<1>5. /\ job[c] \in Job /\ pc[c] \in Holding
      /\ AppendFits(c) /\ CompletionFits(c) /\ ledger \in Log(Record) /\ appended \in Seq(Record)
  BY <1>2, Types DEF CommandFits, Holding
<1>6. \/ /\ job[c].event = "primary_artifacts_ready"
         /\ pc' = [pc EXCEPT ![c] = "verify"]
         /\ job' = [job EXCEPT ![c].link = r.seq] /\ UNCHANGED lock
      \/ /\ job[c].event # "primary_artifacts_ready"
         /\ job' = [job EXCEPT ![c].todo = rest] /\ UNCHANGED <<pc, lock>>
      \/ Leave(c)
  BY DEF AppendSnapshot
<1> HIDE DEF r, rest
<1>7. CASE /\ job[c].event = "primary_artifacts_ready"
           /\ pc' = [pc EXCEPT ![c] = "verify"]
           /\ job' = [job EXCEPT ![c].link = r.seq] /\ UNCHANGED lock
  <2> DEFINE j == [job[c] EXCEPT !.link = r.seq]
  <2>1. j \in Job /\ j.todo = job[c].todo /\ job' = [job EXCEPT ![c] = j]
    BY <1>3, <1>5, <1>7 DEF Job, Record
  <2> HIDE DEF j
  <2>2. pc'[c] = "verify" /\ job'[c] = j
    BY <1>7, <2>1, Types
  <2>3. CommandFits(c)'
    BY <1>1, <1>2, <1>5, <1>7, <2>1, <2>2
       DEF CommandFits, AppendFits, VerifyFits, CompletionFits, OneSource
  <2> QED
    BY <1>1, <1>4, <1>5, <1>7, <2>1, <2>3, CommandStep DEF CommandSteps, Holding
<1>8. CASE /\ job[c].event # "primary_artifacts_ready"
           /\ job' = [job EXCEPT ![c].todo = rest] /\ UNCHANGED <<pc, lock>>
  <2> DEFINE j == [job[c] EXCEPT !.todo = rest]
  <2>1. /\ j \in Job /\ j.todo = rest /\ j.event = job[c].event /\ j.link = job[c].link
        /\ job' = [job EXCEPT ![c] = j]
    BY <1>5, <1>8 DEF Job, rest
  <2> HIDE DEF j
  <2>2. pc'[c] = "append" /\ job'[c] = j /\ pc' = [pc EXCEPT ![c] = "append"]
    BY <1>2, <1>8, <2>1, Types
  <2>3. AppendFits(c)'
    <3>1. job[c].event \in PrimaryEvents \cup {"ingest_failed"}
          /\ (job[c].event # "reconcile_repaired" => OneSource(c))
      BY <1>2, <1>5 DEF AppendFits
    <3>2. job[c].event # "reconcile_repaired" => rest = {}
      BY <1>2, <3>1 DEF OneSource, rest
    <3>3. ASSUME ~Issues(ledger'), NEW t \in rest PROVE ~HasLegacyLine(ledger', t)
      BY <1>1, <1>2, <1>5, <3>3 DEF AppendFits, rest
    <3> QED
      BY <2>1, <2>2, <3>1, <3>2, <3>3 DEF AppendFits, OneSource
  <2>4. CompletionFits(c)'
    <3>1. SUFFICES ASSUME job[c].event = "ingest_completed", NEW t \in rest
                   PROVE  LinkHolds(ledger', t, job[c].link)
      BY <1>1, <2>1, <2>2 DEF CompletionFits
    <3>2. Ended(ledger) /\ LinkHolds(ledger, t, job[c].link)
      BY <1>2, <1>5, <3>1 DEF CompletionFits, rest
    <3> QED
      BY <1>1, <1>3, <1>5, <1>8, <3>2, LinkKept
  <2>5. CommandFits(c)'
    BY <2>2, <2>3, <2>4 DEF CommandFits, VerifyFits
  <2> QED
    BY <1>1, <1>2, <1>4, <1>5, <1>8, <2>1, <2>2, <2>5, CommandStep DEF CommandSteps, Holding
<1>9. CASE Leave(c)
  BY <1>1, <1>4, <1>5, <1>9, LeaveKeeps
<1> QED
  BY <1>6, <1>7, <1>8, <1>9

LEMMA VerifyKeeps ==
  ASSUME LedgerInv, NEW c \in Command, NEW s \in Source, Verify(c, s)
  PROVE  LedgerInv'
<1>1. /\ pc[c] = "verify" /\ s \in job[c].todo /\ UNCHANGED <<ledger, appended, faults>>
      /\ \/ /\ LinkHolds(ledger, s, job[c].link)
            /\ pc' = [pc EXCEPT ![c] = "append"]
            /\ job' = [job EXCEPT ![c].event = "ingest_completed"]
            /\ UNCHANGED lock
         \/ Leave(c)
  BY DEF Verify
<1>2. LedgerSound' /\ faults' \in 0..MaxFaults /\ job[c] \in Job /\ pc[c] \in Holding
  BY <1>1, Types, QuietFile DEF Holding
<1>3. CASE /\ LinkHolds(ledger, s, job[c].link)
           /\ pc' = [pc EXCEPT ![c] = "append"]
           /\ job' = [job EXCEPT ![c].event = "ingest_completed"]
           /\ UNCHANGED lock
  <2> DEFINE j == [job[c] EXCEPT !.event = "ingest_completed"]
  <2>1. /\ j \in Job /\ j.todo = job[c].todo /\ j.link = job[c].link
        /\ j.event = "ingest_completed" /\ job' = [job EXCEPT ![c] = j]
    BY <1>2, <1>3 DEF Job, PrimaryEvents
  <2> HIDE DEF j
  <2>2. pc'[c] = "append" /\ job'[c] = j
    BY <1>3, <2>1, Types
  <2>3. VerifyFits(c)
    BY Types DEF CommandFits
  <2>4. CommandFits(c)'
    BY <1>1, <1>3, <2>1, <2>2, <2>3
       DEF CommandFits, AppendFits, VerifyFits, CompletionFits, OneSource, PrimaryEvents
  <2> QED
    BY <1>1, <1>2, <1>3, <2>1, <2>4, CommandStep DEF CommandSteps, Holding
<1>4. CASE Leave(c)
  BY <1>2, <1>4, LeaveKeeps
<1> QED
  BY <1>1, <1>3, <1>4

\* An append that was cut short.
LEMMA BrokenKeeps ==
  ASSUME LedgerInv, NEW c \in Command, Broken(c)
  PROVE  LedgerSound' /\ faults' \in 0..MaxFaults /\ pc[c] \in Holding
<1>1. faults' \in 0..MaxFaults /\ pc[c] \in Holding
  BY Types, LedgerAssumption DEF Broken, Holding
<1>2. CASE UNCHANGED <<ledger, appended>>
  BY <1>1, <1>2, Types, QuietFile
<1>3. CASE /\ pc[c] = "append" /\ Len(ledger) < MaxLines
           /\ \E s \in job[c].todo :
                \E log \in CutShort(ledger, Minted(s, job[c].event)) :
                  Shows(log, Minted(s, job[c].event))
  <2>1. PICK s \in job[c].todo :
          \E log \in CutShort(ledger, Minted(s, job[c].event)) :
            Shows(log, Minted(s, job[c].event))
    BY <1>3
  <2> DEFINE r == Minted(s, job[c].event)
  <2>2. /\ r \in Record
        /\ r.event \in PrimaryEvents \cup {"ingest_failed"}
        /\ Issues(ledger) \/
             /\ ~HasLegacyLine(ledger, r.source)
             /\ r.event \in {"primary_artifacts_ready", "ingest_failed"}
                  => Primary(appended, r.source) = {}
    BY <1>3, MintedFits
  <2> HIDE DEF r
  <2>3. \/ Shows(ledger, r)
        \/ \E x \in {r, Garbled} : Shows(Put(ledger, x, FALSE), r)
    BY <2>1 DEF CutShort, r
  <2>4. CASE Shows(ledger, r)
    <3>1. Len(Records(ledger)) \in Nat
      BY Types, RecordsTyped
    <3>2. UNCHANGED <<ledger, appended>>
      BY <2>4, <3>1 DEF Shows
    <3> QED
      BY <1>1, <3>2, Types, QuietFile
  <2>5. CASE \E x \in {r, Garbled} : Shows(Put(ledger, x, FALSE), r)
    BY <1>1, <1>3, <2>2, <2>5, Types, AppendKeeps
  <2> QED
    BY <2>3, <2>4, <2>5
<1> QED
  BY <1>2, <1>3 DEF Broken

LEMMA KillKeeps ==
  ASSUME LedgerInv, NEW c \in Command, Kill(c)
  PROVE  LedgerInv'
<1>1. LedgerSound' /\ faults' \in 0..MaxFaults /\ pc[c] \in Holding
  BY BrokenKeeps DEF Kill
<1>2. pc' = [pc EXCEPT ![c] = "dead"] /\ UNCHANGED <<lock, job>>
  BY DEF Kill
<1>3. job' = [job EXCEPT ![c] = job[c]] /\ job[c] \in Job /\ pc'[c] = "dead"
  BY <1>2, Types
<1>4. CommandFits(c)'
  BY <1>3, OutsideFits
<1> QED
  BY <1>1, <1>2, <1>3, <1>4, CommandStep DEF CommandSteps, Holding

LEMMA FailKeeps ==
  ASSUME LedgerInv, NEW c \in Command, Fail(c)
  PROVE  LedgerInv'
  BY BrokenKeeps, LeaveKeeps DEF Fail

LEMMA RemoveStaleLockKeeps ==
  ASSUME LedgerInv, NEW c \in Command, RemoveStaleLock(c)
  PROVE  LedgerInv'
<1>1. LedgerSound' /\ faults' \in 0..MaxFaults
  BY Types, QuietFile DEF RemoveStaleLock
<1> QED
  BY <1>1, LeaveKeeps DEF RemoveStaleLock, Holding

-----------------------------------------------------------------------------
(* The theorems.                                                           *)

\* A project begins without a ledger, or with a legacy line in it.
LEMMA Initially == Init => LedgerInv
<1> SUFFICES ASSUME Init PROVE LedgerInv
  OBVIOUS
<1>1. /\ appended = <<>> /\ lock = None /\ faults = 0
      /\ pc = [c \in Command |-> "idle"] /\ job = [c \in Command |-> Idle]
  BY DEF Init
<1>2. /\ ledger \in Log(Record) /\ Len(ledger) <= MaxLines
      /\ ~Malformed(ledger) /\ Records(ledger) = <<>>
  <2>1. CASE ledger = <<>>
    <3>1. Records(ledger) = <<>>
      BY <2>1, RecordsAreRead, Reading!FoldEmpty
    <3> QED
      BY <2>1, <3>1, LedgerAssumption DEF Log, Malformed
  <2>2. CASE ledger # <<>>
    <3>1. PICK s \in Source, whole \in BOOLEAN :
            ledger = <<[record |-> [source |-> s, seq |-> 0, event |-> "legacy"], ended |-> whole]>>
      BY <2>2 DEF Init
    <3> DEFINE r == [source |-> s, seq |-> 0, event |-> "legacy"]
               line == [record |-> r, ended |-> whole]
    <3>2. r \in Record /\ r.event = "legacy" /\ line \in Line(Record) /\ line.record = r
      BY DEF Record, Line
    <3>3. ledger = <<line>>
      BY <3>1
    <3> HIDE DEF r, line
    <3>4. ledger = Append(<<>>, line) /\ <<>> \in Seq(Line(Record))
      BY <3>3
    <3>5. Reading!Fold(ledger) = ReadLine(Reading!Fold(<<>>), line)
      BY <3>2, <3>4, Reading!FoldAppend
    <3>6. Records(ledger) = <<>>
      BY <3>2, <3>5, RecordsAreRead, Reading!FoldEmpty DEF ReadLine
    <3>7. ledger \in Log(Record) /\ Len(ledger) = 1 /\ ledger[1].record = r
      BY <3>2, <3>3 DEF Log
    <3>8. ~Malformed(ledger)
      BY <3>2, <3>7, GarbledNotARecord DEF Malformed
    <3> QED
      BY <3>6, <3>7, <3>8, LedgerAssumption
  <2> QED
    BY <2>1, <2>2
<1>3. LedgerSound
  <2>1. DOMAIN appended = {} /\ appended \in Seq(Record)
    BY <1>1
  <2> QED
    BY <1>1, <1>2, <2>1
       DEF LedgerSound, KeptOrReported, FiledOnce, OutputsStay, LegacyAlone, PlacesOf
<1>4. TypeOK
  <2>1. Idle \in Job
    BY DEF Idle, Job
  <2> QED
    BY <1>1, <1>3, <2>1, LedgerAssumption DEF TypeOK, LedgerSound, Job
<1>5. ASSUME NEW c \in Command PROVE CommandFits(c)
  BY <1>1 DEF CommandFits, AppendFits, VerifyFits, CompletionFits
<1> QED
  BY <1>3, <1>4, <1>5 DEF LedgerInv

LEMMA Inductive == LedgerInv /\ [Next]_vars => LedgerInv'
<1> SUFFICES ASSUME LedgerInv, [Next]_vars PROVE LedgerInv'
  OBVIOUS
<1>1. CASE UNCHANGED vars
  BY <1>1 DEF vars, LedgerInv, TypeOK, LedgerSound, KeptOrReported, FiledOnce, OutputsStay,
     LegacyAlone, CommandFits, AppendFits, VerifyFits, CompletionFits, OneSource
<1>2. ASSUME NEW c \in Command,
             \/ Start(c) \/ GiveUp(c) \/ Kill(c) \/ Fail(c) \/ RemoveStaleLock(c)
             \/ \E s \in Source : Ingest(c, s) \/ AppendSnapshot(c, s) \/ Verify(c, s)
             \/ \E found \in SUBSET Source : Reconcile(c, found)
      PROVE  LedgerInv'
  BY <1>2, StartKeeps, GiveUpKeeps, KillKeeps, FailKeeps, RemoveStaleLockKeeps, IngestKeeps,
     AppendSnapshotKeeps, VerifyKeeps, ReconcileKeeps
<1> QED
  BY <1>1, <1>2 DEF Next

\* LedgerInv holds in every state: what a command read when it took the lock
\* is so when it appends, whatever became of the file before it.
THEOREM InvariantHolds == Spec => []LedgerInv
  BY Initially, Inductive, PTL DEF Spec

\* One command at a time has the lock, and the file has the records of its format.
THEOREM TypeCorrect == Spec => []TypeOK
  BY InvariantHolds, PTL DEF LedgerInv

\* A record that readers have seen stays where it is until doctor reports the ledger.
THEOREM RecordsAreKept == Spec => []KeptOrReported
<1>1. LedgerInv => KeptOrReported
  BY DEF LedgerInv, LedgerSound
<1> QED
  BY <1>1, InvariantHolds, PTL

\* No torn line, no failure and no legacy line makes a source be filed twice.
THEOREM SourcesAreFiledOnce == Spec => []FiledOnce
<1>1. LedgerInv => FiledOnce
  BY DEF LedgerInv, LedgerSound
<1> QED
  BY <1>1, InvariantHolds, PTL

\* An ingest that returns success has left its completion and the record that
\* its signals name.
THEOREM SuccessIsLinked == Spec => SuccessLinked
<1> DEFINE Ends(c, s) ==
      /\ pc[c] = "append" /\ pc'[c] = "idle" /\ s \in job[c].todo
      /\ job[c].event = "ingest_completed" /\ faults' = faults
<1>1. ASSUME LedgerInv, [Next]_vars, NEW c \in Command, NEW s \in Source, Ends(c, s)
      PROVE  /\ LinkHolds(ledger', s, job[c].link)
             /\ LatestIs(ledger', s, {"ingest_completed"})
  <2>1. pc'[c] # pc[c]
    BY <1>1
  <2>2. \E t \in Source : AppendSnapshot(c, t)
    <3>1. PICK d \in Command :
            \/ Start(d) \/ GiveUp(d) \/ Kill(d) \/ Fail(d) \/ RemoveStaleLock(d)
            \/ \E t \in Source : Ingest(d, t) \/ AppendSnapshot(d, t) \/ Verify(d, t)
            \/ \E found \in SUBSET Source : Reconcile(d, found)
      BY <1>1, <2>1 DEF Next, vars
    <3>2. ~ (Kill(d) \/ Fail(d))
      <4>1. faults \in Nat
        BY <1>1, Types, LedgerAssumption
      <4> QED
        BY <1>1, <4>1 DEF Kill, Fail, Broken
    <3>3. pc \in [Command -> CommandSteps]
      BY <1>1, Types
    <3>4. d = c
      BY <1>1, <3>1, <3>2, <3>3 DEF Start, GiveUp, RemoveStaleLock, Ingest, AppendSnapshot, Verify,
         Reconcile, Begin, Step, Leave
    <3>5. ~ (Start(c) \/ GiveUp(c) \/ RemoveStaleLock(c))
      BY <1>1 DEF Start, GiveUp, RemoveStaleLock, Step
    <3>6. \A t \in Source, found \in SUBSET Source :
            ~ (Ingest(c, t) \/ Verify(c, t) \/ Reconcile(c, found))
      BY <1>1 DEF Ingest, Verify, Reconcile, Begin, Step
    <3> QED
      BY <3>1, <3>2, <3>4, <3>5, <3>6
  <2>3. PICK t \in Source : AppendSnapshot(c, t)
    BY <2>2
  <2>4. CommandFits(c) /\ ledger \in Log(Record) /\ t \in job[c].todo
    BY <1>1, <2>3, Types DEF AppendSnapshot
  <2>5. t = s
    BY <1>1, <2>4 DEF CommandFits, AppendFits, OneSource
  <2> DEFINE r == Minted(s, job[c].event)
  <2>6. Ended(ledger) /\ LinkHolds(ledger, s, job[c].link)
    BY <1>1, <2>4 DEF CommandFits, CompletionFits
  <2>7. r \in Record /\ r.source = s /\ r.event = "ingest_completed"
    BY <1>1, MintedFits
  <2>8. Records(ledger') = Append(Records(ledger), r)
    BY <1>1, <2>3, <2>5, <2>6, AppendSnapshotShows
  <2> HIDE DEF r
  <2>9. LatestIs(ledger', s, {"ingest_completed"})
    BY <2>4, <2>7, <2>8, LatestRead
  <2>10. LinkHolds(ledger', s, job[c].link)
    BY <2>4, <2>6, <2>7, <2>8, LinkKept
  <2> QED
    BY <2>9, <2>10
<1>2. LedgerInv /\ [Next]_vars =>
        [\A c \in Command, s \in Source :
           (pc[c] = "append" /\ pc'[c] = "idle" /\ s \in job[c].todo
             /\ job[c].event = "ingest_completed" /\ faults' = faults) =>
             /\ LinkHolds(ledger', s, job[c].link)
             /\ LatestIs(ledger', s, {"ingest_completed"})]_vars
  BY <1>1
<1> QED
  BY <1>2, InvariantHolds, PTL DEF Spec, SuccessLinked

-----------------------------------------------------------------------------
(* The ledger as IngestPipeline has it.                                    *)

\* r is read after all others, unless the file is reported.
Grows(r) ==
  Issues(ledger') \/
    /\ ~Issues(ledger) /\ Records(ledger') = Append(Records(ledger), r)
    /\ appended' = Append(appended, r)

\* An append that was cut short has left a whole record, or nothing to read.
LEMMA BrokenGrows ==
  ASSUME LedgerInv, NEW c \in Command, Broken(c)
  PROVE  \/ UNCHANGED <<ledger, appended>>
         \/ \E s \in Source, event \in PrimaryEvents \cup {"ingest_failed"} :
              Grows(Minted(s, event))
<1>1. SUFFICES ASSUME ~ UNCHANGED <<ledger, appended>>
      PROVE  \E s \in Source, event \in PrimaryEvents \cup {"ingest_failed"} :
               Grows(Minted(s, event))
  OBVIOUS
<1>2. pc[c] = "append" /\ Len(ledger) < MaxLines
  BY <1>1 DEF Broken
<1>3. PICK s \in job[c].todo :
        \E log \in CutShort(ledger, Minted(s, job[c].event)) :
          Shows(log, Minted(s, job[c].event))
  BY <1>1 DEF Broken
<1> DEFINE r == Minted(s, job[c].event)
<1>4. /\ r \in Record /\ s \in Source
      /\ r.event = job[c].event /\ r.event \in PrimaryEvents \cup {"ingest_failed"}
      /\ Issues(ledger) \/
           /\ ~HasLegacyLine(ledger, r.source)
           /\ r.event \in {"primary_artifacts_ready", "ingest_failed"}
                => Primary(appended, r.source) = {}
  <2>1. job[c].todo \subseteq Source
    BY Types DEF Job
  <2> QED
    BY <1>2, <2>1, MintedFits
<1> HIDE DEF r
<1>5. ~Shows(ledger, r)
  <2>1. Len(Records(ledger)) \in Nat
    BY Types, RecordsTyped
  <2> QED
    BY <1>1, <2>1 DEF Shows
<1>6. PICK x \in {r, Garbled} : Shows(Put(ledger, x, FALSE), r)
  BY <1>3, <1>5 DEF CutShort, r
<1>7. Grows(r)
  BY <1>2, <1>4, <1>6, Types, AppendKeeps DEF Grows
<1> QED
  BY <1>4, <1>7 DEF r

\* Every step leaves the file alone, or adds a record, or leaves a reported line.
LEMMA FileGrows ==
  ASSUME LedgerInv, [Next]_vars
  PROVE  \/ UNCHANGED <<ledger, appended>>
         \/ \E s \in Source, event \in PrimaryEvents \cup {"ingest_failed"} :
              Grows(Minted(s, event))
<1>1. CASE UNCHANGED vars
  BY <1>1 DEF vars
<1>2. ASSUME NEW c \in Command, NEW s \in Source, AppendSnapshot(c, s)
      PROVE  \E event \in PrimaryEvents \cup {"ingest_failed"} : Grows(Minted(s, event))
  <2>1. pc[c] = "append" /\ s \in job[c].todo
    BY <1>2 DEF AppendSnapshot
  <2> DEFINE r == Minted(s, job[c].event)
  <2>2. /\ r \in Record /\ r.event = job[c].event
        /\ r.event \in PrimaryEvents \cup {"ingest_failed"}
        /\ Issues(ledger) \/
             /\ ~HasLegacyLine(ledger, r.source)
             /\ r.event \in {"primary_artifacts_ready", "ingest_failed"}
                  => Primary(appended, r.source) = {}
    BY <2>1, MintedFits
  <2>3. Len(ledger) < MaxLines /\ Shows(Put(ledger, r, TRUE), r)
    BY <1>2 DEF AppendSnapshot, Written
  <2> HIDE DEF r
  <2>4. Grows(r)
    BY <2>2, <2>3, Types, AppendKeeps DEF Grows
  <2> QED
    BY <2>2, <2>4 DEF r
<1>3. ASSUME NEW c \in Command, Kill(c) \/ Fail(c)
      PROVE  Broken(c)
  BY <1>3 DEF Kill, Fail
<1>4. ASSUME NEW c \in Command,
             \/ Start(c) \/ GiveUp(c) \/ RemoveStaleLock(c)
             \/ \E s \in Source : Ingest(c, s) \/ Verify(c, s)
             \/ \E found \in SUBSET Source : Reconcile(c, found)
      PROVE  UNCHANGED <<ledger, appended>>
  BY <1>4 DEF Start, GiveUp, RemoveStaleLock, Ingest, Verify, Reconcile, Begin
<1> QED
  BY <1>1, <1>2, <1>3, <1>4, BrokenGrows DEF Next

\* As long as nothing is reported the ledger is what IngestPipeline takes it
\* for: a sequence of records that append_snapshot extends by the one that it
\* has minted, whatever was cut short and whoever was killed.
THEOREM LedgerIsASequence == Spec => GrowsMinted
<1>1. ASSUME LedgerInv, [Next]_vars PROVE GrowsByOne
  <2>1. CASE UNCHANGED <<ledger, appended>>
    BY <2>1 DEF GrowsByOne
  <2>2. ASSUME NEW s \in Source, NEW event \in PrimaryEvents \cup {"ingest_failed"},
               Grows(Minted(s, event))
        PROVE  GrowsByOne
    BY <2>2 DEF Grows, GrowsByOne
  <2> QED
    BY <1>1, <2>1, <2>2, FileGrows
<1>2. LedgerInv /\ [Next]_vars => [GrowsByOne]_vars
  BY <1>1
<1> QED
  BY <1>2, InvariantHolds, PTL DEF Spec, GrowsMinted

\* A record that is minted has a number of its own.
LEMMA MintedIsNew ==
  ASSUME LedgerInv, ~Issues(ledger), NEW s, NEW event,
         NEW i \in DOMAIN appended, appended[i].source = s
  PROVE  appended[i].seq # Minted(s, event).seq
<1>1. Records(ledger) = appended /\ ledger \in Log(Record)
  BY DEF LedgerInv, LedgerSound, KeptOrReported
<1>2. i \in PlacesOf(Records(ledger), s)
  BY <1>1 DEF PlacesOf
<1>3. Minted(s, event).seq = NextSequence(ledger, s)
  BY DEF Minted
<1> QED
  BY <1>1, <1>2, <1>3, NextSequenceIsNew

\* mint_ledger_identity gives no number twice to a source, so that the check of
\* append_snapshot for an identity that is taken never refuses a record, until
\* doctor reports the ledger.
THEOREM IdentitiesAreUnique == Spec => []IdentitiesUnique
<1>1. Init => IdentitiesUnique
  BY DEF Init, IdentitiesUnique
<1>2. ASSUME LedgerInv, IdentitiesUnique, [Next]_vars PROVE IdentitiesUnique'
  <2>1. CASE UNCHANGED <<ledger, appended>>
    BY <1>2, <2>1 DEF IdentitiesUnique
  <2>2. ASSUME NEW s \in Source, NEW event \in PrimaryEvents \cup {"ingest_failed"},
               Grows(Minted(s, event)), ~Issues(ledger')
        PROVE  IdentitiesUnique'
    <3> DEFINE r == Minted(s, event)
               n == Len(appended) + 1
    <3>1. ~Issues(ledger) /\ appended' = Append(appended, r)
      BY <2>2 DEF Grows
    <3>2. r \in Record /\ r.source = s /\ appended \in Seq(Record)
      BY <1>2, Types, MintedTyped
    <3>3. \A i \in DOMAIN appended : appended[i].source = s => appended[i].seq # r.seq
      BY <1>2, <3>1, MintedIsNew
    <3> HIDE DEF r
    <3>4. /\ appended'[n] = r
          /\ \A i \in DOMAIN appended : appended'[i] = appended[i]
          /\ \A i \in DOMAIN appended' : i \in DOMAIN appended \/ i = n
      BY <3>1, <3>2, OneMoreRecord
    <3>5. \A i, j \in DOMAIN appended :
            (appended[i].source = appended[j].source /\ appended[i].seq = appended[j].seq)
              => i = j
      BY <1>2, <3>1 DEF IdentitiesUnique
    <3> HIDE DEF n
    <3> QED
      BY <3>2, <3>3, <3>4, <3>5 DEF IdentitiesUnique
  <2>3. CASE Issues(ledger')
    BY <2>3 DEF IdentitiesUnique
  <2> QED
    BY <1>2, <2>1, <2>2, <2>3, FileGrows
<1> QED
  BY <1>1, <1>2, InvariantHolds, PTL DEF Spec
=============================================================================
