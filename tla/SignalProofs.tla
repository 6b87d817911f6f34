----------------------------- MODULE SignalProofs -----------------------------
(***************************************************************************)
(* Proofs about SignalIdentity for any sources, dates, observations and    *)
(* commands and any bounds.                                                *)
(*                                                                         *)
(* Lemmas say what assign_deterministic_signal_ids gives; SignalInvariant  *)
(* is inductive; that filed ids are stable and that suppressions hold      *)
(* follow from it.                                                         *)
(***************************************************************************)
EXTENDS SignalIdentity, FiniteSetTheorems, TLAPS

-----------------------------------------------------------------------------
(* What assign_deterministic_signal_ids gives.                             *)

\* The signals of one base that come no later than o in the order of hashes.
UpTo(obs, order, o) == {p \in obs : Base[p] = Base[o] /\ order[p] <= order[o]}

LEMMA OrderType ==
  ASSUME NEW obs \in SUBSET Observation, NEW order \in Order(obs)
  PROVE  /\ IsFiniteSet(obs)
         /\ \A o \in obs : order[o] \in Nat
         /\ \A a, b \in obs : order[a] = order[b] => a = b
         /\ \A o \in obs : IsFiniteSet(UpTo(obs, order, o))
         /\ \A o \in obs : Cardinality(UpTo(obs, order, o)) \in Nat
<1>1. IsFiniteSet(obs)
  BY SignalAssumption, FS_Subset
<1>2. Cardinality(obs) \in Nat
  BY <1>1, FS_CardinalityType
<1>3. \A o \in obs : order[o] \in Nat
  BY <1>2 DEF Order
<1>4. \A o \in obs : IsFiniteSet(UpTo(obs, order, o))
  <2>1. \A o \in obs : UpTo(obs, order, o) \subseteq obs
    BY DEF UpTo
  <2> QED BY <2>1, <1>1, FS_Subset
<1>5. \A o \in obs : Cardinality(UpTo(obs, order, o)) \in Nat
  BY <1>4, FS_CardinalityType
<1> QED BY <1>1, <1>3, <1>4, <1>5 DEF Order

\* Of two observations with one base, the later has the greater suffix.
LEMMA LaterIsGreater ==
  ASSUME NEW obs \in SUBSET Observation, NEW order \in Order(obs),
         NEW a \in obs, NEW b \in obs,
         Base[a] = Base[b], order[a] <= order[b],
         Cardinality(UpTo(obs, order, a)) = Cardinality(UpTo(obs, order, b))
  PROVE  a = b
<1>1. UpTo(obs, order, a) \subseteq UpTo(obs, order, b)
  BY OrderType DEF UpTo
<1>2. UpTo(obs, order, a) = UpTo(obs, order, b)
  BY <1>1, OrderType, FS_Subset
<1>3. b \in UpTo(obs, order, b)
  BY OrderType DEF UpTo
<1>4. order[b] <= order[a]
  BY <1>2, <1>3 DEF UpTo
<1> QED BY <1>4, OrderType

\* No id is given twice, and all that was said is said.
LEMMA AssignedWell ==
  ASSUME NEW obs \in SUBSET Observation, NEW order \in Order(obs)
  PROVE  /\ Assigned(obs, order) \in SUBSET Signal
         /\ \A x, y \in Assigned(obs, order) : x.id = y.id => x = y
         /\ {x.obs : x \in Assigned(obs, order)} = obs
<1> DEFINE N(o) == Cardinality(UpTo(obs, order, o))
           S(o) == [obs |-> o, id |-> [base |-> Base[o], n |-> N(o)]]
<1>1. Assigned(obs, order) = {S(o) : o \in obs}
  BY DEF Assigned, UpTo
<1>2. \A o \in obs : N(o) \in Nat
  BY OrderType
<1> HIDE DEF N
<1>3. Assigned(obs, order) \in SUBSET Signal
  BY <1>1, <1>2 DEF Signal, Id
<1>4. ASSUME NEW a \in obs, NEW b \in obs, S(a).id = S(b).id PROVE a = b
  <2>1. Base[a] = Base[b] /\ N(a) = N(b)
    BY <1>4
  <2>2. order[a] \in Nat /\ order[b] \in Nat
    BY OrderType
  <2>3. CASE order[a] <= order[b]
    BY <2>1, <2>3, LaterIsGreater DEF N
  <2>4. CASE order[b] <= order[a]
    BY <2>1, <2>4, LaterIsGreater DEF N
  <2> QED BY <2>2, <2>3, <2>4
<1>5. \A x, y \in Assigned(obs, order) : x.id = y.id => x = y
  BY <1>1, <1>4
<1>6. {x.obs : x \in Assigned(obs, order)} = obs
  <2>1. \A o \in obs : S(o) \in Assigned(obs, order) /\ S(o).obs = o
    BY <1>1
  <2>2. \A x \in Assigned(obs, order) : x.obs \in obs
    BY <1>1
  <2> HIDE DEF S
  <2> QED BY <2>1, <2>2, Zenon
<1> QED BY <1>3, <1>5, <1>6

-----------------------------------------------------------------------------
(* The invariant.                                                          *)

\* A suppression of a filed signal: the source still has its record, and a
\* file that no repair will number anew.
FiledIsKept ==
  \A p \in suppressed : p.filed =>
    current[p.ref[1]] # None /\ FileOf(p.ref[1]).schema # "1.0"

\* The holder of the lock works on the meeting that the source's record names,
\* if it has one.
DraftOfRecord ==
  \A c \in Command : pc[c] = "written" =>
    \A s \in Source : s = draft.meeting[1] /\ current[s] # None => current[s].meeting = draft.meeting

SignalInvariant ==
  TypeOK /\ IdsUnique /\ NothingLost /\ FiledIsKept /\ DraftOfRecord /\ SuppressionHolds

LEMMA LegacyFiles ==
  ASSUME NEW f \in LegacyFile
  PROVE  f \in File /\ \A x, y \in f.signals : x.id = y.id => x = y
<1>1. CASE \E said \in [1..2 -> Observation] :
             f = [schema |-> "1.0", made |-> 0,
                  signals |-> {[obs |-> said[k], id |-> [base |-> None, n |-> k]] : k \in 1..2}]
  <2> PICK said \in [1..2 -> Observation] :
             f = [schema |-> "1.0", made |-> 0,
                  signals |-> {[obs |-> said[k], id |-> [base |-> None, n |-> k]] : k \in 1..2}]
    BY <1>1
  <2> DEFINE S(k) == [obs |-> said[k], id |-> [base |-> None, n |-> k]]
  <2>1. \A k \in 1..2 : S(k) \in Signal
    BY DEF Signal, Id
  <2>2. \A j, k \in 1..2 : S(j).id = S(k).id => j = k
    OBVIOUS
  <2>3. f.signals = {S(k) : k \in 1..2} /\ f.schema = "1.0" /\ f.made = 0
    OBVIOUS
  <2>4. f.signals \in SUBSET Signal
    BY <2>1, <2>3
  <2>5. f = [schema |-> "1.0", made |-> 0, signals |-> f.signals]
    OBVIOUS
  <2>6. f \in File
    BY <2>4, <2>5, SignalAssumption DEF File
  <2> QED BY <2>2, <2>3, <2>6
<1>2. CASE \E o \in Observation :
             f = [schema |-> "1.1", made |-> 0,
                  signals |-> {[obs |-> o, id |-> [base |-> Base[o], n |-> 1]]}]
  <2> PICK o \in Observation :
             f = [schema |-> "1.1", made |-> 0,
                  signals |-> {[obs |-> o, id |-> [base |-> Base[o], n |-> 1]]}]
    BY <1>2
  <2>1. [obs |-> o, id |-> [base |-> Base[o], n |-> 1]] \in Signal
    BY DEF Signal, Id
  <2> QED BY <2>1, SignalAssumption DEF File
<1> QED BY <1>1, <1>2 DEF LegacyFile

LEMMA InitSignals == Init => SignalInvariant
<1> SUFFICES ASSUME Init PROVE SignalInvariant
  OBVIOUS
<1>1. PICK old \in SUBSET Meeting :
        /\ \A m, k \in old : m[1] = k[1] => m = k
        /\ \E left \in [old -> LegacyFile] :
             files = [m \in Meeting |-> IF m \in old THEN left[m] ELSE None]
        /\ current = [s \in Source |->
                        IF \E m \in old : m[1] = s
                          THEN [meeting |-> CHOOSE m \in old : m[1] = s, made |-> 0]
                          ELSE None]
  BY DEF Init
<1>2. PICK left \in [old -> LegacyFile] :
        files = [m \in Meeting |-> IF m \in old THEN left[m] ELSE None]
  BY <1>1
<1>3. files \in [Meeting -> File \cup {None}]
  BY <1>2, LegacyFiles
<1>4. \A m \in old : files[m] \in File
  BY <1>2, LegacyFiles
<1>5. ASSUME NEW s \in Source, current[s] # None
      PROVE  /\ current[s] \in Manifest
             /\ current[s].meeting[1] = s /\ current[s].meeting \in old
  <2>1. \E m \in old : m[1] = s
    BY <1>1, <1>5
  <2>2. PICK m \in old : m = (CHOOSE k \in old : k[1] = s) /\ m[1] = s
    BY <2>1
  <2>3. current[s] = [meeting |-> m, made |-> 0]
    BY <1>1, <2>1, <2>2
  <2> QED BY <2>2, <2>3, SignalAssumption DEF Manifest
<1>6. current \in [Source -> Manifest \cup {None}]
  BY <1>1, <1>5
<1>7. TypeOK
  <2>1. \A s \in Source : current[s] # None => current[s].meeting[1] = s /\ FileOf(s) # None
    BY <1>4, <1>5, NoneNotAValue DEF FileOf
  <2>2. /\ pc \in [Command -> {"idle", "admitted", "written", "dead"}]
        /\ \A c \in Command : lock = c <=> pc[c] \in {"written", "dead"}
        /\ \A c \in Command : pc[c] # "written"
    BY SignalAssumption DEF Init
  <2>3. suppressed = {} /\ lock = None /\ draft = None
        /\ runs \in 0..MaxRuns /\ reviews \in 0..MaxReviews /\ kills \in 0..MaxKills
    BY SignalAssumption DEF Init
  <2> QED BY <1>3, <1>6, <2>1, <2>2, <2>3 DEF TypeOK
<1>8. IdsUnique
  BY <1>2, LegacyFiles DEF IdsUnique
<1> QED BY <1>7, <1>8 DEF Init, SignalInvariant, NothingLost, FiledIsKept, DraftOfRecord,
        SuppressionHolds

\* Steps that change neither files nor records nor suppressions.
LEMMA QuietStep ==
  ASSUME SignalInvariant, UNCHANGED project, TypeOK',
         \A c \in Command : pc'[c] = "written" => pc[c] = "written" /\ draft' = draft
  PROVE  SignalInvariant'
BY DEF SignalInvariant, project, IdsUnique, NothingLost, FiledIsKept, DraftOfRecord,
        SuppressionHolds, FileOf, Said

\* A file that is written as a whole, without a second use of an id, and that
\* keeps the signals of the record's file unless that is of schema 1.0.
LEMMA Rewritten ==
  ASSUME SignalInvariant,
         NEW c \in Command, NEW m \in Meeting, NEW signals \in SUBSET Signal,
         NEW said \in SUBSET Observation,
         WriteSignalFile(c, m, signals), draft' = [meeting |-> m, said |-> said],
         \A x, y \in signals : x.id = y.id => x = y,
         {x.obs : x \in signals} = said,
         \A s \in Source : s = m[1] /\ current[s] # None => current[s].meeting = m,
         \A s \in Source : current[s] # None /\ current[s].meeting = m /\ files[m].schema # "1.0"
                             => signals = files[m].signals
  PROVE  SignalInvariant'
<1> DEFINE f == [schema |-> "1.2", made |-> runs', signals |-> signals]
<1>1. runs' \in 0..MaxRuns
  BY SignalAssumption DEF WriteSignalFile, SignalInvariant, TypeOK
<1>2. f \in File /\ f # None /\ f.signals = signals /\ f.schema = "1.2"
  BY <1>1, NoneNotAValue DEF File
<1>3. files' \in [Meeting -> File \cup {None}] /\ files'[m] = f
      /\ \A k \in Meeting : k # m => files'[k] = files[k]
  BY <1>2 DEF WriteSignalFile, SignalInvariant, TypeOK
<1> HIDE DEF f
<1>4. UNCHANGED <<current, suppressed, reviews, kills>> /\ lock = None /\ lock' = c
      /\ pc[c] = "admitted" /\ pc' = [pc EXCEPT ![c] = "written"]
  BY DEF WriteSignalFile, Step
<1>5. \A d \in Command : pc[d] \notin {"written", "dead"}
  BY <1>4, SignalAssumption DEF SignalInvariant, TypeOK
<1>6. draft' \in Draft /\ draft' # None /\ draft'.meeting = m /\ draft'.said = said
  BY NoneNotAValue DEF Draft
<1>7. TypeOK'
  <2>1. \A s \in Source : current'[s] # None => current'[s].meeting[1] = s /\ FileOf(s)' # None
    BY <1>2, <1>3, <1>4 DEF SignalInvariant, TypeOK, FileOf, Manifest
  <2>2. pc' \in [Command -> {"idle", "admitted", "written", "dead"}]
        /\ \A d \in Command : lock' = d <=> pc'[d] \in {"written", "dead"}
    BY <1>4, <1>5 DEF SignalInvariant, TypeOK
  <2>3. \A d \in Command : pc'[d] = "written" => draft' # None /\ files'[draft'.meeting] # None
    BY <1>2, <1>3, <1>6
  <2> QED BY <1>1, <1>3, <1>4, <1>6, <2>1, <2>2, <2>3 DEF SignalInvariant, TypeOK
<1>8. IdsUnique'
  BY <1>2, <1>3 DEF SignalInvariant, IdsUnique
<1>9. NothingLost'
  <2>1. Said(files'[m]) = said
    BY <1>2, <1>3 DEF Said
  <2> QED BY <2>1, <1>4, <1>5, <1>6 DEF NothingLost, SignalInvariant, TypeOK
<1>10. FiledIsKept' /\ SuppressionHolds'
  <2> SUFFICES ASSUME NEW p \in suppressed', p.filed
               PROVE  /\ current'[p.ref[1]] # None /\ FileOf(p.ref[1])'.schema # "1.0"
                      /\ \E x \in FileOf(p.ref[1])'.signals : x.id = p.ref[2] /\ x.obs = p.obs
    BY DEF FiledIsKept, SuppressionHolds
  <2>1. p.ref[1] \in Source /\ current[p.ref[1]] # None /\ FileOf(p.ref[1]).schema # "1.0"
        /\ \E x \in FileOf(p.ref[1]).signals : x.id = p.ref[2] /\ x.obs = p.obs
    BY <1>4 DEF SignalInvariant, TypeOK, FiledIsKept, SuppressionHolds
  <2>2. CASE current[p.ref[1]].meeting = m
    BY <2>1, <2>2, <1>2, <1>3, <1>4 DEF FileOf
  <2>3. CASE current[p.ref[1]].meeting # m
    BY <2>1, <2>3, <1>3, <1>4 DEF FileOf, SignalInvariant, TypeOK, Manifest
  <2> QED BY <2>2, <2>3
<1>11. DraftOfRecord'
  BY <1>4, <1>6 DEF DraftOfRecord
<1> QED BY <1>7, <1>8, <1>9, <1>10, <1>11 DEF SignalInvariant

\* The record is appended: the draft's meeting becomes the source's.
LEMMA AppendKeepsInvariant ==
  ASSUME SignalInvariant, NEW c \in Command, AppendRecord(c)
  PROVE  SignalInvariant'
<1> DEFINE m == draft.meeting
           made == files[m].made
<1>1. /\ pc[c] = "written" /\ pc' = [pc EXCEPT ![c] = "idle"]
      /\ lock = c /\ lock' = None /\ draft' = None
      /\ current' = [current EXCEPT ![m[1]] = [meeting |-> m, made |-> made]]
      /\ UNCHANGED <<files, suppressed, budget>>
  BY DEF AppendRecord, Step, SignalInvariant, TypeOK
<1>2. m \in Meeting /\ m[1] \in Source /\ files[m] # None /\ files[m] \in File
  BY <1>1 DEF SignalInvariant, TypeOK, Draft, Meeting
<1>3. [meeting |-> m, made |-> made] \in Manifest
  BY <1>2 DEF File, Manifest
<1>4. \A d \in Command : pc'[d] \notin {"written", "dead"}
  BY <1>1 DEF SignalInvariant, TypeOK
<1>5. \A s \in Source : current'[s] = IF s = m[1] THEN [meeting |-> m, made |-> made] ELSE current[s]
  BY <1>1, <1>2 DEF SignalInvariant, TypeOK
<1> HIDE DEF m, made
<1>6. TypeOK'
  <2>1. current' \in [Source -> Manifest \cup {None}]
    BY <1>1, <1>2, <1>3 DEF SignalInvariant, TypeOK
  <2>2. \A s \in Source : current'[s] # None => current'[s].meeting[1] = s /\ FileOf(s)' # None
    BY <1>1, <1>2, <1>5 DEF SignalInvariant, TypeOK, FileOf
  <2>3. pc' \in [Command -> {"idle", "admitted", "written", "dead"}]
        /\ \A d \in Command : lock' = d <=> pc'[d] \in {"written", "dead"}
    BY <1>1, <1>4, SignalAssumption DEF SignalInvariant, TypeOK
  <2> QED BY <1>1, <1>4, <2>1, <2>2, <2>3 DEF SignalInvariant, TypeOK, budget
<1>7. ASSUME NEW s \in Source, current[s] # None
      PROVE  current'[s] # None /\ FileOf(s)' = FileOf(s)
  <2>1. CASE s = m[1]
    <3>1. current[s].meeting = m
      BY <1>1, <1>7, <2>1 DEF SignalInvariant, DraftOfRecord, m
    <3> QED BY <1>1, <1>3, <1>5, <2>1, <3>1, NoneNotAValue DEF FileOf
  <2>2. CASE s # m[1]
    BY <1>1, <1>5, <1>7, <2>2 DEF FileOf
  <2> QED BY <2>1, <2>2
<1>8. \A p \in suppressed : p.ref[1] \in Source
  BY DEF SignalInvariant, TypeOK
<1>9. FiledIsKept' /\ SuppressionHolds'
  BY <1>1, <1>7, <1>8 DEF SignalInvariant, FiledIsKept, SuppressionHolds
<1>10. IdsUnique' /\ NothingLost' /\ DraftOfRecord'
  BY <1>1, <1>4 DEF SignalInvariant, IdsUnique, NothingLost, DraftOfRecord
<1> QED BY <1>6, <1>9, <1>10 DEF SignalInvariant

\* A suppression of what some file shows.
LEMMA SuppressKeepsInvariant ==
  ASSUME SignalInvariant, NEW c \in Command, NEW seen \in Observed, Suppress(c, seen)
  PROVE  SignalInvariant'
<1>1. PICK m \in Meeting : files[m] # None /\
        seen \in {[ref |-> Ref(m, x), obs |-> x.obs, meeting |-> m, schema |-> files[m].schema] :
                    x \in files[m].signals}
  BY DEF Observed
<1>2. PICK x \in files[m].signals :
        seen = [ref |-> Ref(m, x), obs |-> x.obs, meeting |-> m, schema |-> files[m].schema]
  BY <1>1
<1>3. files[m] \in File /\ x \in Signal /\ m[1] \in Source
  BY <1>1 DEF SignalInvariant, TypeOK, File, Meeting
<1>4. seen.ref = <<m[1], x.id>> /\ seen.ref \in Source \X Id /\ seen.obs \in Observation
  BY <1>2, <1>3 DEF Ref, Signal
<1> DEFINE new == [ref |-> seen.ref, match |-> SuppressionMatch(seen), obs |-> seen.obs,
                   filed |-> /\ seen.schema # "1.0"
                             /\ \E s \in Source : current[s] # None /\ current[s].meeting = seen.meeting]
<1>5. /\ suppressed' = suppressed \cup {new}
      /\ UNCHANGED <<files, current, lock, draft, runs, kills>>
      /\ reviews' = reviews + 1 /\ reviews < MaxReviews
      /\ pc[c] = "admitted" /\ pc' = [pc EXCEPT ![c] = "idle"]
  BY DEF Suppress, Review, Step
<1>6. TypeOK'
  <2>1. \A p \in suppressed' : p.ref \in Source \X Id /\ p.obs \in Observation
    BY <1>4, <1>5 DEF SignalInvariant, TypeOK
  <2>2. reviews' \in 0..MaxReviews
    BY <1>5, SignalAssumption DEF SignalInvariant, TypeOK
  <2>3. /\ pc' \in [Command -> {"idle", "admitted", "written", "dead"}]
        /\ \A d \in Command : lock' = d <=> pc'[d] \in {"written", "dead"}
        /\ \A d \in Command : pc'[d] = "written" => pc[d] = "written"
    BY <1>5 DEF SignalInvariant, TypeOK
  <2> QED BY <1>5, <2>1, <2>2, <2>3 DEF SignalInvariant, TypeOK, FileOf
<1>7. ASSUME new.filed
      PROVE  /\ current[new.ref[1]] # None /\ FileOf(new.ref[1]).schema # "1.0"
             /\ \E y \in FileOf(new.ref[1]).signals : y.id = new.ref[2] /\ y.obs = new.obs
  <2>1. PICK s \in Source : current[s] # None /\ current[s].meeting = m
    BY <1>2, <1>7
  <2>2. s = m[1]
    BY <2>1 DEF SignalInvariant, TypeOK
  <2>3. FileOf(s) = files[m] /\ files[m].schema # "1.0"
    BY <1>2, <1>7, <2>1 DEF FileOf
  <2>4. new.ref[1] = s /\ new.ref[2] = x.id /\ new.obs = x.obs
    BY <1>2, <1>4, <2>2
  <2> QED BY <2>1, <2>3, <2>4
<1> HIDE DEF new
<1>8. FiledIsKept' /\ SuppressionHolds'
  BY <1>5, <1>7 DEF SignalInvariant, FiledIsKept, SuppressionHolds, FileOf
<1>9. IdsUnique' /\ NothingLost' /\ DraftOfRecord'
  BY <1>5 DEF SignalInvariant, TypeOK, IdsUnique, NothingLost, DraftOfRecord, Said
<1> QED BY <1>6, <1>8, <1>9 DEF SignalInvariant

LEMMA StepKeepsInvariant == SignalInvariant /\ [Next]_vars => SignalInvariant'
<1> SUFFICES ASSUME SignalInvariant, [Next]_vars PROVE SignalInvariant'
  OBVIOUS
<1>1. CASE UNCHANGED vars
  <2>1. TypeOK'
    BY <1>1 DEF SignalInvariant, TypeOK, vars, project, budget, FileOf
  <2> QED BY <1>1, <2>1, QuietStep DEF vars
<1> SUFFICES ASSUME NEW c \in Command,
                    \/ Start(c) \/ GiveUp(c) \/ AppendRecord(c) \/ Kill(c) \/ RemoveStaleLock(c)
                    \/ \E m \in Meeting, answer \in SUBSET Observation :
                         \E order \in Order(answer) : WriteAnswer(c, m, answer, order)
                    \/ \E s \in Source :
                         \E order \in Order(IF current[s] = None THEN {} ELSE Said(FileOf(s))) :
                           Repair(c, s, order)
                    \/ \E seen \in Observed : Suppress(c, seen)
                    \/ \E p \in suppressed : Unsuppress(c, p)
             PROVE  SignalInvariant'
  BY <1>1 DEF Next
<1>2. CASE Start(c) \/ GiveUp(c)
  <2>1. TypeOK'
    BY <1>2, SignalAssumption
    DEF Start, GiveUp, Step, SignalInvariant, TypeOK, project, budget, FileOf
  <2> QED BY <1>2, <2>1, QuietStep DEF Start, GiveUp, Step, SignalInvariant, TypeOK
<1>3. CASE Kill(c)
  <2>1. TypeOK'
    BY <1>3, SignalAssumption DEF Kill, Step, SignalInvariant, TypeOK, project, FileOf
  <2>2. \A d \in Command : pc'[d] # "written"
    BY <1>3 DEF Kill, Step, SignalInvariant, TypeOK
  <2> QED BY <1>3, <2>1, <2>2, QuietStep DEF Kill
<1>4. CASE RemoveStaleLock(c)
  <2>1. TypeOK'
    BY <1>4, SignalAssumption
    DEF RemoveStaleLock, Step, SignalInvariant, TypeOK, project, budget, FileOf
  <2> QED BY <1>4, <2>1, QuietStep DEF RemoveStaleLock, Step, SignalInvariant, TypeOK
<1>5. CASE AppendRecord(c)
  BY <1>5, AppendKeepsInvariant
<1>6. ASSUME NEW m \in Meeting, NEW answer \in SUBSET Observation, NEW order \in Order(answer),
             WriteAnswer(c, m, answer, order)
      PROVE  SignalInvariant'
  <2>1. \A s \in Source : current[s] # None => current[s].meeting # m /\ s # m[1]
    BY <1>6 DEF WriteAnswer, SignalInvariant, TypeOK
  <2> QED BY <1>6, <2>1, AssignedWell, Rewritten DEF WriteAnswer
<1>7. ASSUME NEW s \in Source,
             NEW order \in Order(IF current[s] = None THEN {} ELSE Said(FileOf(s))),
             Repair(c, s, order)
      PROVE  SignalInvariant'
  <2> DEFINE m == current[s].meeting
  <2>1. m \in Meeting /\ m[1] = s /\ files[m] \in File /\ FileOf(s) = files[m]
    BY <1>7 DEF Repair, SignalInvariant, TypeOK, Manifest, FileOf
  <2>2. Said(files[m]) \in SUBSET Observation /\ files[m].signals \in SUBSET Signal
    BY <2>1 DEF Said, File, Signal
  <2>3. order \in Order(Said(files[m]))
    BY <1>7, <2>1 DEF Repair
  <2>4. \A t \in Source : t = m[1] /\ current[t] # None => current[t].meeting = m
    BY <2>1
  <2>5. CASE files[m].schema = "1.0"
    BY <1>7, <2>1, <2>2, <2>3, <2>4, <2>5, AssignedWell, Rewritten DEF Repair
  <2>6. CASE files[m].schema # "1.0"
    <3>1. \A x, y \in files[m].signals : x.id = y.id => x = y
      BY <2>1, NoneNotAValue DEF SignalInvariant, IdsUnique
    <3>2. WriteSignalFile(c, m, files[m].signals)
          /\ draft' = [meeting |-> m, said |-> Said(files[m])]
      BY <1>7, <2>6 DEF Repair
    <3>3. {x.obs : x \in files[m].signals} = Said(files[m])
      BY DEF Said
    <3> HIDE DEF m
    <3> QED BY <2>1, <2>2, <3>1, <3>2, <3>3, <2>4, Rewritten
  <2> QED BY <2>5, <2>6
<1>8. ASSUME NEW seen \in Observed, Suppress(c, seen) PROVE SignalInvariant'
  BY <1>8, SuppressKeepsInvariant
<1>9. ASSUME NEW p \in suppressed, Unsuppress(c, p) PROVE SignalInvariant'
  <2>1. TypeOK'
    BY <1>9, SignalAssumption DEF Unsuppress, Review, Step, SignalInvariant, TypeOK, FileOf
  <2>2. /\ suppressed' \subseteq suppressed /\ UNCHANGED <<files, current, draft>>
        /\ \A d \in Command : pc'[d] = "written" => pc[d] = "written"
    BY <1>9 DEF Unsuppress, Review, Step, SignalInvariant, TypeOK
  <2>3. IdsUnique' /\ NothingLost' /\ DraftOfRecord' /\ FiledIsKept'
    BY <2>2
    DEF SignalInvariant, IdsUnique, NothingLost, DraftOfRecord, FiledIsKept, FileOf, Said
  <2>4. SuppressionHolds'
    BY <2>2 DEF SignalInvariant, SuppressionHolds, FileOf
  <2> QED BY <2>1, <2>3, <2>4 DEF SignalInvariant
<1> QED BY <1>2, <1>3, <1>4, <1>5, <1>6, <1>7, <1>8, <1>9

-----------------------------------------------------------------------------
(* The theorems.                                                           *)

THEOREM InvariantHolds == Spec => []SignalInvariant
BY InitSignals, StepKeepsInvariant, PTL DEF Spec

\* Every variable keeps its type; only the lock's holder is at work.
THEOREM SignalTypes == Spec => []TypeOK
<1>1. SignalInvariant => TypeOK
  BY DEF SignalInvariant
<1> QED BY <1>1, InvariantHolds, PTL

\* assign_deterministic_signal_ids gives no id twice in a file, whatever the
\* provider answered and whatever file an older release left.
THEOREM IdsAreUnique == Spec => []IdsUnique
<1>1. SignalInvariant => IdsUnique
  BY DEF SignalInvariant
<1> QED BY <1>1, InvariantHolds, PTL

\* Collapsing duplicates and giving suffixes loses no observation.
THEOREM NoObservationLost == Spec => []NothingLost
<1>1. SignalInvariant => NothingLost
  BY DEF SignalInvariant
<1> QED BY <1>1, InvariantHolds, PTL

\* A suppression of a filed signal keeps naming the observation that the
\* reviewer saw.
THEOREM SuppressionsHold == Spec => []SuppressionHolds
<1>1. SignalInvariant => SuppressionHolds
  BY DEF SignalInvariant
<1> QED BY <1>1, InvariantHolds, PTL

\* The signals of a source that has its record keep their ids, unless its file
\* is of schema 1.0.
THEOREM FiledIdsAreStable == Spec => FiledIdsStable
<1>1. SignalInvariant /\ [Next]_vars =>
        [\A s \in Source : current[s] # None /\ FileOf(s).schema # "1.0" =>
           files'[current[s].meeting].signals = FileOf(s).signals]_vars
  <2> SUFFICES ASSUME SignalInvariant, Next,
                      NEW s \in Source, current[s] # None, FileOf(s).schema # "1.0"
               PROVE  files'[current[s].meeting].signals = FileOf(s).signals
    OBVIOUS
  <2>1. CASE files' = files
    BY <2>1 DEF FileOf
  <2>2. current[s].meeting \in Meeting /\ current[s].meeting[1] = s
        /\ files \in [Meeting -> File \cup {None}]
    BY DEF SignalInvariant, TypeOK, Manifest
  <2>3. ASSUME NEW c \in Command, NEW m \in Meeting, NEW answer \in SUBSET Observation,
               NEW order \in Order(answer), WriteAnswer(c, m, answer, order)
        PROVE  files'[current[s].meeting] = files[current[s].meeting]
    BY <2>2, <2>3 DEF WriteAnswer, WriteSignalFile
  <2>4. ASSUME NEW c \in Command, NEW t \in Source,
               NEW order \in Order(IF current[t] = None THEN {} ELSE Said(FileOf(t))),
               Repair(c, t, order)
        PROVE  files'[current[s].meeting].signals = FileOf(s).signals
    <3>1. current[t].meeting \in Meeting /\ current[t].meeting[1] = t
      BY <2>4 DEF Repair, SignalInvariant, TypeOK, Manifest
    <3>2. CASE t = s
      BY <2>2, <2>4, <3>2 DEF Repair, WriteSignalFile, FileOf
    <3>3. CASE t # s
      <4>1. current[t].meeting # current[s].meeting
        BY <2>2, <3>1, <3>3
      <4> QED BY <2>2, <2>4, <3>1, <4>1 DEF Repair, WriteSignalFile, FileOf
    <3> QED BY <3>2, <3>3
  <2> QED
    BY <2>1, <2>3, <2>4
    DEF Next, Start, GiveUp, AppendRecord, Kill, RemoveStaleLock, Suppress, Unsuppress, Review,
        project, FileOf
<1> QED BY <1>1, InvariantHolds, PTL DEF Spec, FiledIdsStable
=============================================================================
