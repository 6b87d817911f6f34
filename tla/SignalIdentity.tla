---------------------------- MODULE SignalIdentity ----------------------------
(***************************************************************************)
(* What a signal is called, from the provider's answer to the review that  *)
(* suppresses it.                                                          *)
(*                                                                         *)
(*   ingest            pipeline.py         writes signals, then a record   *)
(*   repair-date       pipeline.py         migrates the file, then records *)
(*   suppress-signal   playbook_review.py  names a signal by its id        *)
(*                                                                         *)
(* IngestPipeline takes a signal file as one value and Playbook takes a    *)
(* signal's name as given; here names are made, kept and remade.           *)
(***************************************************************************)
EXTENDS FiniteSets, Naturals

CONSTANTS
  Source,       \* transcripts, by the hash of their content
  Date,         \* dates that an ingest may give a meeting
  Observation,  \* what a signal says, without its provenance and its times
  Base,         \* observation -> the hashed part of its id
  Place,        \* observation -> its type and locator
  Raw,          \* observation -> the speaker's label in the transcript
  Name,         \* observation -> the name that the provider gave the speaker
  Command,      \* command processes
  Legacy,       \* schemas of the files that older releases left
  None,
  MaxRuns,      \* bound: signal files written
  MaxReviews,   \* bound: review events
  MaxKills      \* bound: commands killed

\* The base id hashes type, speaker and locator, or the wording of the
\* evidence where there is no locator.
ASSUME SignalAssumption ==
  /\ IsFiniteSet(Observation)
  /\ None \notin Command /\ Legacy \subseteq {"1.0", "1.1"}
  /\ MaxRuns \in Nat /\ MaxReviews \in Nat /\ MaxKills \in Nat
  /\ \A a, b \in Observation : Base[a] = Base[b] => Place[a] = Place[b] /\ Raw[a] = Raw[b]

VARIABLES
  files,       \* _signals/<meeting>.jsonl
  current,     \* the signal manifest of a source's latest record
  suppressed,  \* suppressions of the review ledger, folded
  lock,        \* the command that made _cache/meeting-ingest.lock
  pc,          \* next step of each command
  draft,       \* the meeting whose record the lock's holder will append
  runs, reviews, kills

project == <<files, current, suppressed>>
budget == <<runs, reviews, kills>>
vars == <<project, lock, pc, draft, budget>>

-----------------------------------------------------------------------------
(* Signals and their ids.                                                  *)

\* mint_meeting_id: of the source and the date it has at its ingest.
Meeting == Source \X Date

\* The n-th of the signals with one base; schema 1.0 numbered all of a file.
Id == [base : {Base[o] : o \in Observation} \cup {None}, n : Nat]

Signal == [id : Id, obs : Observation]

\* made tells one content of a file from another, as its fingerprint does.
File == [schema : {"1.0", "1.1", "1.2"}, made : 0..MaxRuns, signals : SUBSET Signal]

Manifest == [meeting : Meeting, made : 0..MaxRuns]

Draft == [meeting : Meeting, said : SUBSET Observation]

ASSUME NoneNotAValue == None \notin File \cup Manifest \cup Draft

\* The order of content hashes.  The content holds the identity of the record
\* that is being made, so one call's order says nothing of the next one's.
Order(obs) == {r \in [obs -> 1..Cardinality(obs)] :
                 \A a, b \in obs : r[a] = r[b] => a = b}

\* Mutant: no suffix for a second signal with the same base.
AssignedBare(obs, order) ==
  {[obs |-> o, id |-> [base |-> Base[o], n |-> 1]] : o \in obs}

\* Mutant: signals with the same base count as duplicates.
AssignedOnce(obs, order) ==
  {[obs |-> o, id |-> [base |-> Base[o], n |-> 1]] :
     o \in {p \in obs : \A q \in obs : Base[q] = Base[p] => order[p] <= order[q]}}

\* assign_deterministic_signal_ids: equal content collapses, the first hash
\* of a base has no suffix, the next has -2.
Assigned(obs, order) ==
  {[obs |-> o,
    id |-> [base |-> Base[o],
            n |-> Cardinality({p \in obs : Base[p] = Base[o] /\ order[p] <= order[o]})]] :
     o \in obs}

Said(file) == {x.obs : x \in file.signals}

\* What a review names a signal by.
Ref(m, x) == <<m[1], x.id>>

\* discover_inputs reads every file of the directory, filed or not.
Observed ==
  UNION {{[ref |-> Ref(m, x), obs |-> x.obs, meeting |-> m, schema |-> files[m].schema] :
            x \in files[m].signals} : m \in {k \in Meeting : files[k] # None}}

\* suppression_match: "1.1" is tested for the label, later schemas are not.
SuppressionMatch(seen) ==
  <<Place[seen.obs], IF seen.schema = "1.1" THEN Raw[seen.obs] ELSE Name[seen.obs]>>

Suppressed == {p.ref : p \in suppressed}

-----------------------------------------------------------------------------
(* Readiness.                                                              *)

FileOf(s) == files[current[s].meeting]

\* current_signal_link_invalid: the file is not the one the record describes.
LinkInvalid(s) == current[s] # None /\ FileOf(s).made # current[s].made

\* signal_suppression_reemerged.
Reemerged(seen) ==
  /\ seen.ref \notin Suppressed
  /\ \E p \in suppressed : p.ref[1] = seen.ref[1] /\ p.match = SuppressionMatch(seen)

\* require_write_readiness, before any command takes the lock.
Ready ==
  /\ lock = None
  /\ \A s \in Source : ~LinkInvalid(s)
  /\ \A seen \in Observed : ~Reemerged(seen)

-----------------------------------------------------------------------------
(* Commands.                                                               *)

Step(c, from, to) == pc[c] = from /\ pc' = [pc EXCEPT ![c] = to]

\* An older release left a file of schema 1.0, its signals numbered, one of
\* them perhaps twice, its speakers' names for their labels; or one of 1.1.
LegacyFile ==
  {[schema |-> "1.0", made |-> 0,
    signals |-> {[obs |-> said[k], id |-> [base |-> None, n |-> k]] : k \in 1..2}] :
     said \in [1..2 -> {o \in Observation : "1.0" \in Legacy /\ Raw[o] = Name[o]}]}
  \cup
  {[schema |-> "1.1", made |-> 0, signals |-> {[obs |-> o, id |-> [base |-> Base[o], n |-> 1]]}] :
     o \in {p \in Observation : "1.1" \in Legacy}}

Init ==
  /\ \E old \in SUBSET Meeting :
       /\ \A m, k \in old : m[1] = k[1] => m = k
       /\ \E left \in [old -> LegacyFile] :
            files = [m \in Meeting |-> IF m \in old THEN left[m] ELSE None]
       /\ current = [s \in Source |->
                       IF \E m \in old : m[1] = s
                         THEN [meeting |-> CHOOSE m \in old : m[1] = s, made |-> 0]
                         ELSE None]
  /\ suppressed = {} /\ lock = None /\ draft = None
  /\ pc = [c \in Command |-> "idle"]
  /\ runs = 0 /\ reviews = 0 /\ kills = 0

Start(c) ==
  /\ Ready
  /\ Step(c, "idle", "admitted")
  /\ UNCHANGED <<project, lock, draft, budget>>

\* A no-op, a conflict on the lock, or a provider that fails.
GiveUp(c) ==
  /\ Step(c, "admitted", "idle")
  /\ UNCHANGED <<project, lock, draft, budget>>

\* Mutant: the lock is not looked at.
WriteUnlocked(c, m, signals) ==
  /\ runs < MaxRuns /\ runs' = runs + 1
  /\ Step(c, "admitted", "written")
  /\ lock' = c
  /\ files' = [files EXCEPT ![m] = [schema |-> "1.2", made |-> runs', signals |-> signals]]
  /\ UNCHANGED <<current, suppressed, reviews, kills>>

\* A new content of a meeting's file; the lock stays taken until the record.
WriteSignalFile(c, m, signals) ==
  /\ runs < MaxRuns /\ runs' = runs + 1
  /\ Step(c, "admitted", "written")
  /\ lock = None /\ lock' = c
  /\ files' = [files EXCEPT ![m] = [schema |-> "1.2", made |-> runs', signals |-> signals]]
  /\ UNCHANGED <<current, suppressed, reviews, kills>>

\* Mutant: whether the source has a record was only looked up before the lock.
WriteAnswerAnyhow(c, m, answer, order) ==
  /\ WriteSignalFile(c, m, Assigned(answer, order))
  /\ draft' = [meeting |-> m, said |-> answer]

\* _finish_ingest, for a source without a record.
WriteAnswer(c, m, answer, order) ==
  /\ current[m[1]] = None
  /\ WriteSignalFile(c, m, Assigned(answer, order))
  /\ draft' = [meeting |-> m, said |-> answer]

\* Mutant: ids are assigned again whatever the schema.
RepairReassigning(c, s, order) ==
  /\ current[s] # None
  /\ LET m == current[s].meeting IN
       /\ WriteSignalFile(c, m, Assigned(Said(files[m]), order))
       /\ draft' = [meeting |-> m, said |-> Said(files[m])]

\* repair-date gives every signal a new date and schema 1.2; ids are assigned
\* again if the file was of schema 1.0.
Repair(c, s, order) ==
  /\ current[s] # None
  /\ LET m == current[s].meeting IN
       /\ WriteSignalFile(c, m, IF files[m].schema = "1.0" THEN Assigned(Said(files[m]), order)
                                                           ELSE files[m].signals)
       /\ draft' = [meeting |-> m, said |-> Said(files[m])]

\* The record with the manifest of the file just written.
AppendRecord(c) ==
  /\ Step(c, "written", "idle")
  /\ lock' = None /\ draft' = None
  /\ current' = [current EXCEPT ![draft.meeting[1]] =
                   [meeting |-> draft.meeting, made |-> files[draft.meeting].made]]
  /\ UNCHANGED <<files, suppressed, budget>>

\* A kill, or an append that fails, leaves the file without its record.
Kill(c) ==
  /\ kills < MaxKills /\ kills' = kills + 1
  /\ Step(c, "written", "dead")
  /\ draft' = None
  /\ UNCHANGED <<project, lock, runs, reviews>>

\* A person removes the lock file of a command that is gone.
RemoveStaleLock(c) ==
  /\ Step(c, "dead", "idle")
  /\ lock' = None
  /\ UNCHANGED <<project, draft, budget>>

\* One line of the review ledger; the lock is taken and released around it.
Review(c) ==
  /\ reviews < MaxReviews /\ reviews' = reviews + 1
  /\ Step(c, "admitted", "idle")
  /\ lock = None
  /\ UNCHANGED <<files, current, lock, draft, runs, kills>>

\* suppress-signal, of a signal that some file shows.  Of the event only ref
\* and match are stored; the rest remembers what the reviewer was looking at.
Suppress(c, seen) ==
  /\ seen.ref \notin Suppressed
  /\ Review(c)
  /\ suppressed' = suppressed \cup
       {[ref |-> seen.ref, match |-> SuppressionMatch(seen), obs |-> seen.obs,
         filed |-> /\ seen.schema # "1.0"
                   /\ \E s \in Source : current[s] # None /\ current[s].meeting = seen.meeting]}

Unsuppress(c, p) ==
  /\ Review(c)
  /\ suppressed' = suppressed \ {p}

Next ==
  \E c \in Command :
    \/ Start(c) \/ GiveUp(c) \/ AppendRecord(c) \/ Kill(c) \/ RemoveStaleLock(c)
    \/ \E m \in Meeting, answer \in SUBSET Observation :
         \E order \in Order(answer) : WriteAnswer(c, m, answer, order)
    \/ \E s \in Source :
         \E order \in Order(IF current[s] = None THEN {} ELSE Said(FileOf(s))) :
           Repair(c, s, order)
    \/ \E seen \in Observed : Suppress(c, seen)
    \/ \E p \in suppressed : Unsuppress(c, p)

Spec == Init /\ [][Next]_vars

-----------------------------------------------------------------------------
(* Properties.                                                             *)

TypeOK ==
  /\ files \in [Meeting -> File \cup {None}]
  /\ current \in [Source -> Manifest \cup {None}]
  /\ \A s \in Source : current[s] # None => current[s].meeting[1] = s /\ FileOf(s) # None
  /\ \A p \in suppressed : p.ref \in Source \X Id /\ p.obs \in Observation
  /\ lock \in Command \cup {None}
  /\ pc \in [Command -> {"idle", "admitted", "written", "dead"}]
  /\ \A c \in Command : lock = c <=> pc[c] \in {"written", "dead"}
  /\ draft \in Draft \cup {None}
  /\ \A c \in Command : pc[c] = "written" => draft # None /\ files[draft.meeting] # None
  /\ runs \in 0..MaxRuns /\ reviews \in 0..MaxReviews /\ kills \in 0..MaxKills

\* No two signals of a file have one id, however many of them the provider
\* placed at the same locator and in whatever release the file began.
IdsUnique ==
  \A m \in Meeting : files[m] # None =>
    \A x, y \in files[m].signals : x.id = y.id => x = y

\* Giving out ids loses no observation: a file says all that the provider
\* answered, and after a repair all that it said before.
NothingLost == \A c \in Command : pc[c] = "written" => Said(files[draft.meeting]) = draft.said

\* Once a source has its record, its signals keep their ids through every
\* later ingest, repair and kill (those of schema 1.0 aside).
FiledIdsStable ==
  [][\A s \in Source : current[s] # None /\ FileOf(s).schema # "1.0" =>
       files'[current[s].meeting].signals = FileOf(s).signals]_vars

\* A suppression made of a filed signal names the observation that the
\* reviewer saw for as long as it stands: two commands that both found the
\* source without a record do not file one answer over the other.
SuppressionHolds ==
  \A p \in suppressed : p.filed =>
    \E x \in FileOf(p.ref[1]).signals : x.id = p.ref[2] /\ x.obs = p.obs

=============================================================================
