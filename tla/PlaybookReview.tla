--------------------------- MODULE PlaybookReview ---------------------------
(***************************************************************************)
(* Review events and what they fold to (playbook_review.py), and the       *)
(* derivation of stakeholder profiles from signals, registry and reviews   *)
(* (playbook.py), as functions of the files they read.                     *)
(*                                                                         *)
(* Every signal has an entry of its own, as asks, commitments and          *)
(* rationales have; an entry goes by the name of its signal.  Only asks    *)
(* and commitments are tracked to a resolution.                            *)
(***************************************************************************)
EXTENDS AppendLog

CONSTANTS
  Person,   \* stakeholders that a registry may review
  Signal,   \* observations in the signal files
  Tracked,  \* those of them that are asks or commitments
  Owner,    \* the person whom a signal names
  Source,   \* the source that a signal comes from
  Match,    \* what suppression_match takes of a signal
  None      \* nothing there; as a registry: one that cannot be read

ASSUME TrackedAssumption == Tracked \subseteq Signal

Registry == (SUBSET Person) \cup {None}

Action == {"reject_entry", "restore_entry", "resolve_tracked_item",
           "suppress_signal", "unsuppress_signal"}

Resolution == {"explicitly_outstanding", "resolved", "withdrawn", "superseded"}

\* A command asks for a review; the event adds the match it found.
Review == [action : Action, target : Signal, state : Resolution \cup {None}]

Event == [review : Review, matched : BOOLEAN]

-----------------------------------------------------------------------------
(* read_review_state.                                                      *)

NoReviews == [entry |-> [s \in Signal |-> "unreviewed"],
              resolution |-> [s \in Signal |-> None],
              suppressed |-> {},
              matched |-> {}]

\* Mutant: a suppression is never taken back.
FoldKeepsSuppressed(state, event) ==
  LET r == event.review IN
  CASE r.action = "reject_entry"  -> [state EXCEPT !.entry[r.target] = "rejected"]
    [] r.action = "restore_entry" -> [state EXCEPT !.entry[r.target] = "restored"]
    [] r.action = "resolve_tracked_item" ->
         [state EXCEPT !.resolution[r.target] = r.state]
    [] r.action = "suppress_signal" ->
         [state EXCEPT !.suppressed = @ \cup {r.target},
                       !.matched = IF event.matched THEN @ \cup {r.target} ELSE @]
    [] r.action = "unsuppress_signal" ->
         [state EXCEPT !.matched = @ \ {r.target}]

\* _fold_event.
Fold(state, event) ==
  LET r == event.review IN
  CASE r.action = "reject_entry"  -> [state EXCEPT !.entry[r.target] = "rejected"]
    [] r.action = "restore_entry" -> [state EXCEPT !.entry[r.target] = "restored"]
    [] r.action = "resolve_tracked_item" ->
         [state EXCEPT !.resolution[r.target] = r.state]
    [] r.action = "suppress_signal" ->
         [state EXCEPT !.suppressed = @ \cup {r.target},
                       !.matched = IF event.matched THEN @ \cup {r.target} ELSE @]
    [] r.action = "unsuppress_signal" ->
         [state EXCEPT !.suppressed = @ \ {r.target}, !.matched = @ \ {r.target}]

\* Lines that are not valid events are skipped.
ReadReview(state, line) ==
  IF line.record = Garbled THEN state ELSE Fold(state, line.record)

Reviews(overrides) ==
  LET read[n \in 0..Len(overrides)] ==
        IF n = 0 THEN NoReviews ELSE ReadReview(read[n - 1], overrides[n])
  IN  read[Len(overrides)]

\* _is_no_op.
NoOp(state, r) ==
  CASE r.action = "reject_entry"         -> state.entry[r.target] = "rejected"
    [] r.action = "restore_entry"        -> state.entry[r.target] # "rejected"
    [] r.action = "resolve_tracked_item" -> state.resolution[r.target] = r.state
    [] r.action = "suppress_signal"      -> r.target \in state.suppressed
    [] r.action = "unsuppress_signal"    -> r.target \notin state.suppressed

-----------------------------------------------------------------------------
(* The derivation.                                                         *)

\* What a derivation reads: the reviewed people, the signals, the reviews.
Inputs == [registry : Registry, signals : SUBSET Signal, overrides : Log(Event)]

\* The entries of every reviewed person, from signals that are not suppressed.
Profiles(registry, signals, overrides) ==
  LET state == Reviews(overrides) IN
  [p \in Person |->
     {[signal |-> s, review |-> state.entry[s],
       resolution |-> IF s \in Tracked THEN state.resolution[s] ELSE None] :
        s \in {t \in signals \ state.suppressed : p \in registry /\ Owner[t] = p}}]

\* Only people with entries get a profile.
People(profiles) == {p \in Person : profiles[p] # {}}

\* The signals that a set of profiles cites.
Cited(profiles) == {e.signal : e \in UNION {profiles[p] : p \in Person}}

\* _suppression_reemergence_issues: a signal that is not suppressed matches
\* one that is.  The match was stored with the event, or an older generation
\* still shows it.
Reemerged(signals, overrides, history) ==
  LET state == Reviews(overrides) IN
  \E s \in state.suppressed, t \in signals \ state.suppressed :
    /\ s \in state.matched \/ s \in history
    /\ Source[s] = Source[t] /\ Match[s] = Match[t]
=============================================================================
