------------------------------ MODULE AppendLog ------------------------------
(***************************************************************************)
(* A JSON Lines file that is only ever appended to, as the derivation      *)
(* ledger (playbook.py) and the review ledger (playbook_review.py) are:    *)
(* opened with "a", one write of a record and its newline, one flush.      *)
(*                                                                         *)
(* A kill or a full disk can leave any part of the record behind.  A line  *)
(* without its newline is continued by the next append, and two objects on *)
(* one line are not JSON any more.                                         *)
(***************************************************************************)
EXTENDS Sequences, Naturals

CONSTANT Garbled  \* a line that json.loads refuses

Line(Record) == [record : Record \cup {Garbled}, ended : BOOLEAN]

Log(Record) == Seq(Line(Record))

\* Does the next append begin a line of its own?
Ended(log) == log = <<>> \/ log[Len(log)].ended

\* What an append of record leaves, its newline written or not.
Put(log, record, ended) ==
  IF Ended(log)
    THEN Append(log, [record |-> record, ended |-> ended])
    ELSE [log EXCEPT ![Len(log)] = [record |-> Garbled, ended |-> ended]]

Written(log, record) == Put(log, record, TRUE)

\* An append that was cut short: nothing, some, or all but the newline.
CutShort(log, record) == {log, Put(log, Garbled, FALSE), Put(log, record, FALSE)}

\* The lines a reader accepts, by their place; the others are issues.
Whole(log) == {i \in 1..Len(log) : log[i].record # Garbled}

Malformed(log) == \E i \in 1..Len(log) : log[i].record = Garbled
=============================================================================
