--------------------------- MODULE PlaybookPromise ---------------------------
(***************************************************************************)
(* What the playbook promises its readers, with no lock, no generations    *)
(* and no failure in sight: there is at most one published playbook; it is *)
(* exchanged as a whole, in one step; and a reader sees the playbook that  *)
(* was published when it looked, to the end of its reading.                *)
(***************************************************************************)
CONSTANTS Reader, Person

VARIABLES
  published,  \* <<the profiles of all people>>, or <<>>
  seen        \* what each reader reads, <<playbook>> or <<>>

vars == <<published, seen>>

Init == published = <<>> /\ seen = [d \in Reader |-> <<>>]

\* A whole playbook says something, if only nothing, of every person.
Publish ==
  /\ published' # <<>> /\ DOMAIN published'[1] = Person
  /\ UNCHANGED seen

Look(d) ==
  /\ seen[d] = <<>> /\ published # <<>>
  /\ seen' = [seen EXCEPT ![d] = published]
  /\ UNCHANGED published

Leave(d) ==
  /\ seen[d] # <<>>
  /\ seen' = [seen EXCEPT ![d] = <<>>]
  /\ UNCHANGED published

Next ==
  \/ Publish
  \/ \E d \in Reader : Look(d) \/ Leave(d)

Spec == Init /\ [][Next]_vars
=============================================================================
