--------------------------- MODULE ReleasePromise ---------------------------
(***************************************************************************)
(* What the release machinery promises, with no store, lock, tool or file  *)
(* in sight: a release is approved once for its build and stays what it    *)
(* is; what was published stays published; and each consumer root selects, *)
(* in one step, a release, or none.                                        *)
(***************************************************************************)
CONSTANTS Receipt, BuildOf, Root, None, First

VARIABLES
  released,   \* receipts of all releases
  published,  \* those that the channel lists
  latest,     \* the one that consumers move to
  selected    \* the release of each root

vars == <<released, published, latest, selected>>

Init ==
  /\ latest = First /\ published = {First} \ {None} /\ released = published
  /\ selected = [x \in Root |-> None]

Release(r) ==
  /\ \A q \in released : BuildOf[q] # BuildOf[r]
  /\ released' = released \cup {r}
  /\ UNCHANGED <<published, latest, selected>>

Publish(r) ==
  /\ r \in released
  /\ published' = published \cup {r} /\ latest' = r
  /\ UNCHANGED <<released, selected>>

Choose(x, r) ==
  /\ r \in released
  /\ selected' = [selected EXCEPT ![x] = r]
  /\ UNCHANGED <<released, published, latest>>

Withdraw(x) ==
  /\ selected' = [selected EXCEPT ![x] = None]
  /\ UNCHANGED <<released, published, latest>>

Next ==
  \/ \E r \in Receipt : Release(r) \/ Publish(r)
  \/ \E x \in Root : Withdraw(x) \/ \E r \in Receipt : Choose(x, r)

Spec == Init /\ [][Next]_vars
=============================================================================
