-------------------------- MODULE DiscoveryPromise --------------------------
(***************************************************************************)
(* What a prospecting run promises to whoever reads its results, whatever  *)
(* the workers, the queue and the crashes do in between:                   *)
(*   - a business is attributed to the run once, for good, and to a cell   *)
(*     that really lists it within the page limit;                         *)
(*   - the run is declared COMPLETED only when every page it had to read   *)
(*     is attributed, or the business limit of the run was reached.        *)
(***************************************************************************)
EXTENDS Naturals, FiniteSets, Sequences

CONSTANTS Cells, Businesses, Listing, MaxPages, MaxBusinesses

VARIABLES
  found,     \* the attributions, [business, cell]
  outcome    \* the status of the run

Attributed == {f.business : f \in found}
Wanted(c)  == UNION {Listing[c][p] : p \in {q \in DOMAIN Listing[c] : q <= MaxPages}}

Init == found = {} /\ outcome = "QUEUED"

Attribute(b, c) ==
  /\ b \in Wanted(c) \ Attributed
  /\ found' = found \union {[business |-> b, cell |-> c]}
  /\ UNCHANGED outcome

Complete ==
  /\ \/ \A c \in Cells : Wanted(c) \subseteq Attributed
     \/ Cardinality(found) >= MaxBusinesses
  /\ outcome' = "COMPLETED"
  /\ UNCHANGED found

Reopen ==
  /\ outcome' \in {"RUNNING", "RECOVERING", "FAILED", "CANCELLED"}
  /\ UNCHANGED found

Next == Complete \/ Reopen \/ \E b \in Businesses, c \in Cells : Attribute(b, c)

Spec == Init /\ [][Next]_<<found, outcome>>
=============================================================================
