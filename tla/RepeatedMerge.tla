--------------------------- MODULE RepeatedMerge ----------------------------
(***************************************************************************)
(* Two calls of supplemental::apply: the second on the same request with   *)
(* its policies listed in reverse.                                         *)
(***************************************************************************)
EXTENDS SupplementalMerge

VARIABLE earlier   \* the diagnostics of the first call, None during it

NewInit == Init /\ earlier = None

CallAgain ==
  /\ pc = "done"
  /\ earlier = None
  /\ earlier' = diagnostics
  /\ request' = [request EXCEPT !.policies =
                   [n \in DOMAIN @ |-> @[Len(@) + 1 - n]]]
  /\ pc' = "sort"
  /\ policies' = <<>>
  /\ policy_index' = 1
  /\ owner' = 0
  /\ reel_index' = 1
  /\ override_decisions' = [key \in OverrideKeys |-> None]
  /\ diagnostics' = {}
  /\ graph' = None

NewNext == (Next /\ UNCHANGED earlier) \/ CallAgain

NewSpec == NewInit /\ [][NewNext]_<<vars, earlier>> /\ WF_<<vars, earlier>>(NewNext)

\* docs/IMPLEMENT.md: the policies are sorted so that a merge does not depend on
\* the order of the input array. The diagnostics are part of its output.
OrderDoesNotMatter == (pc = "done" /\ earlier # None) => diagnostics = earlier
=============================================================================
