-------------------------- MODULE StoreAndForward --------------------------
(***************************************************************************)
(* What the edge gateway promises for the messages it has cached: each one *)
(* reaches the upstream broker, for the first time, in the order in which  *)
(* it was cached.  Repeats are allowed and do not show here.               *)
(***************************************************************************)
EXTENDS Integers

VARIABLES
    cached,     \* how many messages have been cached
    forwarded   \* which of them upstream has received at least once

vars == <<cached, forwarded>>

Init == cached = 0 /\ forwarded = {}

Cache == cached' = cached + 1 /\ UNCHANGED forwarded

\* The oldest message upstream has not seen yet arrives there.
Forward ==
    /\ \E i \in 1 .. cached : /\ i \notin forwarded
                              /\ 1 .. (i - 1) \subseteq forwarded
                              /\ forwarded' = forwarded \cup {i}
    /\ UNCHANGED cached

Next == Cache \/ Forward

SafeSpec == Init /\ [][Next]_vars

Spec == SafeSpec /\ WF_vars(Forward)
=============================================================================
