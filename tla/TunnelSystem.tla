---------------------------- MODULE TunnelSystem ----------------------------
(***************************************************************************)
(* What the executor may rely on when it calls the tunnel of a platform    *)
(* (the System interface of executor.go): an answer is true of the machine  *)
(* when it is given.  Between two answers the tunnel may be in any state,   *)
(* and a failed call promises nothing.                                      *)
(***************************************************************************)
CONSTANTS Plans, Nothing, Rest

VARIABLES
    tunnel,  \* a plan that is fully in force, Nothing of ours, or a Rest
    answer   \* of the last call: a plan applied or read back, Nothing (disabled),
             \* an "empty" readback, an "error", or "none" while a call runs

Init == tunnel = Nothing /\ answer = Nothing

Working == answer' = "none" /\ tunnel' \in Plans \cup {Nothing, Rest}

Answer ==
    \/ answer' = "error" /\ tunnel' \in Plans \cup {Nothing, Rest}
    \/ answer' = "empty" /\ tunnel' = Nothing
    \/ answer' = tunnel' /\ answer' \in Plans \cup {Nothing}

\* From outside a tunnel is taken apart or repaired, but what was disabled
\* stays down until the next call.
Outside == /\ UNCHANGED answer
           /\ tunnel' \in Plans \cup {Nothing, Rest}
           /\ answer = Nothing => tunnel' = Nothing

Next == Working \/ Answer \/ Outside

Spec == Init /\ [][Next]_<<tunnel, answer>>
=============================================================================
