---------------------------- MODULE AtLeastOnce ----------------------------
(***************************************************************************)
(* What a queue promises of its jobs, whatever fails on the way: a job     *)
(* that was asked for is settled (done or given up after its attempts),    *)
(* once and for good, and nothing is settled that was not asked for.       *)
(***************************************************************************)
CONSTANT Jobs

VARIABLES asked, settled

Init == asked = {} /\ settled = {}

Ask == \E j \in Jobs \ asked : asked' = asked \cup {j} /\ UNCHANGED settled

\* One job ends, or a stop ends the last tries of several.
Settle ==
    /\ settled \subseteq settled' /\ settled' \subseteq asked
    /\ UNCHANGED asked

Next == Ask \/ Settle

Spec ==
    /\ Init
    /\ [][Next]_<<asked, settled>>
    /\ \A j \in Jobs : j \in asked ~> j \in settled
=============================================================================
