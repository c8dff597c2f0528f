------------------------- MODULE MCAnalyticsWorker --------------------------
(* The two parts of analytics-worker side by side, for TLC. They share no    *)
(* state, and each takes its steps while the other has not begun: the        *)
(* processor next to a group whose first owner is w1, the group next to an   *)
(* idle processor. The group stops when messages and interruptions run out.  *)
EXTENDS ClickProcessor, ClickConsumer

CONSTANTS w1, w2

BothVars == <<vars, groupVars>>

NoGroup == GroupInit /\ owner = w1

MCInit == Init /\ GroupInit

ProcessorSteps == NoGroup /\ Next /\ UNCHANGED groupVars
GroupSteps == Init /\ GroupNext /\ UNCHANGED vars
GroupStops == ~GroupInit /\ UNCHANGED BothVars

\* The fairness of each, as long as it is the one that takes steps.
MCFairSpec ==
    /\ MCInit
    /\ [][ProcessorSteps \/ GroupSteps \/ GroupStops]_BothVars
    /\ WF_vars(NoGroup /\ Process) /\ WF_vars(NoGroup /\ Probe) /\ WF_vars(NoGroup /\ Restart)
    /\ \A w \in Workers : WF_groupVars(Init /\ Loop(w))

=============================================================================
