------------------------------ MODULE MCIndex ------------------------------
(* Bounds for Index and IndexDrain.  A behaviour is either one of the       *)
(* commands alone, with more ids and label sets and failovers at any time,  *)
(* or one of the commands beside the drain thread, with fewer.              *)
EXTENDS IndexDrain

CONSTANT DrainIds       \* the ids handed out beside the drain

VARIABLE draining

MCDbs == {0, 1}
MCInputLabels == {{}, {1}, {1, 2}}

FewIds == next_id <= DrainIds + 1
FullLabels == \A db \in Dbs, k \in Keys : Holds(db, k) => keyspace[db][k].labels = Labels
EarlyFailover == replica' # replica => next_id = 1

MCInit == DrainInit /\ draining \in BOOLEAN
Beside(A) == draining /\ A /\ UNCHANGED draining
MCNext ==
    \/ /\ ~draining /\ Next
       /\ UNCHANGED <<drain, context_db, torn, draining>>
    \/ Beside(DrainNext) /\ FewIds' /\ FullLabels' /\ EarlyFailover

MCSpec ==
    /\ MCInit /\ [][MCNext]_<<dvars, draining>>
    /\ WF_<<dvars, draining>>(Beside(DrainStart)) /\ WF_<<dvars, draining>>(Beside(DrainBatch))

(* StaleIdsLeavePostings, of the behaviours that have a drain thread.       *)
StaleIdsLeave == draining => StaleIdsLeavePostings
============================================================================
