---------------------------- MODULE JointPublish ----------------------------
(***************************************************************************)
(* What a joint deployment promises (the comment on deploy_together in     *)
(* crates/deploy/src/deploy/recovery.rs): a deployment is requested for    *)
(* some roots and, if it is ever published, it is published in all of them *)
(* at one instant.  Nothing published is ever withdrawn.                   *)
(***************************************************************************)
CONSTANTS Ids, Roots

VARIABLES requested, \* requested[i]: the roots deployment i is for
          published  \* published[r]: the deployments root r holds

Init ==
    /\ requested = [i \in Ids |-> {}]
    /\ published = [r \in Roots |-> {}]

Request(i, rs) ==
    /\ requested[i] = {}
    /\ requested' = [requested EXCEPT ![i] = rs]
    /\ UNCHANGED published

Publish(i) ==
    /\ published' = [r \in Roots |-> IF r \in requested[i]
                                     THEN published[r] \cup {i} ELSE published[r]]
    /\ UNCHANGED requested

Next == \E i \in Ids : Publish(i) \/ \E rs \in SUBSET Roots : Request(i, rs)

Spec == Init /\ [][Next]_<<requested, published>>
=============================================================================
