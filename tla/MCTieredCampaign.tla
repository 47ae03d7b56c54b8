---------------------------- MODULE MCTieredCampaign ----------------------------
(***************************************************************************)
(* The instance of TieredCampaign that TLC checks.  An approval commutes   *)
(* with every step but those of the gate, and a late record of an arm with *)
(* every step but its selection: both are explored only there, a record    *)
(* that is late for a first launch being one that its search returned with.*)
(* A first launch only skips the gate or pipelines its blocks.  There is a *)
(* third launch only for a spent approval that is still there.             *)
(***************************************************************************)
EXTENDS TieredCampaign, TLC

Symmetry == Permutations(Rewards)

WhereItMatters ==
    /\ grants' # grants => pc \in {"read", "report", "decide"}
    /\ drift' # drift => launches = 2 /\ \A a \in Arms : best'[a] # best[a] => arm[a] = "select"
    /\ ~gated' \/ pipelined' => launches' = 1
    /\ launches' = 3 => passages > 0 /\ (launches = 2 => approval # "absent")
================================================================================
