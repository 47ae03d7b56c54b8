----------------------------- MODULE WinnerPromise -----------------------------
(***************************************************************************)
(* What a campaign promises about an arm's winner, with no searches, gates *)
(* or crashes: a reward is chosen once, and whatever is trained for the    *)
(* sealed test of the arm, at any time, is trained on that reward.         *)
(***************************************************************************)
CONSTANTS Arms, Rewards

VARIABLES
    chosen,       \* chosen[a]: the rewards ever chosen for arm a
    trained       \* trained[a]: the rewards that test records of a carry

vars == <<chosen, trained>>

Init ==
    /\ chosen = [a \in Arms |-> {}]
    /\ trained = [a \in Arms |-> {}]

Choose(a, r) ==
    /\ chosen[a] = {}
    /\ chosen' = [chosen EXCEPT ![a] = {r}]
    /\ UNCHANGED trained

\* Some arms train, each on what was chosen for it.
Train(S) ==
    /\ trained' = [a \in Arms |-> IF a \in S THEN trained[a] \cup chosen[a]
                                             ELSE trained[a]]
    /\ UNCHANGED chosen

Next == (\E a \in Arms, r \in Rewards : Choose(a, r)) \/ \E S \in SUBSET Arms : Train(S)

Spec == Init /\ [][Next]_vars
================================================================================
