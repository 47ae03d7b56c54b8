----------------------------- MODULE MCCampaignPull -----------------------------
(***************************************************************************)
(* The instances of CampaignPull that TLC checks.  Most of the properties  *)
(* are temporal: in place of a symmetry the tasks die in one order, the    *)
(* first on one host.  Of the rows that do not count for a burst (our own, *)
(* undated, or at the walltime) there is one at a time, besides the others.*)
(***************************************************************************)
EXTENDS CampaignPull

FirstHost == CHOOSE h \in Hosts : TRUE
ShortRun  == CHOOSE s \in RunSecs : \A t \in RunSecs : s <= t

InOrder ==
    /\ {r.task : r \in rows'} = 1..Cardinality(rows')
    /\ \A r \in rows' : r.task = 1 => r.host = FirstHost
    /\ Cardinality({r \in rows' : r.own}) + Cardinality({r \in rows' : ~r.dated})
          + Cardinality({r \in rows' : r.secs # ShortRun}) <= 1
================================================================================
