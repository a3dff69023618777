---------------------------- MODULE MCPhaseOrder ----------------------------
\* Plans for PhaseOrder: phases that are independent, in a chain, of an older
\* plan that does not say, some that need a machine, and one that needs the
\* last of these, so that a shorter plan made later does not have its number.
EXTENDS PhaseOrder

Phase(needs)  == [needs |-> needs, tells |-> TRUE, platform |-> FALSE]
Mobile(needs) == [needs |-> needs, tells |-> TRUE, platform |-> TRUE]
Older         == [needs |-> {}, tells |-> FALSE, platform |-> FALSE]
OlderMobile   == [needs |-> {}, tells |-> FALSE, platform |-> TRUE]

AllPlans ==
  {<<Phase({}), Phase({}), Phase({1})>>, <<Older, Phase({}), Phase({})>>,
   <<OlderMobile, OlderMobile, OlderMobile, Phase({3})>>,
   <<Older, Mobile({}), Phase({2})>>}
=============================================================================
