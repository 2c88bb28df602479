---------------------------- MODULE MCContextSwitch ----------------------------
EXTENDS ContextSwitch, TLC

\* Task 0 may push what fits below its frame; task 1, with a floating-point
\* frame, nothing; task 2, on the lowest stack, one cell more than fits.
MCDepth == 0 :> 1 @@ 1 :> 0 @@ 2 :> 1

\* The programs keep to what the theorems ask of them.
ASSUME MCPrograms == StacksFit /\ FloatsStay /\ FloatsCallShort

\* Two tasks that have room for a parameter and a floating-point frame.
MCOneEach == [t \in Slots |-> 1]
===============================================================================
