------------------------------ MODULE MCKernel ------------------------------
EXTENDS KernelRefinement, PrjOS
MCOps == [i \in Slots |->
   CASE i = 0 -> {"create", "createMicro", "send", "awaitEvent"}
     [] i = 1 -> {"send", "exit", "changePriority", "awaitEvent"}
     [] OTHER -> {"receive", "receiveNonBlock", "reply", "overflow", "yield",
                  "awaitEvent"}]
MCGenLimit == [i \in Slots |-> IF i = 2 THEN 2 ELSE 1]

ASSUME MCPrograms == SlotsRetired /\ PrioritiesExist
=============================================================================
