----------------------------- MODULE MCPrjOSReuse ----------------------------
EXTENDS PrjOS
MCOps == [i \in Slots |->
   CASE i = 0 -> {"create", "yield"}
     [] i = 1 -> {"yield", "exit"}
     [] OTHER -> {"yield"}]
MCGenLimit == [i \in Slots |-> 2]
=============================================================================
