---------------------------- MODULE MCCommandLine ----------------------------
EXTENDS CommandLine
MCGenLimit == [i \in Slots |-> 1]
=============================================================================
