------------------------------ MODULE MCPrintf ------------------------------
EXTENDS Printf

Conv(kind, long, width, left, zero, arg) ==
  [kind |-> kind, long |-> long, width |-> width, left |-> left, zero |-> zero, arg |-> arg]

\* Every number in every conversion with every width up to one beyond the longest.
Single ==
  {<<Conv(k, FALSE, w, l, z, a)>> :
     k \in {"d", "u", "x", "s"}, w \in 0 .. 4, l, z \in BOOLEAN, a \in 0 .. 2^5 - 1}
  \cup {<<Conv(k, TRUE, w, l, FALSE, a)>> :
     k \in {"d", "u", "x"}, w \in {0, 5}, l \in BOOLEAN, a \in 0 .. 4^5 - 1}
  \cup {<<Conv("d", TRUE, 5, FALSE, TRUE, a)>> : a \in 0 .. 4^5 - 1}

\* Up to five arguments of every size in every order.
Few == {Conv("d", FALSE, 0, FALSE, FALSE, 5), Conv("u", TRUE, 0, FALSE, FALSE, 69),
        Conv("s", FALSE, 0, FALSE, FALSE, 0)}
Several == UNION {[1 .. n -> Few] : n \in 2 .. 5}

MCFormats == Single \cup Several
=============================================================================
