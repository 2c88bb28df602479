----------------------------- MODULE MCNameServer -----------------------------
EXTENDS NameServer
MCGenLimit == [i \in Slots |-> 1]
Query(op, n) == [op |-> op, name |-> n, size |-> QueryLen]
MCQueries == [c \in Clients |->
  {Query("REGISTER", "a"), Query("WHOIS", "a")} \cup
  IF c = First
  THEN {Query("REGISTER", "b"), Query("REGISTER", "too long"), Query("INVALID", "a")}
  ELSE {Query("WHOIS", "b"), Query("EXIT", "a"),
        [op |-> "WHOIS", name |-> "a", size |-> PingLen]}]
=============================================================================
