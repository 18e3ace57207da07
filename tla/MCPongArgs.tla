----------------------------- MODULE MCPongArgs -----------------------------
EXTENDS PongArgs

\* Option arguments: "", "x", 0, 1, -1, "k" alone (0 after the strip),
\* "100k" (the throughput default written with a prefix), "3G" and "5G".
MCStrs ==
    {[kind |-> "empty", num |-> 0, suffix |-> ""],
     [kind |-> "junk", num |-> 0, suffix |-> ""]}
    \cup {[kind |-> "int", num |-> n, suffix |-> ""] : n \in {-1, 0, 1}}
    \cup {[kind |-> "int", num |-> 0, suffix |-> "k"],
          [kind |-> "int", num |-> 100, suffix |-> "k"],
          [kind |-> "int", num |-> 3, suffix |-> "G"],
          [kind |-> "int", num |-> 5, suffix |-> "G"]}

\* Mul32 against the integers' product wherever that is an int, and
\* against the wrapped products of the prefixes worked out by hand.
Mul32Correct ==
    /\ \A a \in -300 .. 300, b \in {0, 1, 7, 1000, 1000000, 1000000000} :
         (b = 0 \/ (a <= INT_MAX \div b /\ -a <= INT_MAX \div b))
           => Mul32(a, b) = a * b /\ Mul32(b, a) = a * b
    /\ Mul32(5, 1000000000) = 705032704
    /\ Mul32(3, 1000000000) = -1294967296
    /\ Mul32(-3, 1000000000) = 1294967296
    /\ Mul32(65536, 65536) = 0
ASSUME Mul32Correct
=============================================================================
