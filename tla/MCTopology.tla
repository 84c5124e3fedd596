----------------------------- MODULE MCTopology -----------------------------
(* Instances of TopologyCompiler for TLC.                                     *)
EXTENDS TopologyCompiler

CONSTANTS m1, m2, r1, r2, r3, r4, s1, s2, n1, n2, n3, n4

TypeOfName == [d \in Nodes |->
    CASE d = m1 -> "Mach" [] d = m2 -> "Cloud" [] d \in {r1, r2, r3, r4} -> "Router"
      [] d = s1 -> "Switch" [] d = s2 -> "OVSwitch" [] OTHER -> "Subnet"]

Empty == [devices |-> <<>>, edges |-> <<>>]
Chain == [devices |-> <<m1, n1, r1, n2, r2, s1, n3, r3>>,
          edges |-> <<<<m1, n1>>, <<n1, r1>>, <<r1, n2>>, <<n2, s1>>, <<s1, r2>>,
                      <<r2, n3>>, <<n3, r3>>>>]
Ring == [devices |-> <<n1, r1, n2, r2, r3, n3>>,
         edges |-> <<<<r1, n1>>, <<n1, r2>>, <<r2, n2>>, <<r3, n2>>, <<n3, r3>>>>]
Lans == [devices |-> <<m1, s1, n1, r1, n2, r2, s2, m2>>,
         edges |-> <<<<m1, s1>>, <<s1, n1>>, <<n1, r1>>, <<r1, n2>>, <<n2, r2>>, <<s1, s2>>, <<m2, s2>>>>]
Far == [devices |-> <<r1, n1, s1, r2, n2, r3, n3, r4, m1>>,
        edges |-> <<<<r1, n1>>, <<n1, s1>>, <<s1, r2>>, <<s1, m1>>, <<r2, n2>>, <<n2, r3>>, <<r3, n3>>, <<n3, r4>>>>]
Star == [devices |-> <<r1, n1, s1, r2, n2, r3, n3, r4, n4>>,
        edges |-> <<<<r1, n1>>, <<n1, s1>>, <<s1, r2>>, <<n2, r2>>, <<n2, r3>>, <<r2, n3>>, <<n3, r4>>>>]
Files == {Empty, Chain, Ring, Lans, Far, Star}
=============================================================================
