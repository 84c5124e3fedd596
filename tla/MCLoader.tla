------------------------------- MODULE MCLoader -------------------------------
(* Instances of Loader for TLC.                                               *)
EXTENDS Loader

KindOf == [s1 |-> "Switch", s2 |-> "Switch", o1 |-> "OVS", r1 |-> "Router", r2 |-> "Router",
           m1 |-> "Mach", m2 |-> "Mach", m3 |-> "Mach", m4 |-> "Mach", c1 |-> "Cloud", f1 |-> "Controller"]

If(t, n) == [to |-> t, net |-> n]

(* Two switches of one subnet, and two routers with a machine behind each. *)
Lans == [devices |-> <<"s2", "s1", "m1", "m2", "m3", "m4", "r1", "r2">>,
         ifaces |-> [m1 |-> <<If("s1", "a")>>, m2 |-> <<If("s2", "a")>>,
                     m3 |-> <<If("r1", "c")>>, m4 |-> <<If("r2", "d")>>,
                     r1 |-> <<If("s2", "a"), If("r2", "b"), If("m3", "c")>>,
                     r2 |-> <<If("r1", "b"), If("m4", "d")>>]]

(* An Open vSwitch with a controller, and a cloud.                         *)
Flows == [devices |-> <<"o1", "f1", "m1", "c1", "r1">>,
          ifaces |-> [m1 |-> <<If("o1", "a")>>, c1 |-> <<If("o1", "a")>>,
                      r1 |-> <<If("o1", "a")>>]]

Both == {Lans, Flows}
=============================================================================
