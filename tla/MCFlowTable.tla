----------------------------- MODULE MCFlowTable -----------------------------
(***************************************************************************)
(* Instances of FlowTable for TLC: two ports, IPv4 and other frames, two   *)
(* transport protocols.                                                    *)
(***************************************************************************)
EXTENDS FlowTable

CONSTANTS p1, p2, ip, other, tcp, udp

M(port, type, proto) == [in_port |-> port, dl_type |-> type, nw_proto |-> proto]

FlowMod(c, m, prio, flags, idle, hard, outs, bad, out) ==
    [command |-> c, match |-> m, priority |-> prio, flags |-> flags,
     idle_timeout |-> idle, hard_timeout |-> hard, outs |-> outs,
     invalid |-> bad, out_port |-> out]

(* Flows for all IP packets, for TCP, for all of a port and for one        *)
(* connection; with timeouts, with notices; refused ones; and queries that *)
(* match some or all of them.                                              *)
Mods ==
    LET Rem == {"SEND_FLOW_REM"}
        Chk == {"CHECK_OVERLAP"}
    IN {FlowMod("ADD", M(Any, ip, Any), 1, Rem, 0, 1, {p1}, FALSE, NoPort),
        FlowMod("ADD", M(Any, ip, tcp), 256, Chk, 1, 0, {p2}, FALSE, NoPort),
        FlowMod("ADD", M(p1, ip, tcp), 1, Rem \cup Chk, 1, 1, {p2}, FALSE, NoPort),
        FlowMod("ADD", M(Any, other, udp), 1, Chk, 0, 0, {}, FALSE, NoPort),
        FlowMod("ADD", M(Any, ip, tcp), 256, {}, 0, 0, {p2}, TRUE, NoPort),
        FlowMod("MODIFY", M(Any, ip, Any), 256, Rem, 1, 0, {p2}, FALSE, NoPort),
        FlowMod("MODIFY", M(Any, ip, tcp), 1, {}, 0, 0, {p2}, TRUE, NoPort),
        FlowMod("MODIFY_STRICT", M(p1, ip, tcp), 1, Rem, 0, 1, {p1}, FALSE, NoPort),
        FlowMod("DELETE", M(Any, ip, tcp), 0, {}, 0, 0, {}, FALSE, NoPort),
        FlowMod("DELETE", M(Any, Any, Any), 0, {}, 0, 0, {}, FALSE, p2),
        FlowMod("DELETE_STRICT", M(Any, Any, Any), 0, {}, 0, 0, {}, FALSE, NoPort),
        FlowMod("unknown", M(Any, Any, Any), 0, {}, 0, 0, {}, FALSE, NoPort)}
=============================================================================
