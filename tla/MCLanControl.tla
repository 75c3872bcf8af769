--------------------------- MODULE MCLanControl ---------------------------
(* LanControl for TLC: two devices of the same name, a default network with *)
(* two host addresses and a network of another CIDR.                        *)
EXTENDS LanControl

CONSTANTS a, b, g

MCDefault == [lo |-> 1, hi |-> 4]
MCCIDRs == {MCDefault, [lo |-> 5, hi |-> 7]}
MCNames == [d \in Devices |-> "office"]
MCRuleEnds == {<<a, g>>, <<g, Anyone>>}
MCPatched == {[ip |-> 2, host |-> NoHost], [ip |-> 3, host |-> "office"],
              [ip |-> 4, host |-> a]}

Mix(ops, on, reports, n) == [ops |-> ops, on |-> on, reports |-> reports, late |-> n]

MCMixes == {
  Mix({"release", "reassign"}, {a}, {}, 2),
  Mix({"release", "timeout"}, Devices, {}, 2),
  Mix({"reassign", "timeout"}, Devices, {}, 1),
  Mix({"touch", "patch address"}, Devices, {}, 1),
  Mix({"touch", "patch address", "release"}, {a}, {}, 3),
  Mix({"network", "delete network", "patch address"}, {a}, {}, 3),
  Mix({"network", "delete network", "touch", "patch address"}, {a}, {}, 2),
  Mix({"restart", "fault"}, Devices, {}, 0),
  Mix({"restart", "timeout", "refresh"}, {a}, {a}, 2),
  Mix({"release", "refresh"}, Devices, {a}, 1),
  Mix({"group", "rule", "refresh"}, {a}, {a}, 3),
  Mix({"route", "rule", "refresh"}, {a}, {a}, 2),
  Mix({"status", "preheat", "timeout"}, {a}, {a}, 2),
  Mix({"status", "fault"}, {a}, {a}, 0)}

MCPreheat == {Mix({"status", "preheat"}, {a}, {a}, 1)}
=============================================================================
