------------------------- MODULE MCForwardControl -------------------------
(* ForwardControl for TLC: two devices, two ports. *)
EXTENDS ForwardControl

CONSTANTS a, b

Rule(src, dst, port, enabled) ==
  [id |-> 0, src |-> src, dst |-> dst, port |-> port, enabled |-> enabled]

Mix(ops, rs, known, on, boot, n, k, f) ==
  [ops |-> ops, rules |-> rs, known |-> known, on |-> on, boot |-> boot,
   admin |-> n, reports |-> k, faults |-> f]

One == {Rule(a, b, 80, TRUE)}
Two == One \cup {Rule(a, b, 81, TRUE)}
Off == One \cup {Rule(a, b, 80, FALSE)}
Back == One \cup {Rule(b, a, 80, TRUE)}

MCMixes == {
  Mix({"create", "update"}, Two, Devices, {}, {}, 3, 0, 0),
  Mix({"create", "update", "delete rule"}, Off, Devices, {}, {}, 3, 0, 0),
  Mix({"create", "delete device", "lan"}, Off, Devices, {}, {}, 3, 0, 0),
  Mix({"create", "update", "delete device", "lan"}, Off, Devices, {}, {}, 2, 0, 0),
  Mix({"create", "enable"}, One, Devices, {}, {}, 3, 0, 1),
  Mix({"create", "update"}, Two, Devices, {a}, {}, 2, 0, 0),
  Mix({"create", "delete rule"}, One, Devices, {a}, {}, 2, 1, 0),
  Mix({"create", "udp"}, One, Devices, {a}, {}, 1, 3, 1),
  Mix({"create", "enable", "udp"}, One, Devices, {a}, {}, 2, 1, 0),
  Mix({"create", "stop"}, One, {b}, {}, {a}, 2, 1, 0),
  Mix({"create", "stop"}, One, {b}, {}, {a}, 1, 1, 1),
  Mix({"create", "udp"}, Back, Devices, Devices, {}, 1, 1, 0)}
=============================================================================
