---------------------------- MODULE MCLanRelay ----------------------------
(***************************************************************************)
(* An instance of LanRelay: two peers, an address that moves from one to   *)
(* the other, rules in both orders with ranges given by one or both ends.  *)
(***************************************************************************)
EXTENDS LanRelay, TLC

CONSTANTS devA, devB, devC, noDev

MCPeers == {devB, devC}

Rule(action, dst, proto, from, to) ==
  [enabled |-> TRUE, action |-> action, src |-> noDev, dst |-> dst,
   proto |-> proto, from |-> from, to |-> to]

MCConfigs ==
  << [routes |-> (1 :> devB) @@ (2 :> noDev),
      acl |-> <<Rule("deny", devB, "tcp", 22, 0), Rule("allow", noDev, "any", 0, 0)>>],
     [routes |-> (1 :> devC) @@ (2 :> devB),
      acl |-> <<Rule("allow", noDev, "any", 0, 0), Rule("deny", devC, "any", 0, 22)>>] >>

MCPackets ==
  {[ip |-> 1, proto |-> "tcp", port |-> 22], [ip |-> 1, proto |-> "icmp", port |-> 0],
   [ip |-> 2, proto |-> "tcp", port |-> 22]}
=============================================================================
