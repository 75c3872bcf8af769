--------------------------- MODULE MCRendezvous ---------------------------
EXTENDS Rendezvous

Slot(table, from, want) ==
  [table |-> table, from |-> from, want |-> want, profile |-> "p"]

\* Two agents, one with a second socket for its slot.
AgentSlots == {Slot("agent", "A", "B"), Slot("agent", "B", "A")}
AgentSockets == [s \in AgentSlots |-> IF s.from = "A" THEN {"a1", "a2"} ELSE {"b1"}]

\* A LAN device with two peers and one socket for both.
LANSlots == {Slot("lan", "A", "B"), Slot("lan", "B", "A"),
             Slot("lan", "A", "C"), Slot("lan", "C", "A")}
LANSockets ==
  [s \in LANSlots |-> CASE s.from = "A" -> {"a1"}
                        [] s.from = "B" -> {"b1"}
                        [] OTHER -> {"c1"}]
=============================================================================
