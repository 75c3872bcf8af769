---------------------------- MODULE MCLanSender ----------------------------
EXTENDS LanSender

\* Two peers; a session with urgent and bulk frames, and frames without one.
MCFrameKinds ==
  { [dst |-> "B", sess |-> "rdp", prio |-> 0, size |-> 1],
    [dst |-> "B", sess |-> "rdp", prio |-> 2, size |-> 2],
    [dst |-> "B", sess |-> "", prio |-> 1, size |-> 1],
    [dst |-> "C", sess |-> "", prio |-> 2, size |-> 2] }
=============================================================================
