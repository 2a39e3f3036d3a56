-------------------------- MODULE MCDashboardContent --------------------------
(* Instances of DashboardContent for TLC.                                  *)
EXTENDS DashboardContent, TLC

CONSTANTS p1, p2, p3

Symmetry == Permutations(Procs)

\* One handler at a time, with every fault that is not an ignored delete.
SerialKinds  == {"html", "restore", "aiSave", "refresh", "delete"}
SerialFaults == {"upload", "copy", "record", "commit", "lostAck", "crash"}

\* Overlapping writers that all create revisions.
RevisionWriters == {"html", "zip", "restore", "delete"}
RevisionFaults  == {"upload", "copy", "read", "commit", "remove", "crash"}
=============================================================================
