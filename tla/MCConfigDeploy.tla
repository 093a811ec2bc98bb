--------------------------- MODULE MCConfigDeploy ---------------------------
(* ConfigDeploy for TLC: the slots of the daemon's tasks are interchangeable. *)
EXTENDS ConfigDeploy, TLC

SlotSymmetry == Permutations(Slots)

=============================================================================
