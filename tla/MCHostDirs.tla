---------------------------- MODULE MCHostDirs -----------------------------
(* HostDirs with entries that can be exchanged for each other if their    *)
(* names can be told to the guest.                                        *)
EXTENDS HostDirs, TLC

EntrySymmetry == Permutations(Nameable)
=============================================================================
