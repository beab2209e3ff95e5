----------------------------- MODULE MCInstaller -----------------------------
(* Installer on small sets for TLC. *)
EXTENDS Installer, TLC

CONSTANTS p1, p2, p3, v1, v2

MCTwo == {p1, p2}
MCThree == {p1, p2, p3}
MCVersions == {v1, v2}
MCSymmetry == Permutations(MCThree) \cup Permutations(MCVersions)
=============================================================================
