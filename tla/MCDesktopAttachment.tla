------------------------- MODULE MCDesktopAttachment -------------------------
(* Small instances of DesktopAttachment for TLC. *)
EXTENDS DesktopAttachment, TLC

CONSTANTS t1

\* Every steer is meant for one turn.
OneAim == [c \in Steers |-> t1]

NameSymmetry == Permutations(Keys) \cup Permutations(Turns \ {t1})
=============================================================================
