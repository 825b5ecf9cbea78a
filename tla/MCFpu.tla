---------------------------------- MODULE MCFpu ----------------------------------
(* The instances of Fpu that TLC checks.                                   *)
EXTENDS Fpu, TLC

CONSTANTS task0, t1, t2, clean, x, y

MCThread == {task0, t1, t2}
MCValue == {clean, x, y}
AtBoot == {t1, t2}
MCSymmetry == Permutations(AtBoot)

================================================================================
