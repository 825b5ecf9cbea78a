------------------------------- MODULE MCKeyboard -------------------------------
(* The instance of Keyboard that TLC checks: interchangeable threads.      *)
EXTENDS Keyboard, TLC

CONSTANTS t1, t2, t3

MCThread == {t1, t2, t3}
MCSymmetry == Permutations(MCThread)

================================================================================
