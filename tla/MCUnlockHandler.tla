--------------------------- MODULE MCUnlockHandler ---------------------------
(* Small instances of UnlockHandler for TLC: the devices are model values.   *)
EXTENDS UnlockHandler, TLC

\* The handler tells SUCCESS from the rest, so one error stands for all.
TwoOutcomes == {"SUCCESS", "UNK_ERROR"}

DeviceSymmetry == Permutations(Server)
=============================================================================
