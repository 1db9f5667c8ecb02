----------------------------- MODULE MCNvmCore -----------------------------
(***************************************************************************)
(* Model-checking instance of NvmCore: two ioctl threads, two devices of  *)
(* two LUNs and one target name, so that two creates can race for the   *)
(* same name or for overlapping LUN ranges while a device is removed.     *)
(* The map run checks nvm_create_tgt_dev on two channels of two LUNs.     *)
(***************************************************************************)
EXTENDS NvmCore

CONSTANTS p1, p2, d1, d2, n1

MCProcs == {p1, p2}
MCDevs == {d1, d2}
MCNames == {n1}
MCNumLuns == 2
MCLunsPerCh == 1      \* two channels of one LUN

\* the geometry of the map run: two channels of two LUNs
MCMapNumLuns == 4
MCMapLunsPerCh == 2
=============================================================================
