------------------------------ MODULE MCPblkRl ------------------------------
(***************************************************************************)
(* PblkRl for TLC: one writer, one put worker, one sysfs writer, the GC   *)
(* timer and the GC thread; four lines of four blocks, the first of them  *)
(* SLC.  Over-provisioning is NVM_TARGET_MAX_OP (80%): pblk_set_provision *)
(* gives op_blks = 13 of the 16 blocks, so rl->high is 13 - 1 - 4 = 8     *)
(* and rsv_blocks 4: one free line is the LOW regime at the reserve, two  *)
(* or more are OFF.  A budget of 256 entries gives rb_windows_pw = 2 and  *)
(* high_pw = 3, a shift of 1.  One SLC line takes every branch of         *)
(* pblk_rl_update_slc_rates and of __pblk_line_put.  Two SLC lines        *)
(* (MCNumsSlcLineTwo) let one come back onto free_list while the other is *)
(* still in GC: the case in which slc_list is overdrawn, after which the  *)
(* lists are corrupt and the model would count lines that do not exist.   *)
(***************************************************************************)
EXTENDS PblkRl

CONSTANTS w1, p1, s1, t1, g1

MCWriters == {w1}
MCPutters == {p1}
MCSysfs == {s1}
MCTimers == {t1}
MCGcThreads == {g1}
MCNumLines == 4
MCNumsSlcLine == 1
MCNumsSlcLineTwo == 2
MCBlkInLine == 4
MCBlkMeta == 1
MCOpBlks == 13
MCBudget == 256
====
