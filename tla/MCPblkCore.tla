---------------------------- MODULE MCPblkCore ----------------------------
(***************************************************************************)
(* Model-checking instance of PblkCore: three lines of two data sectors, *)
(* two logical sectors and a two-entry write buffer.  With high_thrs = 2  *)
(* and mid_thrs = 3 a line with one valid sector is in the HIGH group and *)
(* one with two in MID, so both the victim lists GC visits under          *)
(* PBLK_RL_LOW and the lists it skips are reached.                        *)
(***************************************************************************)
EXTENDS PblkCore

MCNumLines == 3
MCSecInLine == 2
MCHighThrs == 2
MCMidThrs == 3
MCNumLbas == 2
MCRwbSize == 2
MCMaxWritePgs == 1
MCMaxUserWrites == 4
MCMaxReads == 1
MCMaxRef == 3
MCBlkInLine == 1
MCRlHigh == 2
MCRsvBlocks == 0
MCGcLQd == 1
MCGcRqQd == 1
MCGcNrLists == 5
\* upstream pblk.h: PBLK_RL_OFF = 0, PBLK_RL_WERR = 1, PBLK_RL_LOW = 2
MCRL_OFF == 0
MCRL_LOW == 2

=============================================================================
