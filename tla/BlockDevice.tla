---------------------------- MODULE BlockDevice ----------------------------
(***************************************************************************)
(* What the pblk target promises its users (spec.md, "Exposed to the      *)
(* surrounding write-buffer/admission layer"): a block device whose every *)
(* logical block reads back the data of the last submit_user_write to it, *)
(* or zeros before the first write and after a discard.  The data of a    *)
(* write is named by its position among all user writes, so two writes of *)
(* one lba are told apart.  Reads change nothing.                         *)
(***************************************************************************)
EXTENDS Naturals

CONSTANTS
    Lbas,           \* the logical blocks
    MaxWrites       \* bound on the number of user writes

VARIABLES
    disk,           \* disk[a]: the write whose data lba a reads back, 0 for zeros
    written         \* the number of user writes so far

Init ==
    /\ disk = [a \in Lbas |-> 0]
    /\ written = 0

\* submit_user_write(a, data): accepted writes take effect in submission order
Write(a) ==
    /\ written < MaxWrites
    /\ written' = written + 1
    /\ disk' = [disk EXCEPT ![a] = written + 1]

\* discard(a): the block reads back as zeros
Discard(a) ==
    /\ disk' = [disk EXCEPT ![a] = 0]
    /\ UNCHANGED written

Next == \E a \in Lbas : Write(a) \/ Discard(a)

Spec == Init /\ [][Next]_<<disk, written>>

=============================================================================
