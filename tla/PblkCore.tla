------------------------------ MODULE PblkCore ------------------------------
(***************************************************************************)
(* The line life cycle of the pblk FTL together with its garbage          *)
(* collector, the logical-to-physical table (L2P) and the line reference  *)
(* counts (src/lightnvm/pblk-core.c, pblk-gc.c, pblk-read.c, pblk-rl.c).   *)
(*                                                                         *)
(* A line is a set of SecInLine data sectors.  The writer fills the data  *)
(* line from the write buffer; a full line is replaced by the prepared    *)
(* next line and closed, and pblk_line_gc_list files a closed line on the *)
(* GC list of its valid sector count.  The GC thread moves victims to     *)
(* r_list, the GC reader queues pblk_gc_line_prepare_ws, which splits the *)
(* valid sectors of the victim into GC requests; line reader workers read *)
(* them and the GC writer copies them back into the write buffer with     *)
(* pblk_update_map_gc.  A line returns to the free list when its last     *)
(* kref is dropped (__pblk_line_put).  User reads take a kref on the line *)
(* they read from in pblk_lookup_l2p_seq.                                  *)
(*                                                                         *)
(* Data is abstracted to (lba, version) pairs: every user write of an lba *)
(* produces a new version, so the L2P can be checked for freshness.       *)
(* Failure paths of the code are enabled by the BOOLEAN constants *MayFail.*)
(***************************************************************************)
EXTENDS Integers, Sequences, FiniteSets, SequencesExt

CONSTANTS
    NumLines,          \* number of lines of the device
    SecInLine,         \* data sectors of a line (line->sec_in_line)
    HighThrs,          \* lm->high_thrs
    MidThrs,           \* lm->mid_thrs
    NumLbas,           \* exposed logical sectors
    RwbSize,           \* entries of the write buffer
    MaxWritePgs,       \* pblk->max_write_pgs: sectors per GC request
    MaxUserWrites,     \* bound on user writes (ghost version counter)
    MaxReads,          \* bound on in-flight user reads per line
    MaxRef,            \* bound on line->ref (leaked references pile up)
    BlkInLine,         \* line->blk_in_line
    RlHigh,            \* rl->high (blocks)
    RsvBlocks,         \* rl->rsv_blocks
    GcLQd,             \* PBLK_GC_L_QD
    GcRqQd,            \* PBLK_GC_RQ_QD
    GcNrLists,         \* PBLK_GC_NR_LISTS
    RL_OFF, RL_LOW,    \* values of the PBLK_RL_* enumeration (pblk.h)
    GcPrepareMayFail,  \* an allocation or emeta read fails in prepare_ws
    GcReadMayFail,     \* vmalloc or pblk_submit_read_gc fails in gc_line_ws
    GcReadDevErr,      \* a device read of pblk_submit_read_gc completes with an error
    GcLineAllocMayFail, \* the kmalloc of the line_ws in pblk_gc_line fails
    ReadSubmitMayFail, \* the device read of pblk_submit_read is not submitted
    PutWqMayFail,      \* mempool_alloc(GFP_ATOMIC) of pblk_line_put_wq fails
    InvalidateWindow   \* the invalidating thread may be delayed between
                       \* the two critical sections of __pblk_map_invalidate

ASSUME /\ NumLines >= 3 /\ SecInLine >= 1 /\ NumLbas >= 1
       /\ 0 < HighThrs /\ HighThrs <= MidThrs
       /\ RwbSize >= MaxWritePgs /\ MaxWritePgs >= 1
       /\ GcLQd >= 1 /\ GcRqQd >= 1 /\ GcNrLists \in 1..5

Lines == 1..NumLines
NoLine == 0
Offs == 0..SecInLine - 1
Lbas == 1..NumLbas
ADDR_EMPTY == 0
Slots == 0..RwbSize - 1
EMPTY_ENTRY == -1                  \* vsc of a line without bitmaps

LineStates == {"NEW", "FREE", "OPEN", "CLOSED", "GC", "BAD", "CORRUPT"}
Groups == {"NONE", "WERR", "FULL", "HIGH", "MID", "LOW", "EMPTY"}
ListNames == {"free", "bad", "corrupt", "werr", "full", "high", "mid", "low",
              "empty", "slc", "r"}
NoList == "none"
\* l_mg->gc_lists[] in pblk_line_mg_init order
GcLists == <<"werr", "high", "mid", "low", "slc">>
GroupList == [WERR |-> "werr", FULL |-> "full", HIGH |-> "high",
              MID |-> "mid", LOW |-> "low", EMPTY |-> "empty"]

\* Physical addresses: empty, a write-buffer line, or a sector of a line
EmptyPpa == [kind |-> "empty"]
CachePpa(s) == [kind |-> "cache", slot |-> s]
DevPpa(l, o) == [kind |-> "dev", line |-> l, off |-> o]
Ppas == {EmptyPpa} \cup {CachePpa(s) : s \in Slots}
          \cup {DevPpa(l, o) : l \in Lines, o \in Offs}

\* The content of a sector or buffer entry: the lba it belongs to and the
\* version of that lba's data.
BadData == -1                      \* what a buffer holds after a failed read
Data == [lba : Lbas \cup {ADDR_EMPTY}, v : {BadData} \cup 0..MaxUserWrites]
Unwritten == [lba |-> ADDR_EMPTY, v |-> 0]

NoInv == [line |-> NoLine, move |-> NoList]

VARIABLES
    lstate,      \* line->state
    gc_group,    \* line->gc_group
    lists,       \* the line lists of l_mg and gc->r_list, by name
    vsc,         \* *line->vsc
    invalid,     \* line->invalid_bitmap (set of offsets)
    cur,         \* line->cur_sec (sectors allocated by the writer)
    sec,         \* what each sector of a line holds
    ref,         \* line->ref (kref)
    l2p,         \* the L2P table
    ver,         \* ghost: latest version written to each lba (0: none)
    nwrites,     \* ghost: user writes so far
    rwb,         \* write buffer entries not yet persisted, oldest first
    rb_mem,      \* next write buffer slot
    data_line,   \* l_mg->data_line
    data_next,   \* l_mg->data_next
    closing,     \* full lines whose emeta is being written (emeta_list)
    stopping,    \* pblk->state = PBLK_STATE_STOPPING, rb_space = 0
    free_blocks, \* rl->free_blocks (= rl->free_user_blocks here)
    rb_state,    \* rl->rb_state
    gc_active,   \* gc->gc_active
    read_inflight_gc, \* gc->read_inflight_gc
    prep,        \* lines queued on gc_reader_wq (prepare_ws)
    rqs,         \* GC requests queued on gc_line_reader_wq
    rdone,       \* GC requests read, waiting for room on w_list
    w_list,      \* gc->w_list
    w_cut,       \* the GC writer's private list after list_cut_position
    reads,       \* user reads in flight holding a kref, per line
    put_wq,      \* lines whose last kref was dropped by a read: line_put_ws
    uinv         \* second half of an invalidation by the user path

lineVars == <<lstate, gc_group, lists, vsc, invalid, cur, sec, ref>>
mapVars == <<l2p, ver, nwrites>>
rbVars == <<rwb, rb_mem>>
pipeVars == <<data_line, data_next, closing, stopping>>
rlVars == <<free_blocks, rb_state, gc_active>>
gcVars == <<read_inflight_gc, prep, rqs, rdone, w_list, w_cut>>
ioVars == <<reads, put_wq, uinv>>
vars == <<lineVars, mapVars, rbVars, pipeVars, rlVars, gcVars, ioVars>>

MinOf(a, b) == IF a < b THEN a ELSE b
OnList(n, l) == \E i \in 1..Len(lists[n]) : lists[n][i] = l
Unlink(ls, l) == [n \in ListNames |-> SelectSeq(ls[n], LAMBDA x : x # l)]
ListAddTail(ls, l, n) == [ls EXCEPT ![n] = Append(@, l)]
\* list_move_tail
ListMoveTail(ls, l, n) == ListAddTail(Unlink(ls, l), l, n)
RqsOf(l) == {q \in rqs \cup rdone : q.line = l}
              \cup {w_list[i] : i \in {j \in 1..Len(w_list) : w_list[j].line = l}}
              \cup {w_cut[i] : i \in {j \in 1..Len(w_cut) : w_cut[j].line = l}}

(***************************************************************************)
(* Rate limiter coupling (pblk-rl.c).  No line of this module has a write *)
(* error, so werr_lines = 0 and gc_slc = 0; gc_enabled = 1, gc_forced = 0. *)
(***************************************************************************)
\* pblk_gc_should_start (gc_enabled = 1: pblk_gc_start sets gc_active;
\* the kick of the GC thread is its timer, always enabled here) and
\* pblk_gc_should_stop (gc_forced = 0 clears gc_active).
pblk_gc_should_start == gc_active' = TRUE
pblk_gc_should_stop == gc_active' = FALSE

\* __pblk_rl_update_rates: the regime, then pblk_gc_should_start/stop
RlState(free) == IF free >= RlHigh THEN RL_OFF ELSE RL_LOW
pblk_rl_update_rates(free) ==
    /\ rb_state' = RlState(free)
    /\ IF RlState(free) # RL_OFF THEN pblk_gc_should_start
                                 ELSE pblk_gc_should_stop

\* pblk_rl_user_may_insert: rb_space = 0 after pblk_stop_writes refuses
\* the write; rb_user_max = 0 when free_blocks <= rsv_blocks requeues it.
pblk_rl_user_may_insert ==
    /\ ~stopping
    /\ rb_state = RL_OFF \/ free_blocks > RsvBlocks

\* pblk_gc_should_run
pblk_gc_should_run == gc_active /\ RlHigh > free_blocks

(***************************************************************************)
(* pblk_line_gc_list: the GC group of a closed line from its valid sector *)
(* count.  The thresholds are uint32_t, so a negative vsc never counts as *)
(* below them; sec_in_line is an int.  Returns the new group and the list *)
(* to move to, which is none when the group did not change.               *)
(***************************************************************************)
\* mutant: FULL also for a line with one valid sector (vsc <= 1)
GcTarget_full_le1(v) ==
    IF v = 0 \/ v = 1 THEN "FULL"
    ELSE IF v >= 0 /\ v < HighThrs THEN "HIGH"
    ELSE IF v >= 0 /\ v < MidThrs THEN "MID"
    ELSE IF v < SecInLine THEN "LOW"
    ELSE IF v = SecInLine THEN "EMPTY"
    ELSE "NONE"

GcTarget(v) ==
    IF v = 0 THEN "FULL"
    ELSE IF v >= 0 /\ v < HighThrs THEN "HIGH"
    ELSE IF v >= 0 /\ v < MidThrs THEN "MID"
    ELSE IF v < SecInLine THEN "LOW"
    ELSE IF v = SecInLine THEN "EMPTY"
    ELSE "NONE"

pblk_line_gc_list(g, v) ==
    LET t == GcTarget(v) IN
    IF t = "NONE" THEN [grp |-> "NONE", move |-> "corrupt", corrupt |-> TRUE]
    ELSE IF t = g THEN [grp |-> g, move |-> NoList, corrupt |-> FALSE]
    ELSE [grp |-> t, move |-> GroupList[t], corrupt |-> FALSE]

(***************************************************************************)
(* __pblk_line_put: the line, left by its caller in state st, group grp   *)
(* and lists ls, goes back to the tail of the free list.                  *)
(***************************************************************************)
__pblk_line_put(l, st, grp, ls) ==
    /\ lstate' = [st EXCEPT ![l] = "FREE"]
    /\ gc_group' = [grp EXCEPT ![l] = "NONE"]
    /\ vsc' = [vsc EXCEPT ![l] = EMPTY_ENTRY]
    /\ invalid' = [invalid EXCEPT ![l] = {}]
    /\ lists' = ListAddTail(ls, l, "free")
    /\ free_blocks' = free_blocks + BlkInLine
    /\ pblk_rl_update_rates(free_blocks + BlkInLine)

\* k kref_get's followed by kref_put(&line->ref, pblk_line_put): the last
\* reference runs __pblk_line_put inline.
PutRef(l, k, st, grp, ls) ==
    /\ ref' = [ref EXCEPT ![l] = @ + k - 1]
    /\ IF ref[l] + k - 1 = 0
         THEN __pblk_line_put(l, st, grp, ls)
         ELSE /\ lstate' = st /\ gc_group' = grp /\ lists' = ls
              /\ UNCHANGED <<vsc, invalid, free_blocks, rb_state, gc_active>>

(***************************************************************************)
(* __pblk_map_invalidate up to the release of line->lock: the bit is set, *)
(* vsc drops, and a closed line is reclassified.  A bit already set is a  *)
(* double invalidate, which only warns.                                   *)
(***************************************************************************)
InvalidateRes(l, o) ==
    LET v == vsc[l] - 1
        c == pblk_line_gc_list(gc_group[l], v)
        closed == lstate[l] = "CLOSED"
    IN [dup  |-> o \in invalid[l],
        v    |-> v,
        grp  |-> IF closed THEN c.grp ELSE gc_group[l],
        st   |-> IF closed /\ c.corrupt THEN "CORRUPT" ELSE lstate[l],
        move |-> IF closed THEN c.move ELSE NoList]

\* the line-locked half, leaving the list move to pending
MapInvalidateLocked(l, o, r) ==
    IF r.dup THEN UNCHANGED <<invalid, vsc, gc_group, lstate>>
    ELSE /\ invalid' = [invalid EXCEPT ![l] = @ \cup {o}]
         /\ vsc' = [vsc EXCEPT ![l] = r.v]
         /\ gc_group' = [gc_group EXCEPT ![l] = r.grp]
         /\ lstate' = [lstate EXCEPT ![l] = r.st]

\* When the window is closed, nothing else runs between the two halves.
Quiet == InvalidateWindow \/ uinv = NoInv

(***************************************************************************)
(* Init: the state pblk_init leaves, after pblk_line_get_first_data has   *)
(* taken line 1 as the data line and line 2 as the next line; GC is not   *)
(* enabled yet when first_data updates the rates (pblk_gc_init runs       *)
(* after pblk_l2p_init), so gc_active is still 0.                         *)
(***************************************************************************)
\* pblk_setup_line_meta for a line with no bad chunk: state NEW, gc_group
\* NONE, list_add_tail onto free_list; it returns its blk_in_line.
pblk_setup_line_meta(l) == [state |-> "NEW", gc_group |-> "NONE", blks |-> BlkInLine]

\* pblk_lines_init: every line set up in id order, so free_list is
\* 1..NumLines; pblk_set_provision makes free_blocks the chunks of all of
\* them.  (The SLC tier the loop also records is left out: no line of the
\* model is SLC.)
pblk_lines_init ==
    [lstate      |-> [l \in Lines |-> pblk_setup_line_meta(l).state],
     gc_group    |-> [l \in Lines |-> pblk_setup_line_meta(l).gc_group],
     free        |-> [i \in 1..NumLines |-> i],
     free_blocks |-> MapThenSumSet(LAMBDA l : pblk_setup_line_meta(l).blks, Lines)]

\* After pblk_lines_init, pblk_line_get_first_data takes lines 1 and 2 off
\* free_list as data_line and data_next (free_blocks drops for the first).
Init ==
    /\ lstate = [pblk_lines_init.lstate EXCEPT ![1] = "OPEN", ![2] = "OPEN"]
    /\ gc_group = pblk_lines_init.gc_group
    /\ lists = [n \in ListNames |->
                  IF n = "free" THEN Tail(Tail(pblk_lines_init.free)) ELSE <<>>]
    /\ vsc = [l \in Lines |-> IF l = 1 THEN SecInLine ELSE EMPTY_ENTRY]
    /\ invalid = [l \in Lines |-> {}]
    /\ cur = [l \in Lines |-> 0]
    /\ sec = [l \in Lines |-> [o \in Offs |-> Unwritten]]
    /\ ref = [l \in Lines |-> IF l \in {1, 2} THEN 1 ELSE 0]
    /\ l2p = [a \in Lbas |-> EmptyPpa]
    /\ ver = [a \in Lbas |-> 0]
    /\ nwrites = 0
    /\ rwb = <<>>
    /\ rb_mem = 0
    /\ data_line = 1
    /\ data_next = 2
    /\ closing = {}
    /\ stopping = FALSE
    /\ free_blocks = pblk_lines_init.free_blocks - BlkInLine
    /\ rb_state = RlState(pblk_lines_init.free_blocks - BlkInLine)
    /\ gc_active = FALSE
    /\ read_inflight_gc = 0
    /\ prep = <<>>
    /\ rqs = {}
    /\ rdone = {}
    /\ w_list = <<>>
    /\ w_cut = <<>>
    /\ reads = [l \in Lines |-> 0]
    /\ put_wq = {}
    /\ uinv = NoInv

(***************************************************************************)
(* User path.  The buffer insertion (pblk_write_to_cache) is outside src; *)
(* the admission is pblk_rl_user_may_insert and the L2P update is         *)
(* pblk_update_map_cache -> pblk_update_map, under trans_lock, which      *)
(* invalidates the old device address.  The list move of that             *)
(* invalidation is left pending in uinv while trans_lock is still held.   *)
(***************************************************************************)
UserInvalidate(old) ==
    IF old.kind = "dev"
      THEN LET r == InvalidateRes(old.line, old.off) IN
           /\ MapInvalidateLocked(old.line, old.off, r)
           /\ uinv' = IF r.dup \/ r.move = NoList THEN NoInv
                      ELSE [line |-> old.line, move |-> r.move]
      ELSE UNCHANGED <<invalid, vsc, gc_group, lstate, uinv>>

pblk_write_to_cache(a) ==
    /\ uinv = NoInv
    /\ nwrites < MaxUserWrites
    /\ pblk_rl_user_may_insert
    /\ Len(rwb) < RwbSize
    /\ LET v == nwrites + 1 IN
       /\ rwb' = Append(rwb, [lba |-> a, slot |-> rb_mem, v |-> v])
       /\ rb_mem' = (rb_mem + 1) % RwbSize
       /\ ver' = [ver EXCEPT ![a] = v]
       /\ nwrites' = v
       /\ l2p' = [l2p EXCEPT ![a] = CachePpa(rb_mem)]
       /\ UserInvalidate(l2p[a])
    /\ UNCHANGED <<lists, cur, sec, ref, pipeVars, rlVars, gcVars, reads, put_wq>>

\* pblk_discard -> pblk_invalidate_range for one lba
pblk_discard(a) ==
    /\ uinv = NoInv
    /\ l2p[a] # EmptyPpa
    /\ l2p' = [l2p EXCEPT ![a] = EmptyPpa]
    /\ ver' = [ver EXCEPT ![a] = 0]
    /\ UserInvalidate(l2p[a])
    /\ UNCHANGED <<lists, cur, sec, ref, nwrites, rbVars, pipeVars, rlVars,
                   gcVars, reads, put_wq>>

\* __pblk_map_invalidate after line->lock is dropped: under gc_lock, a line
\* that is not in state GC is moved to the list computed before.
pblk_map_invalidate_move ==
    /\ uinv # NoInv
    /\ lists' = IF lstate[uinv.line] = "GC" THEN lists
                ELSE ListMoveTail(lists, uinv.line, uinv.move)
    /\ uinv' = NoInv
    /\ UNCHANGED <<lstate, gc_group, vsc, invalid, cur, sec, ref, mapVars,
                   rbVars, pipeVars, rlVars, gcVars, reads, put_wq>>

(***************************************************************************)
(* Writer.  The write thread (pblk-write.c, outside src) persists the     *)
(* oldest buffer entry to the data line: pblk_alloc_page takes the next   *)
(* sector, and on completion pblk_update_map_dev maps the lba to it,      *)
(* unless the entry is padding (lba ADDR_EMPTY) or the lba was written    *)
(* again meanwhile; then the new sector is invalidated at once.  The      *)
(* writer's invalidations are of its own (open) data line, so their list  *)
(* move, if any, is done in the same step.                                *)
(***************************************************************************)
\* pblk_alloc_page for one sector: cur_sec advances past the sector it
\* returns.  The writer only maps to a line that pblk_line_is_full has
\* not found full, so the out-of-bounds WARN path is not taken.
pblk_alloc_page(d) ==
    /\ cur[d] < SecInLine
    /\ cur' = [cur EXCEPT ![d] = @ + 1]

pblk_write_persist ==
    /\ Quiet
    /\ rwb # <<>>
    /\ LET e == Head(rwb)
           d == data_line
           o == cur[d]
           stale == e.lba = ADDR_EMPTY \/ l2p[e.lba] # CachePpa(e.slot)
           r == InvalidateRes(d, o)
       IN
       /\ e.lba = ADDR_EMPTY \/ uinv = NoInv      \* trans_lock
       /\ rwb' = Tail(rwb)
       /\ pblk_alloc_page(d)
       /\ sec' = [sec EXCEPT ![d][o] = [lba |-> e.lba, v |-> e.v]]
       /\ IF stale
            THEN /\ MapInvalidateLocked(d, o, r)
                 /\ lists' = IF r.dup \/ r.move = NoList \/ r.st = "GC" THEN lists
                             ELSE ListMoveTail(lists, d, r.move)
                 /\ UNCHANGED l2p
            ELSE /\ l2p' = [l2p EXCEPT ![e.lba] = DevPpa(d, o)]
                 /\ UNCHANGED <<lstate, gc_group, lists, vsc, invalid>>
    /\ UNCHANGED <<ref, ver, nwrites, rb_mem, pipeVars, rlVars, gcVars, ioVars>>

(***************************************************************************)
(* pblk_line_replace_data with pblk_line_close_meta of the full line, as  *)
(* the writer runs them when the data line is full.  The next line is     *)
(* erased and set up (init_bb: vsc = sec_in_line), the free count drops,  *)
(* and pblk_line_get takes the head of the free list for data_next; a     *)
(* line there that pblk_line_prepare finds in a state other than NEW or   *)
(* FREE goes to corrupt_list (-EINTR).  With no line left the pipeline    *)
(* stops (pblk_stop_writes).  With data_next NULL the code returns NULL   *)
(* and the writer cannot go on: the action is disabled.                   *)
(***************************************************************************)
Preparable(fl) == {i \in 1..Len(fl) : lstate[fl[i]] \in {"NEW", "FREE"}}

\* pblk_line_get, under free_lock: lines are taken from the head of
\* free_list; one that pblk_line_prepare refuses with -EINTR is list_add'ed
\* to corrupt_list and the loop retries.  The line taken, NoLine when the
\* list runs out, and the lists that are left.
pblk_line_get(ls) ==
    LET fl == ls["free"]
        ok == Preparable(fl)
        k == IF ok = {} THEN Len(fl) + 1 ELSE Min(ok)
    IN [line  |-> IF ok = {} THEN NoLine ELSE fl[k],
        lists |-> [ls EXCEPT !["free"] = SubSeq(fl, k + 1, Len(fl)),
                             !["corrupt"] = Reverse(SubSeq(fl, 1, k - 1)) \o @]]

\* pblk_line_close_meta: the line goes onto emeta_list, whose write ends
\* in pblk_line_close_ws (the vsc and wa counters copied to emeta are
\* data left out).
pblk_line_close_meta(l) == closing' = closing \cup {l}

pblk_line_replace_data ==
    /\ Quiet
    /\ cur[data_line] = SecInLine
    /\ data_next # NoLine
    /\ LET new == data_next
           fb == free_blocks - BlkInLine
           g == pblk_line_get(lists)
       IN
       /\ data_line' = new
       /\ pblk_line_close_meta(data_line)
       /\ cur' = [cur EXCEPT ![new] = 0]
       /\ sec' = [sec EXCEPT ![new] = [o \in Offs |-> Unwritten]]
       /\ invalid' = [invalid EXCEPT ![new] = {}]
       /\ vsc' = [vsc EXCEPT ![new] = SecInLine]
       /\ free_blocks' = fb
       /\ pblk_rl_update_rates(fb)
       /\ lists' = g.lists
       /\ data_next' = g.line
       /\ IF g.line = NoLine
            THEN /\ stopping' = TRUE
                 /\ UNCHANGED <<lstate, ref>>
            ELSE /\ lstate' = [lstate EXCEPT ![g.line] = "OPEN"]
                 /\ ref' = [ref EXCEPT ![g.line] = 1]
                 /\ UNCHANGED stopping
    /\ UNCHANGED <<gc_group, mapVars, rbVars, gcVars, ioVars>>

\* pblk_line_close_ws -> pblk_line_close, once the emeta of the line is
\* written: OPEN -> CLOSED and onto the GC list of its group.
pblk_line_close(l) ==
    /\ Quiet
    /\ l \in closing
    /\ LET c == pblk_line_gc_list(gc_group[l], vsc[l]) IN
       /\ closing' = closing \ {l}
       /\ lstate' = [lstate EXCEPT ![l] = IF c.corrupt THEN "CORRUPT" ELSE "CLOSED"]
       /\ gc_group' = [gc_group EXCEPT ![l] = c.grp]
       /\ lists' = IF c.move = NoList THEN lists ELSE ListAddTail(lists, l, c.move)
    /\ UNCHANGED <<vsc, invalid, cur, sec, ref, mapVars, rbVars, data_line,
                   data_next, stopping, rlVars, gcVars, ioVars>>

(***************************************************************************)
(* GC thread (pblk_gc_ts -> pblk_gc_run), one loop iteration per step.    *)
(***************************************************************************)
\* pblk_gc_free_full_lines: a line with no valid sector goes straight to
\* state GC and drops the reference it got from kref_init.
pblk_gc_free_full_lines ==
    /\ Quiet
    /\ lists["full"] # <<>>
    /\ LET l == Head(lists["full"]) IN
       PutRef(l, 0, [lstate EXCEPT ![l] = "GC"], gc_group,
              [lists EXCEPT !["full"] = Tail(@)])
    /\ UNCHANGED <<cur, sec, mapVars, rbVars, pipeVars, gcVars, ioVars>>

\* pblk_gc_get_victim_line: the first line of least vsc
VictimIdx(s) ==
    CHOOSE i \in 1..Len(s) :
        \A j \in 1..Len(s) : /\ vsc[s[i]] <= vsc[s[j]]
                             /\ j < i => vsc[s[j]] > vsc[s[i]]

\* The lists pblk_gc_run visits: gc_lists[0] always, and the next one
\* while nothing was taken and rb_state > gc_group.
VisitedLists == {k \in 1..GcNrLists : k = 1 \/ rb_state >= k}

\* pblk_gc_run, one victim: the first non-empty visited list gives up its
\* victim, which goes to state GC and onto r_list.
\* mutant: read_inflight_gc compared with > instead of >= PBLK_GC_L_QD
pblk_gc_run_qd_le ==
    /\ Quiet
    /\ pblk_gc_should_run
    /\ read_inflight_gc <= GcLQd
    /\ \E k \in VisitedLists : lists[GcLists[k]] # <<>>
    /\ LET k == Min({j \in VisitedLists : lists[GcLists[j]] # <<>>})
           s == lists[GcLists[k]]
           l == s[VictimIdx(s)]
       IN /\ lstate' = [lstate EXCEPT ![l] = "GC"]
          /\ lists' = ListAddTail(Unlink(lists, l), l, "r")
    /\ read_inflight_gc' = read_inflight_gc + 1
    /\ UNCHANGED <<gc_group, vsc, invalid, cur, sec, ref, mapVars, rbVars,
                   pipeVars, rlVars, prep, rqs, rdone, w_list, w_cut, ioVars>>

\* mutant: list_add_tail instead of list_move_tail onto r_list
pblk_gc_run_no_unlink ==
    /\ Quiet
    /\ pblk_gc_should_run
    /\ read_inflight_gc < GcLQd
    /\ \E k \in VisitedLists : lists[GcLists[k]] # <<>>
    /\ LET k == Min({j \in VisitedLists : lists[GcLists[j]] # <<>>})
           s == lists[GcLists[k]]
           l == s[VictimIdx(s)]
       IN /\ lstate' = [lstate EXCEPT ![l] = "GC"]
          /\ lists' = ListAddTail(lists, l, "r")
    /\ read_inflight_gc' = read_inflight_gc + 1
    /\ UNCHANGED <<gc_group, vsc, invalid, cur, sec, ref, mapVars, rbVars,
                   pipeVars, rlVars, prep, rqs, rdone, w_list, w_cut, ioVars>>

pblk_gc_run ==
    /\ Quiet
    /\ pblk_gc_should_run
    /\ read_inflight_gc < GcLQd
    /\ \E k \in VisitedLists : lists[GcLists[k]] # <<>>
    /\ LET k == Min({j \in VisitedLists : lists[GcLists[j]] # <<>>})
           s == lists[GcLists[k]]
           l == s[VictimIdx(s)]
       IN /\ lstate' = [lstate EXCEPT ![l] = "GC"]
          /\ lists' = ListAddTail(Unlink(lists, l), l, "r")
    /\ read_inflight_gc' = read_inflight_gc + 1
    /\ UNCHANGED <<gc_group, vsc, invalid, cur, sec, ref, mapVars, rbVars,
                   pipeVars, rlVars, prep, rqs, rdone, w_list, w_cut, ioVars>>

\* pblk_gc_read -> pblk_gc_line: the head of r_list is queued for
\* pblk_gc_line_prepare_ws on gc_reader_wq.  When the kmalloc of the
\* work item fails the line is only reported: it stays in state GC on no
\* list and read_inflight_gc is never decremented.
pblk_gc_read ==
    /\ Quiet
    /\ lists["r"] # <<>>
    /\ \/ prep' = Append(prep, Head(lists["r"]))
       \/ GcLineAllocMayFail /\ UNCHANGED prep
    /\ lists' = [lists EXCEPT !["r"] = Tail(@)]
    /\ UNCHANGED <<lstate, gc_group, vsc, invalid, cur, sec, ref, mapVars,
                   rbVars, pipeVars, rlVars, read_inflight_gc, rqs, rdone,
                   w_list, w_cut, ioVars>>

(***************************************************************************)
(* pblk_gc_line_prepare_ws.  The valid sectors of a snapshot of the       *)
(* invalid bitmap are cut into requests of max_write_pgs sectors, each    *)
(* holding a kref, and the prepare work drops the line's initial kref.    *)
(* An allocation or emeta failure after k requests were queued, or a      *)
(* negative vsc, runs pblk_put_line_back (state CLOSED and                *)
(* pblk_line_gc_list, whose gc_group was not reset) and still drops the   *)
(* initial kref.                                                          *)
(***************************************************************************)
ValidSecs(l) == SetToSortSeq(Offs \ invalid[l], <)
NrRqs(l) == (Len(ValidSecs(l)) + MaxWritePgs - 1) \div MaxWritePgs
GcRq(l, i) ==
    [line |-> l,
     offs |-> SubSeq(ValidSecs(l), (i - 1) * MaxWritePgs + 1,
                     MinOf(i * MaxWritePgs, Len(ValidSecs(l))))]

\* pblk_put_line_back: GC -> CLOSED (or CORRUPT), and list_add_tail onto
\* the list pblk_line_gc_list picks; the new lstate, gc_group and lists.
pblk_put_line_back(l) ==
    LET c == pblk_line_gc_list(gc_group[l], vsc[l]) IN
    [lstate   |-> [lstate EXCEPT ![l] = IF c.corrupt THEN "CORRUPT" ELSE "CLOSED"],
     gc_group |-> [gc_group EXCEPT ![l] = c.grp],
     lists    |-> IF c.move = NoList THEN lists ELSE ListAddTail(lists, l, c.move)]

pblk_gc_line_prepare_ws ==
    /\ Quiet
    /\ prep # <<>>
    /\ LET l == Head(prep)
           n == NrRqs(l)
       IN
       \/ /\ vsc[l] >= 0
          /\ rqs' = rqs \cup {GcRq(l, i) : i \in 1..n}
          /\ PutRef(l, n, lstate, gc_group, lists)
       \/ /\ GcPrepareMayFail \/ vsc[l] < 0
          /\ \E k \in 0..(IF vsc[l] < 0 \/ n = 0 THEN 0 ELSE n - 1) :
               LET b == pblk_put_line_back(l) IN
               /\ rqs' = rqs \cup {GcRq(l, i) : i \in 1..k}
               /\ PutRef(l, k, b.lstate, b.gc_group, b.lists)
    /\ prep' = Tail(prep)
    /\ read_inflight_gc' = read_inflight_gc - 1
    /\ UNCHANGED <<cur, sec, mapVars, rbVars, pipeVars, rdone, w_list, w_cut,
                   ioVars>>

(***************************************************************************)
(* Line reader worker, pblk_gc_line_ws.  pblk_submit_read_gc reads a      *)
(* sector only while the L2P still maps its lba to it (read_rq_gc, under  *)
(* trans_lock).  A failed vmalloc or read submission, or a request with   *)
(* nothing left to move, drops the request and its kref.                  *)
(***************************************************************************)
ReadGcItems(q) ==
    LET item(o) == [off |-> o, lba |-> sec[q.line][o].lba, v |-> sec[q.line][o].v]
        all == [i \in 1..Len(q.offs) |-> item(q.offs[i])]
    IN SelectSeq(all, LAMBDA it : /\ it.lba # ADDR_EMPTY
                                  /\ l2p[it.lba] = DevPpa(q.line, it.off))

\* pblk_submit_read_gc: the sectors read_rq_gc keeps are read one request
\* each, and the function busy-waits for all of them.  A request that
\* completes with an error is only counted in read_failed_gc: ret stays
\* NVM_IO_OK and the GC buffer keeps whatever the failed read left there.
pblk_submit_read_gc(q) ==
    LET items == ReadGcItems(q)
        failed == [i \in DOMAIN items |-> [items[i] EXCEPT !.v = BadData]]
    IN IF GcReadDevErr THEN {items, failed} ELSE {items}

pblk_gc_line_ws(q) ==
    /\ Quiet
    /\ uinv = NoInv                                 \* trans_lock
    /\ q \in rqs
    /\ rqs' = rqs \ {q}
    /\ \E items \in pblk_submit_read_gc(q) :
       \/ /\ GcReadMayFail \/ items = <<>>
          /\ PutRef(q.line, 0, lstate, gc_group, lists)
          /\ UNCHANGED rdone
       \/ /\ items # <<>>
          /\ rdone' = rdone \cup {[line |-> q.line, items |-> items]}
          /\ UNCHANGED <<lineVars, rlVars>>
    /\ UNCHANGED <<cur, sec, mapVars, rbVars, pipeVars, read_inflight_gc, prep,
                   w_list, w_cut, ioVars>>

\* the retry loop of pblk_gc_line_ws: onto w_list when w_entries < QD
pblk_gc_line_ws_enqueue(q) ==
    /\ Quiet
    /\ q \in rdone
    /\ Len(w_list) < GcRqQd
    /\ rdone' = rdone \ {q}
    /\ w_list' = Append(w_list, q)
    /\ UNCHANGED <<lineVars, mapVars, rbVars, pipeVars, rlVars,
                   read_inflight_gc, prep, rqs, w_cut, ioVars>>

(***************************************************************************)
(* GC writer thread, pblk_gc_write: list_cut_position takes the whole     *)
(* w_list (w_entries = 0), then each request is written to the buffer     *)
(* (pblk_write_gc_to_cache, outside src, waiting for room) and its kref   *)
(* dropped.  Each entry's L2P update is pblk_update_map_gc: only while    *)
(* the L2P still maps the lba to the GC'd sector; otherwise the entry is  *)
(* kept as padding (lba ADDR_EMPTY).                                      *)
(***************************************************************************)
pblk_gc_write_cut ==
    /\ Quiet
    /\ w_cut = <<>>
    /\ w_list # <<>>
    /\ w_cut' = w_list
    /\ w_list' = <<>>
    /\ UNCHANGED <<lineVars, mapVars, rbVars, pipeVars, rlVars,
                   read_inflight_gc, prep, rqs, rdone, ioVars>>

\* mutant: pblk_update_map_gc without the comparison with the GC'd address
GcEntryOk_nocheck(q, it) == it.lba \in Lbas

GcEntryOk(q, it) == l2p[it.lba] = DevPpa(q.line, it.off)

pblk_gc_write ==
    /\ Quiet
    /\ uinv = NoInv                                 \* trans_lock
    /\ w_cut # <<>>
    /\ LET q == Head(w_cut)
           n == Len(q.items)
           slot(i) == (rb_mem + i - 1) % RwbSize
       IN
       /\ Len(rwb) + n <= RwbSize
       /\ rwb' = rwb \o [i \in 1..n |->
                   [lba |-> IF GcEntryOk(q, q.items[i]) THEN q.items[i].lba
                            ELSE ADDR_EMPTY,
                    slot |-> slot(i), v |-> q.items[i].v]]
       /\ rb_mem' = (rb_mem + n) % RwbSize
       /\ l2p' = [a \in Lbas |->
                   IF \E i \in 1..n : q.items[i].lba = a /\ GcEntryOk(q, q.items[i])
                   THEN CachePpa(slot(CHOOSE i \in 1..n : q.items[i].lba = a
                                              /\ GcEntryOk(q, q.items[i])))
                   ELSE l2p[a]]
       /\ w_cut' = Tail(w_cut)
       /\ PutRef(q.line, 0, lstate, gc_group, lists)
    /\ UNCHANGED <<cur, sec, ver, nwrites, pipeVars, read_inflight_gc, prep,
                   rqs, rdone, w_list, ioVars>>

(***************************************************************************)
(* User reads.  pblk_submit_read -> pblk_read_rq -> pblk_lookup_l2p_seq   *)
(* takes a kref on the line of a device address under trans_lock.  If    *)
(* the bio clone or the submission fails, __pblk_end_io_read runs with   *)
(* put_line = false and the kref is never dropped.  The completion        *)
(* (pblk_end_io_read -> pblk_read_put_rqd_kref) drops it with             *)
(* pblk_line_put_wq, which defers __pblk_line_put to pblk_line_put_ws.    *)
(***************************************************************************)
\* mutant: pblk_lookup_l2p_seq without the kref_get of the line
pblk_submit_read_noref(a) ==
    /\ Quiet
    /\ uinv = NoInv
    /\ l2p[a].kind = "dev"
    /\ reads[l2p[a].line] < MaxReads
    /\ ref[l2p[a].line] < MaxRef
    /\ LET l == l2p[a].line IN
       \/ reads' = [reads EXCEPT ![l] = @ + 1]
       \/ ReadSubmitMayFail /\ UNCHANGED reads
    /\ UNCHANGED <<lineVars, mapVars, rbVars, pipeVars, rlVars, gcVars, put_wq, uinv>>

\* pblk_lookup_l2p_seq, under trans_lock: a kref_get on the line an lba
\* maps to, when it maps to the device (not empty, not the cache).
pblk_lookup_l2p_seq(a) ==
    ref' = IF l2p[a].kind = "dev" THEN [ref EXCEPT ![l2p[a].line] = @ + 1] ELSE ref

pblk_submit_read(a) ==
    /\ Quiet
    /\ uinv = NoInv                                 \* trans_lock
    /\ l2p[a].kind = "dev"
    /\ reads[l2p[a].line] < MaxReads
    /\ ref[l2p[a].line] < MaxRef
    /\ pblk_lookup_l2p_seq(a)
    /\ LET l == l2p[a].line IN
       /\ \/ reads' = [reads EXCEPT ![l] = @ + 1]
          \/ ReadSubmitMayFail /\ UNCHANGED reads
    /\ UNCHANGED <<lstate, gc_group, lists, vsc, invalid, cur, sec, mapVars,
                   rbVars, pipeVars, rlVars, gcVars, put_wq, uinv>>

\* mutant: the last kref_put of a read does not queue pblk_line_put_ws
pblk_end_io_read_noput(l) ==
    /\ Quiet
    /\ reads[l] > 0
    /\ reads' = [reads EXCEPT ![l] = @ - 1]
    /\ ref' = [ref EXCEPT ![l] = @ - 1]
    /\ UNCHANGED <<lstate, gc_group, lists, vsc, invalid, cur, sec, mapVars,
                   rbVars, pipeVars, rlVars, gcVars, put_wq, uinv>>

\* pblk_line_put_wq, the release function of the last kref: it queues
\* pblk_line_put_ws on r_end_wq, or returns with nothing done when the
\* line_ws cannot be allocated.
pblk_line_put_wq(l) ==
    \/ put_wq' = put_wq \cup {l}
    \/ PutWqMayFail /\ UNCHANGED put_wq

pblk_end_io_read(l) ==
    /\ Quiet
    /\ reads[l] > 0
    /\ reads' = [reads EXCEPT ![l] = @ - 1]
    /\ ref' = [ref EXCEPT ![l] = @ - 1]
    /\ IF ref[l] = 1 THEN pblk_line_put_wq(l) ELSE UNCHANGED put_wq
    /\ UNCHANGED <<lstate, gc_group, lists, vsc, invalid, cur, sec, mapVars,
                   rbVars, pipeVars, rlVars, gcVars, uinv>>

pblk_line_put_ws(l) ==
    /\ Quiet
    /\ l \in put_wq
    /\ put_wq' = put_wq \ {l}
    /\ __pblk_line_put(l, lstate, gc_group, lists)
    /\ UNCHANGED <<cur, sec, ref, mapVars, rbVars, pipeVars, gcVars, reads, uinv>>

(***************************************************************************)
(* Specification                                                           *)
(***************************************************************************)
Next ==
    \/ \E a \in Lbas : pblk_write_to_cache(a) \/ pblk_discard(a)
                       \/ pblk_submit_read(a)
    \/ pblk_map_invalidate_move
    \/ pblk_write_persist
    \/ pblk_line_replace_data
    \/ \E l \in Lines : pblk_line_close(l)
    \/ pblk_gc_free_full_lines
    \/ pblk_gc_run
    \/ pblk_gc_read
    \/ pblk_gc_line_prepare_ws
    \/ \E q \in rqs : pblk_gc_line_ws(q)
    \/ \E q \in rdone : pblk_gc_line_ws_enqueue(q)
    \/ pblk_gc_write_cut
    \/ pblk_gc_write
    \/ \E l \in Lines : pblk_end_io_read(l) \/ pblk_line_put_ws(l)

\* Every kernel thread and workqueue of the pipeline runs when it has work
\* (they are woken by pblk_gc_kick, the GC timer and the write kicks); the
\* user actions need not happen.  Device reads complete.
Fairness ==
    /\ WF_vars(pblk_map_invalidate_move)
    /\ WF_vars(pblk_write_persist)
    /\ WF_vars(pblk_line_replace_data)
    /\ \A l \in Lines : WF_vars(pblk_line_close(l))
    /\ WF_vars(pblk_gc_free_full_lines)
    /\ WF_vars(pblk_gc_run)
    /\ WF_vars(pblk_gc_read)
    /\ WF_vars(pblk_gc_line_prepare_ws)
    /\ WF_vars(\E q \in rqs : pblk_gc_line_ws(q))
    /\ WF_vars(\E q \in rdone : pblk_gc_line_ws_enqueue(q))
    /\ WF_vars(pblk_gc_write_cut)
    /\ WF_vars(pblk_gc_write)
    /\ \A l \in Lines : WF_vars(pblk_end_io_read(l)) /\ WF_vars(pblk_line_put_ws(l))

Spec == Init /\ [][Next]_vars /\ Fairness

(***************************************************************************)
(* Properties                                                              *)
(***************************************************************************)
TypeOK ==
    /\ lstate \in [Lines -> LineStates]
    /\ gc_group \in [Lines -> Groups]
    /\ \A n \in ListNames : lists[n] \in Seq(Lines)
    /\ vsc \in [Lines -> Int]
    /\ invalid \in [Lines -> SUBSET Offs]
    /\ cur \in [Lines -> 0..SecInLine]
    /\ sec \in [Lines -> [Offs -> Data]]
    /\ ref \in [Lines -> Nat]
    /\ l2p \in [Lbas -> Ppas]
    /\ ver \in [Lbas -> 0..MaxUserWrites]
    /\ rwb \in Seq([lba : Lbas \cup {ADDR_EMPTY}, slot : Slots, v : {BadData} \cup 0..MaxUserWrites])
    /\ Len(rwb) <= RwbSize
    /\ rb_mem \in Slots
    /\ data_line \in Lines /\ data_next \in Lines \cup {NoLine}
    /\ closing \subseteq Lines
    /\ free_blocks \in Int
    /\ read_inflight_gc \in 0..GcLQd
    /\ reads \in [Lines -> 0..MaxReads]
    /\ put_wq \subseteq Lines
    /\ uinv \in {NoInv} \cup [line : Lines, move : ListNames]

\* What the L2P entry of an address reads back as.
Lost == [lba |-> ADDR_EMPTY, v |-> -1]
DataAt(p) ==
    CASE p.kind = "empty" -> Unwritten
      [] p.kind = "cache" ->
           IF \E i \in 1..Len(rwb) : rwb[i].slot = p.slot
           THEN LET e == rwb[CHOOSE i \in 1..Len(rwb) : rwb[i].slot = p.slot]
                IN [lba |-> e.lba, v |-> e.v]
           ELSE Lost
      [] p.kind = "dev" -> sec[p.line][p.off]

ReadBack(a) ==
    LET d == DataAt(l2p[a]) IN
    IF l2p[a] = EmptyPpa THEN 0 ELSE IF d.lba = a THEN d.v ELSE -1

ABS == INSTANCE BlockDevice WITH
           Lbas <- Lbas, MaxWrites <- MaxUserWrites,
           disk <- [a \in Lbas |-> ReadBack(a)], written <- nwrites

\* Every behaviour of the FTL is a behaviour of a plain block device: only a
\* user write or a discard changes what a read returns, a write makes its
\* lba read that write, and no writer completion, GC move, line reuse or
\* read ever changes, ages or corrupts what any lba reads back.  This holds
\* without the ghost ver: the L2P, buffer and sectors alone say it.
BlockDeviceRefined == ABS!Spec

\* A device address in the L2P is a written, valid sector of a line that is
\* in use: GC and __pblk_line_put never reclaim a line that still holds
\* mapped data, and no mapped sector has its invalid bit set.
MappedSectorsLive ==
    \A a \in Lbas :
        l2p[a].kind = "dev" =>
            /\ lstate[l2p[a].line] \in {"OPEN", "CLOSED", "GC"}
            /\ l2p[a].off \notin invalid[l2p[a].line]
            /\ l2p[a].off < cur[l2p[a].line]

\* A line on the free list has no user read, GC request or GC stage still
\* working on it: the krefs of pblk_lookup_l2p_seq and prepare_ws keep
\* __pblk_line_put from running early.
NoReclaimUnderIO ==
    \A l \in Lines :
        lstate[l] \in {"NEW", "FREE"} =>
            /\ reads[l] = 0
            /\ RqsOf(l) = {}
            /\ \A i \in 1..Len(prep) : prep[i] # l
            /\ ~OnList("r", l)
            /\ l \notin put_wq
            /\ l # data_line /\ l # data_next /\ l \notin closing

\* Every line is on at most one list, once, and it is the list its state
\* calls for: free lines on free_list, closed lines on the GC list of
\* their gc_group (any GC list while the user's invalidation has yet to
\* move it), lines being reclaimed on r_list or on none, open lines on
\* none.  This is what __pblk_map_invalidate, pblk_put_line_back and
\* pblk_gc_run must preserve between them.
HomeLists(l) ==
    CASE lstate[l] \in {"NEW", "FREE"} -> {{"free"}}
      [] lstate[l] = "CLOSED" /\ uinv.line = l ->
            {{n} : n \in {"werr", "full", "high", "mid", "low", "empty"}}
      [] lstate[l] = "CLOSED" ->
            {IF gc_group[l] = "NONE" THEN {} ELSE {GroupList[gc_group[l]]}}
      [] lstate[l] = "GC" -> {{}, {"r"}}
      [] lstate[l] = "OPEN" -> {{}}
      [] lstate[l] = "BAD" -> {{"bad"}}
      [] lstate[l] = "CORRUPT" -> {{"corrupt"}}

ListOwnership ==
    \A l \in Lines :
        /\ \A n \in ListNames : Len(SelectSeq(lists[n], LAMBDA x : x = l)) <= 1
        /\ {n \in ListNames : OnList(n, l)} \in HomeLists(l)

\* __pblk_line_put only frees a line that GC has taken (its
\* WARN_ON(line->state != PBLK_LINESTATE_GC)), or a closed line without
\* valid sectors that pblk_gc_free_full_lines moves to GC and puts in the
\* same step: a line holding valid data is never freed from CLOSED.
FreeOnlyAfterGc ==
    [][\A l \in Lines :
         lstate[l] # "FREE" /\ lstate'[l] = "FREE" =>
             \/ lstate[l] = "GC"
             \/ lstate[l] = "CLOSED" /\ vsc[l] = 0]_vars

\* A line GC has taken is eventually back on the free list: no kref of it
\* is leaked and no stage of the GC pipeline drops it.
GcLineReclaimed == \A l \in Lines : lstate[l] = "GC" ~> lstate[l] = "FREE"

=============================================================================
