------------------------------- MODULE PblkRl -------------------------------
(***************************************************************************)
(* The pblk rate limiter (pblk-rl.c), the GC switches it drives           *)
(* (pblk-gc.c) and the SLC tier, with the threads that touch them.        *)
(*                                                                         *)
(* pblk_rl_free_lines_dec (the writer, pblk_line_replace_data) and        *)
(* pblk_rl_free_lines_inc (after __pblk_line_put has put the line back    *)
(* under free_lock) take a snapshot of free_user_blocks with an atomic    *)
(* and then run __pblk_rl_update_rates with no lock held.  Its plain      *)
(* stores to rb_user_max, rb_gc_max and rb_state are one step each here,  *)
(* so the stores of two updates interleave.  It then re-reads rb_state    *)
(* and calls pblk_gc_should_start or pblk_gc_should_stop, which read and  *)
(* write gc_active unlocked.  pblk_gc_sysfs_force changes gc_forced and   *)
(* gc_enabled under gc->lock and calls pblk_gc_should_start outside it.   *)
(*                                                                         *)
(* The GC timer (pblk_gc_timer) kicks the GC thread and then runs         *)
(* pblk_rl_update_slc_rates, whose plain stores (gc_slc among them) also  *)
(* are one step each.  The GC thread (pblk_gc_run) takes victims off the  *)
(* GC lists under gc_lock; the writer closes lines under gc_lock          *)
(* (pblk_line_close).  Lines are counted by kind (SLC or TLC) and place:  *)
(* free_list, slc_list, open, on a GC list, in the GC pipeline.           *)
(*                                                                         *)
(* No line has a write error (werr_lines = 0) and every closed line has   *)
(* valid data to move (no line goes to gc_full_list).                     *)
(***************************************************************************)
EXTENDS Integers, Sequences, FiniteSets, Bitwise

CONSTANTS
    Writers,        \* threads running pblk_line_replace_data
    Putters,        \* pblk_line_put_ws workers
    Sysfs,          \* writers of the gc_force sysfs attribute
    Timers,         \* the GC timer (pblk_gc_timer)
    GcThreads,      \* the GC thread (pblk_gc_ts running pblk_gc_run)
    NumLines,       \* lines of the target, all free at start
    NUMS_SLC_LINE,  \* the first NUMS_SLC_LINE lines are SLC lines
    BlkInLine,      \* line->blk_in_line (no bad chunk)
    OpBlks,         \* pblk->op_blks, from pblk_set_provision
    BlkMeta,        \* blk_meta of pblk_rl_init
    Budget          \* rwb.nr_entries, the budget passed to pblk_rl_init

\* pblk.h is not in the repository: the values of upstream pblk.
PBLK_MAX_REQ_ADDRS == 64
PBLK_MAX_REQ_ADDRS_PW == 6
PBLK_GC_RSV_LINE == 1

Procs == Writers \cup Putters \cup Sysfs \cup Timers \cup GcThreads
Updaters == Writers \cup Putters
Kinds == {"slc", "tlc"}
NoLock == "none"

VARIABLES
    nr_free_lines,      \* l_mg->nr_free_lines (under free_lock)
    free_blocks,        \* rl->free_blocks
    free_user_blocks,   \* rl->free_user_blocks
    rb_user_max,        \* rl->rb_user_max
    rb_gc_max,          \* rl->rb_gc_max
    rb_state,           \* rl->rb_state
    gc_active,          \* gc->gc_active
    gc_enabled,         \* gc->gc_enabled
    gc_forced,          \* gc->gc_forced
    gc_slc,             \* gc->gc_slc
    nr_free_slc_lines,  \* l_mg->nr_free_slc_lines
    free_list,          \* lines on l_mg->free_list, by kind (SLC at the head)
    slc_list,           \* SLC lines held back on l_mg->slc_list
    open_line,          \* the kind of the writer's open data line, or "none"
    data_next,          \* the kind of l_mg->data_next, or "none" (NULL)
    gc_list,            \* closed lines on the GC lists, by kind
    gc_pipe,            \* lines taken by GC and not yet put back, by kind
    gc_lock,            \* holder of l_mg->gc_lock
    pc,                 \* where each thread is
    todo                \* the stores its __pblk_rl_update_rates has left

slc_vars == <<gc_slc, nr_free_slc_lines, free_list, slc_list, open_line,
              data_next, gc_list, gc_pipe, gc_lock>>
vars == <<nr_free_lines, free_blocks, free_user_blocks, rb_user_max,
          rb_gc_max, rb_state, gc_active, gc_enabled, gc_forced, pc, todo,
          slc_vars>>

(***************************************************************************)
(* pblk_rl_init                                                           *)
(***************************************************************************)
\* get_count_order: fls(n) - 1, plus one when n is not a power of two;
\* -1 for n = 0 (fls(0) = 0)
RECURSIVE get_count_order(_)
get_count_order(n) ==
    CASE n = 0 -> -1
      [] n = 1 -> 0
      [] OTHER -> 1 + get_count_order((n + 1) \div 2)

\* rl->high, rl->high_pw, rl->rsv_blocks, rl->rb_windows_pw
high == OpBlks - BlkMeta - BlkInLine
high_pw == get_count_order(high)
rsv_blocks == BlkInLine * PBLK_GC_RSV_LINE
rb_windows_pw == get_count_order(Budget \div PBLK_MAX_REQ_ADDRS)

Regimes == {"HIGH", "OFF", "LOW", "SLC"}
Fields == {"user", "gc", "state", "slc", "nr"}
StoreOK(s) == s.f \in Fields /\ (IF s.f = "state" THEN s.v \in Regimes ELSE s.v \in Int)
St(f, v) == [f |-> f, v |-> v]

(***************************************************************************)
(* __pblk_rl_update_rates(rl, free): the stores it makes, in program      *)
(* order, for the snapshot free it was called with.                       *)
(***************************************************************************)
UserMax(free) == shiftR(free, high_pw - rb_windows_pw) * 2^PBLK_MAX_REQ_ADDRS_PW

pblk_rl_update_rates_stores(free) ==
    IF free >= high
    THEN << St("user", Budget), St("gc", 0), St("state", "OFF") >>
    ELSE << St("user", UserMax(free)), St("gc", Budget - UserMax(free)) >>
         \o (IF free <= rsv_blocks THEN << St("user", 0), St("gc", Budget) >>
                                   ELSE << >>)
         \o << St("state", "LOW") >>

\* The rate fields after pblk_rl_init (rb_user_max = budget, rb_gc_max = 0,
\* PBLK_RL_HIGH) and then the stores of one update, made in order.
RECURSIVE Applied(_, _)
Applied(r, ss) == IF ss = << >> THEN r
                  ELSE Applied([r EXCEPT ![Head(ss).f] = Head(ss).v], Tail(ss))

\* pblk_line_get_first_data, from pblk_l2p_init before pblk_gc_init: under
\* free_lock the head of free_list becomes data_line and the next head
\* data_next; then pblk_rl_free_lines_dec(rl, line, true) for data_line
\* only.  Its GC start/stop changes nothing: gc_enabled is still 0.
FirstData == IF NUMS_SLC_LINE >= 1 THEN "slc" ELSE "tlc"
FirstNext == IF NUMS_SLC_LINE >= 2 THEN "slc" ELSE "tlc"
InitRates == Applied([user |-> Budget, gc |-> 0, state |-> "HIGH"],
                     pblk_rl_update_rates_stores((NumLines - 1) * BlkInLine))

Init ==
    /\ nr_free_lines = NumLines - 2
    /\ free_blocks = (NumLines - 1) * BlkInLine
    /\ free_user_blocks = (NumLines - 1) * BlkInLine
    /\ rb_user_max = InitRates.user
    /\ rb_gc_max = InitRates.gc
    /\ rb_state = InitRates.state
    /\ gc_active = FALSE
    /\ gc_enabled = TRUE
    /\ gc_forced = 0
    /\ pc = [p \in Procs |-> "idle"]
    /\ todo = [p \in Procs |-> << >>]
    /\ gc_slc = 0
    /\ nr_free_slc_lines = NUMS_SLC_LINE
    /\ free_list = [k \in Kinds |->
                      (IF k = "slc" THEN NUMS_SLC_LINE ELSE NumLines - NUMS_SLC_LINE)
                      - Cardinality({i \in {1, 2} : <<FirstData, FirstNext>>[i] = k})]
    /\ slc_list = 0
    /\ open_line = FirstData
    /\ data_next = FirstNext
    /\ gc_list = [k \in Kinds |-> 0]
    /\ gc_pipe = [k \in Kinds |-> 0]
    /\ gc_lock = NoLock

(***************************************************************************)
(* Threads.                                                               *)
(***************************************************************************)
\* Where a thread goes when its rate update is done: the writer's update is
\* the one of pblk_line_replace_data, which then allocates data_next.
AfterUpdate(p) == IF p \in Writers THEN "next" ELSE "idle"

\* pblk_line_replace_data: new = data_next; NULL returns at once (goto out,
\* no step).  Under free_lock data_line = new; erase and metadata setup
\* have no failure here (no bad block), and pblk_rl_free_lines_dec(rl,
\* new, true) follows.  data_next is overwritten at the end of the call and
\* is read by nothing else in between, so it is shown as taken here.
pblk_line_replace_data(w) ==
    /\ pc[w] = "idle"
    /\ open_line = "none"
    /\ data_next # "none"
    /\ open_line' = data_next
    /\ data_next' = "none"
    /\ pc' = [pc EXCEPT ![w] = "dec"]
    /\ UNCHANGED <<nr_free_lines, free_blocks, free_user_blocks, rb_user_max,
                   rb_gc_max, rb_state, gc_active, gc_enabled, gc_forced, todo,
                   gc_slc, nr_free_slc_lines, free_list, slc_list, gc_list,
                   gc_pipe, gc_lock>>

\* The tail of pblk_line_replace_data, under free_lock: data_next =
\* pblk_line_get, the head of free_list (SLC lines sit at the head), with
\* no free_lines_dec; NULL when free_list is empty, whatever nr_free_lines
\* says, and then pblk_stop_writes: the writer never replaces its line
\* again.
pblk_line_get(w) ==
    /\ pc[w] = "next"
    /\ IF free_list.slc + free_list.tlc > 0
       THEN LET k == IF free_list.slc > 0 THEN "slc" ELSE "tlc"
            IN /\ free_list' = [free_list EXCEPT ![k] = @ - 1]
               /\ data_next' = k
               /\ nr_free_lines' = nr_free_lines - 1
       ELSE UNCHANGED <<free_list, data_next, nr_free_lines>>
    /\ pc' = [pc EXCEPT ![w] = "idle"]
    /\ UNCHANGED <<free_blocks, free_user_blocks, rb_user_max, rb_gc_max,
                   rb_state, gc_active, gc_enabled, gc_forced, todo, gc_slc,
                   nr_free_slc_lines, slc_list, open_line, gc_list, gc_pipe,
                   gc_lock>>

\* pblk_line_close: under gc_lock the line is closed and an SLC line drops
\* nr_free_slc_lines, a plain l_mg->nr_free_slc_lines-- that
\* __pblk_line_put's ++ under free_lock, another lock, can interleave
\* with: the load is one step (the value to store kept in todo), the
\* store, the list_add_tail to the GC list and the unlock the next.
pblk_line_close(w) ==
    /\ pc[w] = "idle"
    /\ open_line # "none"
    /\ gc_lock = NoLock
    /\ gc_lock' = w
    /\ todo' = [todo EXCEPT ![w] = IF open_line = "slc"
                                   THEN << St("nr", nr_free_slc_lines - 1) >>
                                   ELSE << >>]
    /\ pc' = [pc EXCEPT ![w] = "close"]
    /\ UNCHANGED <<data_next, nr_free_lines, free_blocks, free_user_blocks, rb_user_max,
                   rb_gc_max, rb_state, gc_active, gc_enabled, gc_forced,
                   gc_slc, nr_free_slc_lines, free_list, slc_list, open_line,
                   gc_list, gc_pipe>>

pblk_line_close_store(w) ==
    /\ pc[w] = "close"
    /\ nr_free_slc_lines' = IF todo[w] = << >> THEN nr_free_slc_lines ELSE Head(todo[w]).v
    /\ gc_list' = [gc_list EXCEPT ![open_line] = @ + 1]
    /\ open_line' = "none"
    /\ gc_lock' = NoLock
    /\ todo' = [todo EXCEPT ![w] = << >>]
    /\ pc' = [pc EXCEPT ![w] = "idle"]
    /\ UNCHANGED <<data_next, nr_free_lines, free_blocks, free_user_blocks, rb_user_max,
                   rb_gc_max, rb_state, gc_active, gc_enabled, gc_forced,
                   gc_slc, free_list, slc_list, gc_pipe>>

pblk_line_put(p) ==
    /\ pc[p] = "idle"
    /\ \E k \in Kinds :
       /\ gc_pipe[k] > 0
       /\ gc_pipe' = [gc_pipe EXCEPT ![k] = @ - 1]
       /\ IF k = "tlc" \/ gc_slc = 0
          THEN /\ free_list' = [free_list EXCEPT ![k] = @ + 1]
               /\ UNCHANGED slc_list
          ELSE LET parked == slc_list + (IF nr_free_slc_lines < NUMS_SLC_LINE THEN 1 ELSE 0)
                   moved == IF nr_free_slc_lines + 1 = NUMS_SLC_LINE THEN NUMS_SLC_LINE ELSE 0
               IN /\ slc_list' = parked - moved
                  /\ free_list' = [free_list EXCEPT !.slc = @ + moved]
       /\ nr_free_slc_lines' = nr_free_slc_lines + (IF k = "slc" THEN 1 ELSE 0)
    /\ nr_free_lines' = nr_free_lines + 1
    /\ pc' = [pc EXCEPT ![p] = "inc"]
    /\ UNCHANGED <<data_next, free_blocks, free_user_blocks, rb_user_max, rb_gc_max,
                   rb_state, gc_active, gc_enabled, gc_forced, todo, gc_slc,
                   open_line, gc_list, gc_lock>>

\* pblk_rl_free_lines_dec / _inc: atomic_sub/add on free_blocks and
\* atomic_sub_return/add_return on free_user_blocks; the value returned is
\* the snapshot __pblk_rl_update_rates works from.  It returns at once
\* while gc_slc = 1, before the GC start/stop decision.
RlUpdate(p, free) ==
    IF gc_slc = 1
    THEN /\ pc' = [pc EXCEPT ![p] = AfterUpdate(p)]
         /\ UNCHANGED todo
    ELSE /\ todo' = [todo EXCEPT ![p] = pblk_rl_update_rates_stores(free)]
         /\ pc' = [pc EXCEPT ![p] = "store"]

pblk_rl_free_lines_dec(p) ==
    /\ pc[p] = "dec"
    /\ free_blocks' = free_blocks - BlkInLine
    /\ free_user_blocks' = free_user_blocks - BlkInLine
    /\ RlUpdate(p, free_user_blocks - BlkInLine)
    /\ UNCHANGED <<nr_free_lines, rb_user_max, rb_gc_max, rb_state, gc_active,
                   gc_enabled, gc_forced, slc_vars>>

pblk_rl_free_lines_inc(p) ==
    /\ pc[p] = "inc"
    /\ free_blocks' = free_blocks + BlkInLine
    /\ free_user_blocks' = free_user_blocks + BlkInLine
    /\ RlUpdate(p, free_user_blocks + BlkInLine)
    /\ UNCHANGED <<nr_free_lines, rb_user_max, rb_gc_max, rb_state, gc_active,
                   gc_enabled, gc_forced, slc_vars>>
\* One plain store of __pblk_rl_update_rates or of
\* pblk_rl_update_slc_rates; the timer is done after its last store.
RlStore(p) ==
    /\ pc[p] \in {"store", "slc"}
    /\ todo[p] # << >>
    /\ LET s == Head(todo[p]) IN
       /\ rb_user_max' = IF s.f = "user" THEN s.v ELSE rb_user_max
       /\ rb_gc_max' = IF s.f = "gc" THEN s.v ELSE rb_gc_max
       /\ rb_state' = IF s.f = "state" THEN s.v ELSE rb_state
       /\ gc_slc' = IF s.f = "slc" THEN s.v ELSE gc_slc
    /\ todo' = [todo EXCEPT ![p] = Tail(@)]
    /\ pc' = IF pc[p] = "slc" /\ Len(todo[p]) = 1 THEN [pc EXCEPT ![p] = "idle"] ELSE pc
    /\ UNCHANGED <<data_next, nr_free_lines, free_blocks, free_user_blocks, gc_active,
                   gc_enabled, gc_forced, nr_free_slc_lines, free_list,
                   slc_list, open_line, gc_list, gc_pipe, gc_lock>>

\* The tail of __pblk_rl_update_rates re-reads rb_state.
RlDecide(p) ==
    /\ pc[p] = "store"
    /\ todo[p] = << >>
    /\ pc' = [pc EXCEPT ![p] = IF rb_state # "OFF" THEN "start" ELSE "stop"]
    /\ UNCHANGED <<nr_free_lines, free_blocks, free_user_blocks, rb_user_max,
                   rb_gc_max, rb_state, gc_active, gc_enabled, gc_forced, todo,
                   slc_vars>>

\* pblk_gc_should_start: pblk_gc_start when enabled and not active (the
\* kick of the GC thread changes nothing modelled here).
pblk_gc_should_start(p) ==
    /\ pc[p] = "start"
    /\ gc_active' = (gc_active \/ gc_enabled)
    /\ pc' = [pc EXCEPT ![p] = AfterUpdate(p)]
    /\ UNCHANGED <<nr_free_lines, free_blocks, free_user_blocks, rb_user_max,
                   rb_gc_max, rb_state, gc_enabled, gc_forced, todo, slc_vars>>

\* pblk_gc_should_stop: clears gc_active unless GC is forced.
pblk_gc_should_stop(p) ==
    /\ pc[p] = "stop"
    /\ gc_active' = (gc_active /\ gc_forced # 0)
    /\ pc' = [pc EXCEPT ![p] = AfterUpdate(p)]
    /\ UNCHANGED <<nr_free_lines, free_blocks, free_user_blocks, rb_user_max,
                   rb_gc_max, rb_state, gc_enabled, gc_forced, todo, slc_vars>>

\* mutant: the range check on force is dropped
pblk_gc_sysfs_force_nocheck(p, force) ==
    /\ pc[p] = "idle"
    /\ gc_forced' = force
    /\ gc_enabled' = (force # 0)
    /\ pc' = [pc EXCEPT ![p] = "start"]
    /\ UNCHANGED <<nr_free_lines, free_blocks, free_user_blocks, rb_user_max,
                   rb_gc_max, rb_state, gc_active, todo, slc_vars>>

\* pblk_gc_sysfs_force: -EINVAL for a force outside 0..1 (no step); under
\* gc->lock gc_forced = force and gc_enabled follows it;
\* pblk_gc_should_start after the unlock.
pblk_gc_sysfs_force(p, force) ==
    /\ pc[p] = "idle"
    /\ force >= 0 /\ force <= 1
    /\ gc_forced' = force
    /\ gc_enabled' = (force # 0)
    /\ pc' = [pc EXCEPT ![p] = "start"]
    /\ UNCHANGED <<nr_free_lines, free_blocks, free_user_blocks, rb_user_max,
                   rb_gc_max, rb_state, gc_active, todo, slc_vars>>

\* pblk_rl_update_slc_rates(rl): the stores of its three branches, from
\* the nr_free_slc_lines it read and gc_slc.  idle30 stands for cnt > 30,
\* thirty-odd timer ticks that saw no free SLC line and no I/O in flight.
pblk_rl_update_slc_rates_stores(nr, idle30) ==
    CASE idle30 /\ nr = 0 /\ gc_slc = 0 ->
            << St("gc", 2^rb_windows_pw), St("user", Budget - 2^rb_windows_pw),
               St("state", "SLC"), St("slc", 1) >>
      [] nr < NUMS_SLC_LINE /\ gc_slc = 1 -> << St("state", "SLC") >>
      [] nr = NUMS_SLC_LINE /\ gc_slc = 1 ->
            << St("user", Budget), St("gc", 0), St("state", "OFF"), St("slc", 0) >>
      [] OTHER -> << >>

\* pblk_gc_timer: pblk_gc_kick, then pblk_rl_update_slc_rates, which reads
\* nr_free_slc_lines with no lock held and stores unlocked.  A tick whose
\* branches all fail changes nothing.
pblk_gc_timer(t, idle30) ==
    /\ pc[t] = "idle"
    /\ pblk_rl_update_slc_rates_stores(nr_free_slc_lines, idle30) # << >>
    /\ todo' = [todo EXCEPT ![t] = pblk_rl_update_slc_rates_stores(nr_free_slc_lines, idle30)]
    /\ pc' = [pc EXCEPT ![t] = "slc"]
    /\ UNCHANGED <<nr_free_lines, free_blocks, free_user_blocks, rb_user_max,
                   rb_gc_max, rb_state, gc_active, gc_enabled, gc_forced, slc_vars>>

\* pblk_gc_should_run (werr_lines = 0): gc_slc, or GC active with fewer
\* free blocks than rl->high.
pblk_gc_should_run == gc_slc = 1 \/ (gc_active /\ high > free_blocks)

\* One pass of the loop of pblk_gc_run: with gc_lock taken and a line on
\* the GC lists, it breaks out of the loop when rb_state is SLC and gc_slc
\* is not 1, with gc_lock still held; else it takes a victim off its list
\* into the GC pipeline and drops gc_lock.  An empty list is an unlock and
\* return, no change.  (Which group list holds the victim is abstracted.)
pblk_gc_run(g) ==
    /\ pc[g] = "idle"
    /\ pblk_gc_should_run
    /\ gc_lock = NoLock
    /\ \E k \in Kinds :
       /\ gc_list[k] > 0
       /\ IF rb_state = "SLC" /\ gc_slc # 1
          THEN /\ gc_lock' = g
               /\ UNCHANGED <<gc_list, gc_pipe>>
          ELSE /\ gc_list' = [gc_list EXCEPT ![k] = @ - 1]
               /\ gc_pipe' = [gc_pipe EXCEPT ![k] = @ + 1]
               /\ UNCHANGED gc_lock
    /\ UNCHANGED <<nr_free_lines, free_blocks, free_user_blocks, rb_user_max,
                   rb_gc_max, rb_state, gc_active, gc_enabled, gc_forced, pc,
                   todo, gc_slc, nr_free_slc_lines, free_list, slc_list, open_line,
                   data_next>>

Next ==
    \/ \E w \in Writers : pblk_line_replace_data(w) \/ pblk_rl_free_lines_dec(w)
                          \/ pblk_line_get(w)
                          \/ pblk_line_close(w) \/ pblk_line_close_store(w)
    \/ \E p \in Putters : pblk_line_put(p) \/ pblk_rl_free_lines_inc(p)
    \/ \E p \in Sysfs, force \in -1..2 : pblk_gc_sysfs_force(p, force)
    \/ \E t \in Timers, idle30 \in BOOLEAN : pblk_gc_timer(t, idle30)
    \/ \E g \in GcThreads : pblk_gc_run(g)
    \/ \E p \in Procs : RlStore(p) \/ RlDecide(p)
                        \/ pblk_gc_should_start(p) \/ pblk_gc_should_stop(p)

\* A thread that has begun an update, or holds gc_lock in pblk_line_close,
\* runs it to the end.
Spec == Init /\ [][Next]_vars /\ \A p \in Procs : WF_vars(RlStore(p) \/ RlDecide(p)
                        \/ pblk_gc_should_start(p) \/ pblk_gc_should_stop(p)
                        \/ pblk_line_close_store(p))

(***************************************************************************)
(* Properties                                                             *)
(***************************************************************************)
Quiescent == \A p \in Procs : pc[p] = "idle"

TypeOK ==
    /\ nr_free_lines \in 0..NumLines
    /\ free_blocks \in Int /\ free_user_blocks \in Int
    /\ rb_user_max \in Int /\ rb_gc_max \in Int
    /\ rb_state \in Regimes
    /\ gc_active \in BOOLEAN /\ gc_enabled \in BOOLEAN /\ gc_forced \in 0..1
    /\ pc \in [Procs -> {"idle", "dec", "inc", "store", "slc", "start", "stop", "close", "next"}]
    /\ gc_slc \in 0..1 /\ nr_free_slc_lines \in Int
    /\ free_list \in [Kinds -> 0..NumLines] /\ slc_list \in Int
    /\ open_line \in Kinds \cup {"none"} /\ data_next \in Kinds \cup {"none"}
    /\ gc_list \in [Kinds -> 0..NumLines] /\ gc_pipe \in [Kinds -> 0..NumLines]
    /\ gc_lock \in GcThreads \cup Writers \cup {NoLock}
    /\ \A p \in Procs : \A i \in DOMAIN todo[p] : StoreOK(todo[p][i])

\* With no update under way and GC enabled, whenever the user free blocks
\* are below rl->high the GC thread can reclaim: pblk_gc_should_run holds
\* for it (gc_active from pblk_gc_should_start for the regime the last
\* update stored, or the SLC regime's gc_slc) and gc_lock is free.
GcCanRun ==
    Quiescent /\ gc_enabled /\ free_user_blocks < high =>
        /\ gc_active \/ gc_slc = 1
        /\ gc_lock = NoLock

\* Every SLC line is in exactly one place: on free_list, held on slc_list,
\* open, data_next, on a GC list or in the GC pipeline.  __pblk_line_put moves
\* NUMS_SLC_LINE lines off slc_list once gc_slc = 1 and all SLC lines are
\* back; the list must hold them.  And nr_free_slc_lines, which
\* pblk_line_close decrements under gc_lock and __pblk_line_put increments
\* under free_lock, counts the SLC lines not closed and put back, the ones
\* on a GC list or in the pipeline: the timer's SLC regime switches read it.
SlcLinesAccounted ==
    /\ slc_list >= 0
    /\ free_list.slc + slc_list + (IF open_line = "slc" THEN 1 ELSE 0)
         + (IF data_next = "slc" THEN 1 ELSE 0) + gc_list.slc + gc_pipe.slc = NUMS_SLC_LINE
    /\ nr_free_slc_lines = NUMS_SLC_LINE - gc_list.slc - gc_pipe.slc

====
