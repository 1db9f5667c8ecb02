------------------------------ MODULE NvmCore ------------------------------
(***************************************************************************)
(* The LightNVM device core (src/lightnvm/core.c): the registry of open-  *)
(* channel devices (nvm_devices under nvm_lock), the targets of each      *)
(* device (dev->targets under dev->mlock) and the LUN reservation bitmap  *)
(* (dev->lun_map, updated bit by bit with atomic test_and_set_bit).       *)
(*                                                                         *)
(* Each ioctl thread runs one create or remove at a time; the device      *)
(* driver may unregister a device (pblk_nvm_unregister) at any time.  A   *)
(* step is a stretch of code between two points where another thread can *)
(* run: a lock section, one atomic bit operation, or a lock-free read of  *)
(* a list node.                                                            *)
(***************************************************************************)
EXTENDS Naturals, Sequences, FiniteSets, SequencesExt

CONSTANTS
    Procs,          \* ioctl threads
    Devs,           \* registered devices, in nvm_devices order
    Names,          \* target (gendisk) names
    NumLuns,        \* geo.all_luns of every device
    LunsPerCh,      \* geo.num_lun: LUNs per channel
    InitMayFail,    \* an allocation, alloc_disk, tt->init or sysfs_init fails
    Unregister      \* the driver may call pblk_nvm_unregister

ASSUME /\ NumLuns >= 1 /\ IsFiniteSet(Devs) /\ Devs # {}
       /\ LunsPerCh >= 1 /\ NumLuns % LunsPerCh = 0     \* all_luns = num_ch * num_lun

Luns == 0..NumLuns - 1
\* nvm_config_check_luns: lun_begin <= lun_end < all_luns
Ranges == {r \in Luns \X Luns : r[1] <= r[2]}
RangeLuns(lo, hi) == lo..hi

(***************************************************************************)
(* nvm_create_tgt_dev: the channel map of a target of LUNs lo..hi.  The   *)
(* number of channels is num_lun / geo.num_lun rounded up; channel i of   *)
(* the target is device channel bch + i (ch_off = bch for all of them),   *)
(* holds MIN(luns_left, geo.num_lun) LUNs, and its LUN offset is blun for *)
(* the first channel and 0 after.                                          *)
(***************************************************************************)
MinOf(a, b) == IF a < b THEN a ELSE b

nvm_create_tgt_dev(lo, hi) ==
    LET num_lun == hi - lo + 1
        num_ch  == num_lun \div LunsPerCh + (IF num_lun % LunsPerCh = 0 THEN 0 ELSE 1)
        bch     == lo \div LunsPerCh
        blun    == lo % LunsPerCh
    IN [i \in 0..num_ch - 1 |->
          [ch_off  |-> bch,
           num_lun |-> MinOf(num_lun - i * LunsPerCh, LunsPerCh),
           lun_off |-> IF i = 0 THEN blun ELSE 0]]

\* nvm_remove_tgt_dev(clear = 1): the bits it test_and_clear's, one per
\* (channel, lun) of the map, lunid = (i + ch_off) * geo.num_lun + j + lun_offs[j]
MapSlots(m) == UNION {{<<i, j>> : j \in 0..m[i].num_lun - 1} : i \in DOMAIN m}
TgtDevLunIds(m) ==
    [k \in MapSlots(m) |-> (k[1] + m[k[1]].ch_off) * LunsPerCh + k[2] + m[k[1]].lun_off]

ClearedLuns(lo, hi) == Range(TgtDevLunIds(nvm_create_tgt_dev(lo, hi)))

(***************************************************************************)
(* dev->rmap, the device's reverse map: per channel a ch_off and a LUN     *)
(* offset per LUN, -1 from nvm_register_map.  nvm_create_tgt_dev writes,   *)
(* for channel i of the new target, ch_rmap = rmap.chnls[i + bch]:         *)
(* ch_rmap->ch_off = bch and lun_roffs[j + blun] = blun, j < luns_in_chnl. *)
(* An index past geo.num_lun is the overrun TgtDevMapExact is about; it is *)
(* left out here.                                                          *)
(***************************************************************************)
Chs == 0..NumLuns \div LunsPerCh - 1
ChLuns == 0..LunsPerCh - 1
RegisteredMap == [c \in Chs |-> [ch_off |-> -1, lun_offs |-> [l \in ChLuns |-> -1]]]

\* mutant: the channel offset written is the target's channel index i
RmapCreate_ch_off_i(rm, lo, hi) ==
    LET m == nvm_create_tgt_dev(lo, hi)
        bch == lo \div LunsPerCh
    IN [c \in Chs |->
          IF c - bch \in DOMAIN m
          THEN [ch_off |-> c - bch,
                lun_offs |-> [l \in ChLuns |->
                   IF l - m[c - bch].lun_off \in 0..m[c - bch].num_lun - 1
                   THEN m[c - bch].lun_off ELSE rm[c].lun_offs[l]]]
          ELSE rm[c]]

RmapCreate(rm, lo, hi) ==
    LET m == nvm_create_tgt_dev(lo, hi)
        bch == lo \div LunsPerCh
    IN [c \in Chs |->
          IF c - bch \in DOMAIN m
          THEN [ch_off |-> bch,
                lun_offs |-> [l \in ChLuns |->
                   IF l - m[c - bch].lun_off \in 0..m[c - bch].num_lun - 1
                   THEN m[c - bch].lun_off ELSE rm[c].lun_offs[l]]]
          ELSE rm[c]]

\* nvm_map_to_dev: a target address <<ch, lun>> through the target's map;
\* nvm_map_to_tgt: a device address back through the device's rmap.
nvm_map_to_dev(m, a) == <<a[1] + m[a[1]].ch_off, a[2] + m[a[1]].lun_off>>
nvm_map_to_tgt(rm, a) == <<a[1] - rm[a[1]].ch_off, a[2] - rm[a[1]].lun_offs[a[2]]>>
Idle == [pc |-> "idle"]

VARIABLES
    devlist,    \* nvm_devices, head first
    freed,      \* devices released by nvm_free
    unreg,      \* progress of pblk_nvm_unregister per device
    targets,    \* the nvm_target structs on dev->targets
    lun_map,    \* dev->lun_map
    rmap,       \* dev->rmap
    th          \* each ioctl thread: its program point and locals

vars == <<devlist, freed, unreg, targets, lun_map, rmap, th>>

Target == [dev : Devs, name : Names, lo : Luns, hi : Luns]

OnDevList(d) == \E i \in 1..Len(devlist) : devlist[i] = d

(***************************************************************************)
(* Init: every device has been through pblk_nvm_register (nvm_init, then  *)
(* list_add at the head of nvm_devices); no target exists yet.            *)
(***************************************************************************)
Init ==
    /\ devlist \in {s \in [1..Cardinality(Devs) -> Devs] : ToSet(s) = Devs}
    /\ freed = {}
    /\ unreg = [d \in Devs |-> "none"]
    /\ targets = {}
    /\ lun_map = [d \in Devs |-> {}]
    /\ rmap = [d \in Devs |-> RegisteredMap]
    /\ th = [p \in Procs |-> Idle]

(***************************************************************************)
(* nvm_ioctl_dev_create -> __nvm_configure_create: the device is looked   *)
(* up under nvm_lock, which is then dropped; __nvm_config_simple and      *)
(* nvm_config_check_luns accept the range.  A device not found, or a bad  *)
(* range, returns -EINVAL with nothing changed.                           *)
(***************************************************************************)
__nvm_configure_create(p, d, n, r) ==
    /\ th[p].pc = "idle"
    /\ OnDevList(d)
    /\ th' = [th EXCEPT ![p] = [pc |-> "exists", dev |-> d, name |-> n,
                                lo |-> r[1], hi |-> r[2], i |-> r[1]]]
    /\ UNCHANGED <<devlist, freed, unreg, targets, lun_map, rmap>>

\* nvm_target_exists: under nvm_lock and each device's mlock, is the name
\* taken by a target of a device on nvm_devices?
nvm_target_exists(n) == \E t \in targets : t.name = n /\ OnDevList(t.dev)

CreateExists(p) ==
    /\ th[p].pc = "exists"
    /\ th' = [th EXCEPT ![p] = IF nvm_target_exists(th[p].name) THEN Idle
                               ELSE [@ EXCEPT !.pc = "reserve"]]
    /\ UNCHANGED <<devlist, freed, unreg, targets, lun_map, rmap>>

(***************************************************************************)
(* nvm_reserve_luns, one test_and_set_bit per step.  A bit already set    *)
(* sends the loop to its error path, which clears the bits it set, from   *)
(* the last down to lun_begin, and returns -EBUSY.                        *)
(***************************************************************************)
\* mutant: the loop bound is lun_end + 1 (i <= lun_end + 1)
ReserveLun_past_end(p) ==
    LET t == th[p] IN
    /\ t.pc = "reserve"
    /\ IF t.i \in lun_map[t.dev]
         THEN /\ th' = [th EXCEPT ![p].pc = "rollback"]
              /\ UNCHANGED lun_map
         ELSE /\ lun_map' = [lun_map EXCEPT ![t.dev] = @ \cup {t.i}]
              /\ th' = [th EXCEPT ![p] = IF t.i = t.hi + 1 THEN [@ EXCEPT !.pc = "setup"]
                                         ELSE [@ EXCEPT !.i = @ + 1]]
    /\ UNCHANGED <<devlist, freed, unreg, targets, rmap>>

ReserveLun(p) ==
    LET t == th[p] IN
    /\ t.pc = "reserve"
    /\ IF t.i \in lun_map[t.dev]
         THEN /\ th' = [th EXCEPT ![p].pc = "rollback"]
              /\ UNCHANGED lun_map
         ELSE /\ lun_map' = [lun_map EXCEPT ![t.dev] = @ \cup {t.i}]
              /\ th' = [th EXCEPT ![p] = IF t.i = t.hi THEN [@ EXCEPT !.pc = "setup"]
                                         ELSE [@ EXCEPT !.i = @ + 1]]
    /\ UNCHANGED <<devlist, freed, unreg, targets, rmap>>

\* mutant: the error path starts clearing at the bit it failed on
ReserveRollback_from_i(p) ==
    LET t == th[p] IN
    /\ t.pc = "rollback"
    /\ IF t.i < t.lo
         THEN /\ th' = [th EXCEPT ![p] = Idle]
              /\ UNCHANGED lun_map
         ELSE /\ lun_map' = [lun_map EXCEPT ![t.dev] = @ \ {t.i}]
              /\ th' = [th EXCEPT ![p].i = @ - 1]
    /\ UNCHANGED <<devlist, freed, unreg, targets, rmap>>

\* while (--i >= lun_begin) clear_bit(i, dev->lun_map);
ReserveRollback(p) ==
    LET t == th[p] IN
    /\ t.pc = "rollback"
    /\ IF t.i - 1 < t.lo
         THEN /\ th' = [th EXCEPT ![p] = Idle]
              /\ UNCHANGED lun_map
         ELSE /\ lun_map' = [lun_map EXCEPT ![t.dev] = @ \ {t.i - 1}]
              /\ th' = [th EXCEPT ![p].i = @ - 1]
    /\ UNCHANGED <<devlist, freed, unreg, targets, rmap>>

(***************************************************************************)
(* The rest of nvm_create_tgt before the target is published: kmalloc of  *)
(* the target, nvm_create_tgt_dev, alloc_disk, the queue, tt->init (the   *)
(* whole of pblk_init) and sysfs_init.  Any failure unwinds and ends in   *)
(* nvm_release_luns_err, which clears lun_begin..lun_end; nothing undoes  *)
(* the rmap entries nvm_create_tgt_dev wrote if the failure comes after   *)
(* it (written).                                                          *)
(***************************************************************************)
nvm_release_luns_err(d, lo, hi) ==
    lun_map' = [lun_map EXCEPT ![d] = @ \ RangeLuns(lo, hi)]

CreateSetup(p) ==
    LET t == th[p] IN
    /\ t.pc = "setup"
    /\ \/ /\ th' = [th EXCEPT ![p].pc = "add"]
          /\ rmap' = [rmap EXCEPT ![t.dev] = RmapCreate(@, t.lo, t.hi)]
          /\ UNCHANGED lun_map
       \/ /\ InitMayFail
          /\ nvm_release_luns_err(t.dev, t.lo, t.hi)
          /\ th' = [th EXCEPT ![p] = Idle]
          /\ \E written \in BOOLEAN :
                rmap' = IF written THEN [rmap EXCEPT ![t.dev] = RmapCreate(@, t.lo, t.hi)]
                        ELSE rmap
    /\ UNCHANGED <<devlist, freed, unreg, targets>>

\* under dev->mlock: list_add_tail(&t->list, &dev->targets)
CreateAdd(p) ==
    LET t == th[p] IN
    /\ t.pc = "add"
    /\ targets' = targets \cup {[dev |-> t.dev, name |-> t.name, lo |-> t.lo, hi |-> t.hi]}
    /\ th' = [th EXCEPT ![p] = Idle]
    /\ UNCHANGED <<devlist, freed, unreg, lun_map, rmap>>

(***************************************************************************)
(* __nvm_remove_target: the disk and queue go, tt->exit runs, and         *)
(* nvm_remove_tgt_dev(clear = 1) clears the LUN bits of the target's map; *)
(* the target leaves dev->targets.  Callers hold dev->mlock.              *)
(***************************************************************************)
__nvm_remove_target(t) ==
    /\ targets' = targets \ {t}
    /\ lun_map' = [lun_map EXCEPT ![t.dev] = @ \ ClearedLuns(t.lo, t.hi)]

(***************************************************************************)
(* nvm_ioctl_dev_remove walks nvm_devices with list_for_each_entry and no *)
(* lock, calling nvm_remove_tgt on each device until one finds the name.  *)
(* A step is one nvm_remove_tgt (under that device's mlock) followed by   *)
(* the read of dev->devices.next.                                         *)
(***************************************************************************)
nvm_ioctl_dev_remove(p, n) ==
    /\ th[p].pc = "idle"
    /\ devlist # <<>>
    /\ th' = [th EXCEPT ![p] = [pc |-> "remove", dev |-> devlist[1], name |-> n,
                                lo |-> 0, hi |-> 0, i |-> 0]]
    /\ UNCHANGED <<devlist, freed, unreg, targets, lun_map, rmap>>

\* the device after d in the list: none at the end of the list
NextDev(d) ==
    LET k == CHOOSE i \in 1..Len(devlist) : devlist[i] = d IN
    IF k = Len(devlist) THEN {} ELSE {devlist[k + 1]}

nvm_remove_tgt(p) ==
    LET d == th[p].dev
        found == {t \in targets : t.dev = d /\ t.name = th[p].name}
    IN
    /\ th[p].pc = "remove"
    /\ IF found # {}
         THEN /\ __nvm_remove_target(CHOOSE t \in found : TRUE)
              /\ th' = [th EXCEPT ![p] = Idle]
         ELSE /\ th' = [th EXCEPT ![p] =
                          IF ~OnDevList(d) \/ NextDev(d) = {} THEN Idle
                          ELSE [@ EXCEPT !.dev = CHOOSE x \in NextDev(d) : TRUE]]
              /\ UNCHANGED <<targets, lun_map>>
    /\ UNCHANGED <<devlist, freed, unreg, rmap>>

(***************************************************************************)
(* pblk_nvm_unregister: under dev->mlock every target of the device is    *)
(* removed (graceful = false); then, under nvm_lock, the device leaves    *)
(* nvm_devices, and nvm_free releases it with its lun_map.                *)
(***************************************************************************)
UnregisterTargets(d) ==
    /\ Unregister
    /\ unreg[d] = "none"
    /\ targets' = {t \in targets : t.dev # d}
    /\ lun_map' = [lun_map EXCEPT ![d] =
                     @ \ UNION {ClearedLuns(t.lo, t.hi) : t \in {u \in targets : u.dev = d}}]
    /\ unreg' = [unreg EXCEPT ![d] = "targets"]
    /\ UNCHANGED <<devlist, freed, th, rmap>>

UnregisterFree(d) ==
    /\ unreg[d] = "targets"
    /\ devlist' = SelectSeq(devlist, LAMBDA x : x # d)
    /\ freed' = freed \cup {d}
    /\ unreg' = [unreg EXCEPT ![d] = "freed"]
    /\ UNCHANGED <<targets, lun_map, th, rmap>>

Next ==
    \/ \E p \in Procs :
         \/ \E d \in Devs, n \in Names, r \in Ranges : __nvm_configure_create(p, d, n, r)
         \/ \E n \in Names : nvm_ioctl_dev_remove(p, n)
         \/ CreateExists(p) \/ ReserveLun(p) \/ ReserveRollback(p)
         \/ CreateSetup(p) \/ CreateAdd(p) \/ nvm_remove_tgt(p)
    \/ \E d \in Devs : UnregisterTargets(d) \/ UnregisterFree(d)

\* The properties checked are invariants: no fairness is assumed.
Spec == Init /\ [][Next]_vars

(***************************************************************************)
(* Properties                                                              *)
(***************************************************************************)
TypeOK ==
    /\ devlist \in Seq(Devs)
    /\ freed \subseteq Devs
    /\ unreg \in [Devs -> {"none", "targets", "freed"}]
    /\ targets \subseteq Target
    /\ lun_map \in [Devs -> SUBSET Luns]
    /\ rmap \in [Devs -> [Chs -> [ch_off : -1..Cardinality(Chs), lun_offs : [ChLuns -> -1..LunsPerCh]]]]
    /\ \A p \in Procs : th[p].pc \in {"idle", "exists", "reserve", "rollback",
                                     "setup", "add", "remove"}

\* The LUN bits a create in progress has set so far.
HeldBy(p) ==
    LET t == th[p] IN
    CASE t.pc \in {"reserve", "rollback"} -> RangeLuns(t.lo, t.i - 1)
      [] t.pc \in {"setup", "add"}        -> RangeLuns(t.lo, t.hi)
      [] OTHER                            -> {}

\* The LUNs of a live device are owned exclusively: the targets of the
\* device have disjoint ranges, and lun_map is exactly the union of their
\* ranges and of the bits that nvm_reserve_luns calls in progress have set;
\* no two of those overlap.  This is what the test_and_set_bit loop, its
\* rollback, nvm_release_luns_err and nvm_remove_tgt_dev keep between them.
LunOwnership ==
    \A d \in Devs \ freed :
        LET tl == {RangeLuns(t.lo, t.hi) : t \in {u \in targets : u.dev = d}}
            pl == [p \in {q \in Procs : th[q].pc # "idle" /\ th[q].pc # "remove"
                                        /\ th[q].dev = d} |-> HeldBy(p)]
        IN
        /\ lun_map[d] = UNION tl \cup UNION {pl[p] : p \in DOMAIN pl}
        /\ \A t, u \in {v \in targets : v.dev = d} :
              t # u => RangeLuns(t.lo, t.hi) \cap RangeLuns(u.lo, u.hi) = {}
        /\ \A p, q \in DOMAIN pl : p # q => pl[p] \cap pl[q] = {}
        /\ \A p \in DOMAIN pl, t \in {v \in targets : v.dev = d} :
              pl[p] \cap RangeLuns(t.lo, t.hi) = {}

\* The channel map nvm_create_tgt_dev built for each target covers exactly
\* the target's LUN range, each LUN once and every LUN offset inside its
\* channel: then nvm_remove_tgt_dev clears exactly the bits
\* nvm_reserve_luns set (it WARNs on a bit already clear), and the writes to
\* lun_roffs[j + blun] stay within the geo.num_lun entries of the device's
\* channel map.
TgtDevMapExact ==
    \A t \in targets :
        LET m == nvm_create_tgt_dev(t.lo, t.hi) IN
        /\ Cardinality(MapSlots(m)) = t.hi - t.lo + 1
        /\ Range(TgtDevLunIds(m)) = RangeLuns(t.lo, t.hi)
        /\ \A k \in MapSlots(m) : k[2] + m[k[1]].lun_off < LunsPerCh

\* nvm_create_tgt refuses a name that nvm_target_exists finds, so no two
\* targets share a gendisk name.
UniqueTargetNames ==
    \A t, u \in targets : t # u => t.name # u.name

\* pblk_end_io converts the addresses of every completed request back with
\* nvm_rq_dev_to_tgt, through the device's rmap: for every target on
\* dev->targets, each of its addresses mapped to the device by
\* nvm_map_to_dev comes back as itself, whatever other targets of the
\* device were created, failed or removed since.
AddrRoundTrip ==
    \A t \in targets :
        LET m == nvm_create_tgt_dev(t.lo, t.hi) IN
        \A k \in MapSlots(m) :
            LET a == nvm_map_to_dev(m, k) IN
            a[1] \in Chs /\ a[2] \in ChLuns => nvm_map_to_tgt(rmap[t.dev], a) = k

\* Every target nvm_create_tgt published on dev->targets is well formed:
\* no other target has its gendisk name, its channel map is exactly its
\* LUN range, and its addresses convert back from the device.
TargetsSound == UniqueTargetNames /\ TgtDevMapExact /\ AddrRoundTrip

\* No thread works on a device that nvm_free has released: the create path
\* after its device lookup, and the remove walk on the device it is at.
NoUseAfterFree == \A p \in Procs : th[p].pc # "idle" => th[p].dev \notin freed

=============================================================================
