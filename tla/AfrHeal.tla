------------------------------ MODULE AfrHeal -------------------------------
(***************************************************************************)
(* The self-heal of the data of the file that the clients of AfrTransaction *)
(* write (afr-self-heal-common.c, afr-self-heal-data.c), while they write.  *)
(* The healer locks the whole file, reads the changelogs, decides whose     *)
(* data is right, and lets go of the lock; then it copies block by block,   *)
(* locking each, and at last takes from the changelogs what it had read.    *)
(*                                                                         *)
(* A lock is reduced to what it excludes: it is taken in one step on all    *)
(* bricks the healer reaches, when no transaction holds an overlapping one  *)
(* there, and is gone on a brick whose connection breaks.  The healer runs  *)
(* on a volume without eager-lock: a write locks its own range.             *)
(***************************************************************************)
EXTENDS AfrTransaction, FiniteSetsExt

CONSTANTS
    Healer,   \* the client that heals: the self-heal daemon
    Heal      \* volume -> HealType

HealType ==
    [block : [Txns -> Nat \ {0}],   \* the block a write lies in
     refusals : SUBSET {"truncate", "write", "short", "fsync"},
                                    \* calls a sink may refuse, or cut short
     errors : Nat,                  \* bound: refused calls
     deaths : Nat,                  \* bound: crashes of the healer
     overdue : BOOLEAN]             \* see LockFile

ASSUME HealAssumption ==
    /\ Healer \in Clients
    /\ \A v \in Volumes : /\ Heal[v] \in HealType
                          /\ ~Volume[v].delayed_post_op
                          /\ \A x \in Txns : Volume[v].mount[x] # Healer

VARIABLE heal    \* the locals of afr_selfheal_data and what it calls

hvars == <<vol, txn, fd_ctx, brick, late, conn, changes, failures, heal>>

block(x) == Heal[vol].block[x]
Blocks == {block(x) : x \in Txns}

Up == conn[Healer]

\* What of the file a brick has in block k.
Content(b, k) == {x \in brick[b].data : block(x) = k}

\* The size of a brick's file, in blocks.
ia_size(b) == Max({0} \cup {block(x) : x \in brick[b].data})

Zero == [j \in Bricks |-> 0]

AFR_SH_MIN_PARTICIPANTS == 2

NoHeal == [pc |-> "idle", held |-> {}, range |-> {}, data_lock |-> {},
           dirty |-> Zero, matrix |-> [i \in Bricks |-> Zero], size |-> Zero,
           sinks |-> {}, healed_sinks |-> {}, source |-> 1, off |-> 0,
           iovec |-> {}, todo |-> {}, errors |-> 0, deaths |-> 0]

\* The heal is over, done or not; nothing is kept but the bounds.
ended(h) == [NoHeal EXCEPT !.errors = h.errors, !.deaths = h.deaths]

----------------------------------------------------------------------------
(* Who is right?  m[i][j] is what brick i has pending for brick j.          *)

self_accused(m) == {i \in Bricks : m[i][i] # 0}

accused(m) == {j \in Bricks : \E i \in Bricks \ self_accused(m) : m[i][j] # 0}

\* Mutant: the accused are the sources.
SourcesAccused(m, locked) == IF accused(m) = {} THEN locked ELSE locked \cap accused(m)

find_sources(m, locked) == locked \ accused(m)

find_sinks(m, locked) ==
    {j \in Bricks : \E i \in find_sources(m, locked) \ self_accused(m) : m[i][j] # 0}

\* The counters are added up in a uint64_t: a negative sum is larger than all
\* others.  Only the order of the sums matters; WRAP is above all of them.
WRAP == 1000
uint64(n) == IF n < 0 THEN WRAP + n ELSE n

\* How many fops a brick has witnessed that others may have missed.
witness(m, dirty, i) ==
    LET others == MapThenSumSet(LAMBDA j : m[i][j], Bricks \ {i})
        silent == \A j \in Bricks \ {i} : m[i][j] = 0
    IN uint64(dirty[i] + (IF m[i][i] = 0 THEN 0
                          ELSE IF silent THEN m[i][i] ELSE others))

Largest(S, f) == {i \in S : \A j \in S : f[j] <= f[i]}

\* The sets of sources that __afr_selfheal_data_finalize_source may settle on.
\* With differing sizes or witnesses it takes one: of the largest files those
\* with the most witnesses, of these the one with the last ctime, which may be
\* any.
finalize_source(src, size, valid, m, dirty) ==
    IF /\ \A i, j \in valid : size[i] = size[j]
       /\ \A i \in src : witness(m, dirty, i) = 0
    THEN {src}
    ELSE {{i} : i \in Largest(Largest(src, size),
                              [j \in src |-> witness(m, dirty, j)])}

----------------------------------------------------------------------------
(* The heal, step by step.                                                 *)

\* The bricks where transactions hold locks that overlap a range of blocks.
LockedByWriters(range) ==
    UNION {txn[x].pre_op \cap conn[Mount[x]] :
             x \in {y \in Txns : Active(y) /\ block(y) \in range}}

CanLock(range) == LockedByWriters(range) \cap Up = {}

Rest == UNCHANGED <<vol, txn, fd_ctx, conn, changes, failures>>

is_data_set(b) == brick[b].dirty # 0 \/ \E j \in Bricks : brick[b].pending[j] # 0

data_selfheal ==
    /\ \/ \E b \in Up : is_data_set(b)
       \/ \E a, b \in Up : ia_size(a) # ia_size(b)
    /\ Cardinality(Up) >= AFR_SH_MIN_PARTICIPANTS

\* afr_selfheal_unlocked_inspect, and the try-lock in the domain of self-heals,
\* which nobody else holds.
Inspect ==
    /\ heal.pc = "idle"
    /\ data_selfheal
    /\ heal' = [heal EXCEPT !.pc = "lock"]
    /\ Rest /\ UNCHANGED <<brick, late>>

\* The whole file is locked.  Unless overdue, a call of a broken connection
\* that no brick has executed by now never will be.
LockFile ==
    /\ heal.pc = "lock"
    /\ CanLock(Blocks)
    /\ heal' = IF Cardinality(Up) < AFR_SH_MIN_PARTICIPANTS THEN ended(heal)
               ELSE [heal EXCEPT !.pc = "prepare", !.held = Up, !.range = Blocks,
                                 !.data_lock = Up]
    /\ late' = IF Heal[vol].overdue THEN late ELSE {}
    /\ Rest /\ UNCHANGED brick

\* __afr_selfheal_data_prepare: lookups on all bricks that are up.
Prepare ==
    LET m      == [i \in Bricks |-> IF i \in Up THEN brick[i].pending ELSE Zero]
        dirty  == [i \in Bricks |-> IF i \in Up THEN brick[i].dirty ELSE 0]
        size   == [i \in Bricks |-> IF i \in Up THEN ia_size(i) ELSE 0]
        locked == heal.data_lock
        src    == find_sources(m, locked)
        sink   == find_sinks(m, locked)
    IN /\ heal.pc = "prepare"
       /\ IF Cardinality(Up) < AFR_SH_MIN_PARTICIPANTS \/ src = {}
             \/ sink \cap locked = locked
          THEN heal' = ended(heal)
          ELSE \E s \in finalize_source(src, size, Up, m, dirty) :
                 heal' = [heal EXCEPT !.pc = "truncate", !.matrix = m, !.dirty = dirty,
                                      !.size = size, !.sinks = sink,
                                      !.healed_sinks = locked \ s, !.source = Min(s)]
       /\ Rest /\ UNCHANGED <<brick, late>>

\* The loop of afr_selfheal_data_do at block off.
at_block(h, off) ==
    IF off > h.size[h.source] THEN [h EXCEPT !.pc = "fsync", !.off = off]
    ELSE IF h.healed_sinks = {} THEN ended(h)
    ELSE [h EXCEPT !.pc = "block", !.off = off]

unlocked(h) == [h EXCEPT !.held = {}, !.range = {}]

\* The sinks among S on which a call may fail: the lost ones, and perhaps ones
\* that refuse it.
MayFail(S, call) ==
    IF call \in Heal[vol].refusals /\ heal.errors < Heal[vol].errors
    THEN {F \in SUBSET S : S \ Up \subseteq F}
    ELSE {S \ Up}

failed_on(h, F) == [h EXCEPT !.healed_sinks = @ \ F,
                             !.errors = IF F \cap Up = {} THEN @ ELSE @ + 1]

\* __afr_selfheal_truncate_sinks; then the file is unlocked.
TruncateSinks ==
    LET size   == heal.size[heal.source]
        larger == {i \in heal.healed_sinks : heal.size[i] > size}
    IN /\ heal.pc = "truncate"
       /\ \E F \in MayFail(larger, "truncate") :
            /\ brick' = [i \in Bricks |->
                           IF i \in larger \ F
                           THEN [brick[i] EXCEPT !.data = {x \in @ : block(x) <= size}]
                           ELSE brick[i]]
            /\ heal' = at_block(unlocked(failed_on(heal, F)), 1)
       /\ Rest /\ UNCHANGED late

\* __afr_selfheal_data_checksums_match: a brick that was not asked, or did not
\* answer, has another checksum than the source.
checksums_match(h) ==
    /\ h.source \in Up
    /\ \A i \in Bricks \ {h.source} :
         i \in h.healed_sinks \cap Up /\ Content(i, h.off) = Content(h.source, h.off)

\* afr_selfheal_data_block until it has read the source.
LockBlock ==
    LET h == [heal EXCEPT !.held = Up, !.range = {heal.off}] IN
    /\ heal.pc = "block"
    /\ CanLock({heal.off})
    /\ heal' = IF Cardinality(Up) < Cardinality(h.healed_sinks) THEN ended(h)
               ELSE IF checksums_match(h) THEN at_block(unlocked(h), h.off + 1)
               ELSE IF h.source \notin Up THEN ended(h)
               ELSE [h EXCEPT !.pc = "write", !.todo = h.healed_sinks,
                              !.iovec = Content(h.source, h.off)]
    /\ Rest /\ UNCHANGED <<brick, late>>

\* The writes of block k, and how many of them a write of the block brings to a
\* sink: all, a part if it is short, none if it fails.
Region(k) == {x \in Txns : block(x) = k}

Parts(k, ret) ==
    CASE ret = "done"  -> {Region(k)}
      [] ret = "short" -> SUBSET Region(k) \ {Region(k)}
      [] ret = "write" -> {{}}

WriteReturns(i) ==
    IF i \notin Up THEN {"write"}
    ELSE {"done"} \cup {ret \in Heal[vol].refusals \cap {"write", "short"} :
                         heal.errors < Heal[vol].errors}

\* One turn of the loop in __afr_selfheal_data_read_write.  What the last write
\* returns is what the function returns: after an error the heal is given up, a
\* short write only costs the sink its place among healed_sinks.
WriteSink ==
    LET i == Min(heal.todo) IN
    /\ heal.pc = "write"
    /\ \E ret \in WriteReturns(i) :
         LET F == {k \in {i} : ret # "done"}
             h == [failed_on(heal, F) EXCEPT !.todo = @ \ {i}] IN
         /\ \E part \in Parts(heal.off, ret) :
              brick' = [brick EXCEPT ![i].data = (@ \ part) \cup (heal.iovec \cap part)]
         /\ heal' = IF h.todo # {} THEN h
                    ELSE IF ret = "write" THEN ended(h)
                    ELSE at_block([unlocked(h) EXCEPT !.iovec = {}], h.off + 1)
    /\ Rest /\ UNCHANGED late

FsyncSinks ==
    /\ heal.pc = "fsync"
    /\ \E F \in MayFail(heal.healed_sinks, "fsync") :
         /\ brick' = [i \in Bricks |-> IF i \in heal.healed_sinks \ F
                                       THEN [brick[i] EXCEPT !.stable = brick[i].data]
                                       ELSE brick[i]]
         /\ heal' = [failed_on(heal, F) EXCEPT !.pc = "undo", !.todo = heal.data_lock]
    /\ Rest /\ UNCHANGED late

\* The sinks that were not healed.
still_pending(h) == h.sinks \ h.healed_sinks

\* Mutant: the changelog is set to zero whatever has been added meanwhile.
UndoToZero(h, B, i) == [B EXCEPT !.dirty = 0, !.pending = Zero]

\* Mutant: dirty is not taken off.
UndoNotDirty(h, B, i) ==
    [B EXCEPT !.pending = [j \in Bricks |-> IF j \in still_pending(h) THEN @[j] + 1
                                            ELSE @[j] - h.matrix[i][j]]]

\* afr_selfheal_undo_pending on brick i: what was read is taken off.
undo(h, B, i) ==
    [B EXCEPT !.dirty = IF i \in still_pending(h) THEN @ ELSE @ - h.dirty[i],
              !.pending = [j \in Bricks |-> IF j \in still_pending(h) THEN @[j] + 1
                                            ELSE @[j] - h.matrix[i][j]]]

UndoPending ==
    LET i == Min(heal.todo) IN
    /\ heal.pc = "undo"
    /\ brick' = IF i \in Up THEN [brick EXCEPT ![i] = undo(heal, @, i)] ELSE brick
    /\ heal' = IF heal.todo = {i} THEN ended(heal) ELSE [heal EXCEPT !.todo = @ \ {i}]
    /\ Rest /\ UNCHANGED late

HealStep == \/ Inspect \/ LockFile \/ Prepare \/ TruncateSinks \/ LockBlock
            \/ WriteSink \/ FsyncSinks \/ UndoPending

HealerCrash ==
    /\ heal.pc # "idle" /\ heal.deaths < Heal[vol].deaths
    /\ heal' = [ended(heal) EXCEPT !.deaths = @ + 1]
    /\ Rest /\ UNCHANGED <<brick, late>>

----------------------------------------------------------------------------
HealInit == Init /\ heal = NoHeal

\* A write waits for the healer's lock.
LockedByHealer(x) == block(x) \in heal.range /\ conn[Mount[x]] \cap heal.held # {}

Writers ==
    /\ \/ \E x \in Txns : (Begin(x) /\ ~LockedByHealer(x)) \/ CallReturns(x)
       \/ \E c \in Volume[vol].crashing : ClientCrash(c)
       \/ \E m \in late : LateCall(m)
    /\ UNCHANGED heal

\* The healer connects again only between heals.
Faults ==
    /\ \/ \E n \in Volume[vol].networks :
            NetworkChange(n) /\ (n[Healer] \subseteq Up \/ heal.pc = "idle")
       \/ \E b \in Bricks : PowerFailure(b)
    /\ heal' = [heal EXCEPT !.held = @ \cap conn'[Healer]]

HealNext == HealStep \/ HealerCrash \/ Writers \/ Faults

HealSpec == HealInit /\ [][HealNext]_hvars

CanStep == CASE heal.pc = "idle"  -> data_selfheal
             [] heal.pc = "lock"  -> CanLock(Blocks)
             [] heal.pc = "block" -> CanLock({heal.off})
             [] OTHER             -> TRUE

\* Calls return, and the daemon looks again at every file that is marked: weak
\* fairness of HealStep, with its enabling condition spelled out.
HealFairness ==
    /\ CallsReturn
    /\ []<>~CanStep \/ []<><<heal' # heal>>_hvars

----------------------------------------------------------------------------
(* Properties; Trustworthy and SourceHasAll of AfrTransaction hold, too.    *)

\* The range locks are held exactly while the changelogs are read and sinks are
\* truncated or written, and never on a brick that cannot be reached.
HealTypeOK ==
    /\ heal.pc \in {"idle", "lock", "prepare", "truncate", "block", "write", "fsync", "undo"}
    /\ heal.range \subseteq Blocks
    /\ heal.range # {} <=> heal.pc \in {"prepare", "truncate", "write"}
    /\ heal.held \subseteq Up
    /\ heal.data_lock \cup heal.sinks \cup heal.todo \subseteq Bricks
    /\ heal.healed_sinks \subseteq heal.data_lock \ {heal.source}
    /\ heal.iovec \subseteq Txns
    /\ \A b \in Bricks : brick[b].data \subseteq Txns /\ brick[b].dirty \in Int

\* All bricks have the same data and no marks.
Healthy ==
    \A b \in Bricks : ~is_data_set(b) /\ brick[b].data = brick[1].data

\* What was lost, cut short or left behind is healed at last, if the healer
\* stays connected to all bricks: no mark is left for ever, and there is nothing
\* it takes for a split-brain.
HealsAtLast == <>[](Up = Bricks) => <>[]Healthy
=============================================================================
