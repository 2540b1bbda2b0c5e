# A TLA+ model of lfsmr (Hyaline)

The repository holds Hyaline, a family of lock-free memory reclamation schemes
(`src/hyaline`), and a benchmark (`src/benchmark`) that runs them against epoch
and pointer based schemes under several concurrent maps. This directory models
the schemes step by step, down to the double-word atomics they are built from,
checks the models with TLC and proves the main results about six of them
(Hyaline, Hyaline-1, Hyaline-S, Hyaline-1S, the trackers and the atomics) with TLAPS.

Paths below are relative to `src/`; `common` is `hyaline/bits/lfsmr_common.h`,
`cas2` is `hyaline/bits/lfsmr_cas2.h`, `cas1` is `hyaline/bits/lfsmr_cas1.h`;
`bcommon`, `bcas2` and `bcas1` are the same files of the robust variants,
`hyaline/bits/lfbsmr_*.h`.

## 1. Inventory

### How the parts interact

A data structure (a map) hands every node it has unlinked to a reclamation
scheme, which frees it when no thread can hold a pointer to it any more. The
interface is a bracket: `enter` / `leave` (`start_op` / `end_op`) around every
operation, `retire` inside it, and for the schemes that protect single pointers a
`read` around every load. The schemes call back the client's free function. All
shared state is in words that are accessed by atomic instructions; the only
locks are in the lock-based map and in the harness.

### Components

| component | state | operations | what is hard | what makes it correct |
|---|---|---|---|---|
| Hyaline (`cas2`, `common`) | per slot a head [count, pointer]; per batch a counter and one next pointer per slot | enter, leave, trim, retire, free | every step interleaves; the counter wraps around; heads are emptied in two steps on LL/SC machines; trim leaves in the middle of a walk | no access to freed memory, no early free, no double free, no leak, progress without new work |
| Hyaline-1 (`cas1`, `common`) | per thread a head [bit, pointer]; counters as above | the same | the counter is completed only at the end of retire; pointers are reused under the compare-and-swap | the same |
| Batches of nodes (`common` 180-223) | first, last, counter of a batch; links of its nodes | retire of one node, finalization with dummy nodes | enough nodes for the slots in use; which node holds the counter | a node is in one list at most, the counter's node in none |
| Hyaline-S, Hyaline-1S (`hyaline/bits/lfbsmr_*.h`) | as above, and per slot an access epoch and an acknowledgement counter, a global epoch, birth epochs | as above, and deref, init_node, change of slot | epochs read and published in separate steps; relaxed counters; signed epoch differences | as above for pointers obtained by deref; stalled threads hold back a bounded number of batches |
| Platform atomics (`hyaline/bits/{lf,c11,gcc_x86,llvm_x86,ppc,mips}.h`) | none | load, fetch-and-add, compare-and-swap of all or half of a double word | LL/SC versions change one half | each access is atomic |
| Hyaline trackers (`benchmark/src/trackers/Hyaline*.hpp`) | handle, slot, batch of each thread | start_op, end_op, last_end_op, retire, alloc | formulas of batch sizes; threads keep their handle across operations with trim | their calls respect the scheme's contract |
| RCU / QSBR (`RCUTracker.hpp`) | epoch, reservation per thread, retired list per thread | start_op, end_op, retire, empty, alloc | epoch read and stored in two steps; scans are not atomic; QSBR starts unprotected | no node is freed that a thread inside could reach |
| Interval trackers (`IntervalTracker`, `RangeTracker*`, `HETracker`) | epoch, reservations (one, two or several per thread), birth and retire epochs | as above, and read, transfer | validation loops against scans | a node whose lifetime meets a reservation is not freed |
| Hazard pointers (`HazardTracker.hpp`) | slots of pointers, retired lists | read, reserve, clear, retire, empty | publish, then validate | no node in a slot is freed |
| Tracker base (`BaseTracker`, `MemoryTracker`, `RetiredMonitorable`) | counters for plots | dispatch | none | none of its own |
| Hash map and list (`SortedUnorderedMap*`, `LinkList*`) | buckets of sorted lists with marked pointers | get, put, insert, remove, replace | helping; put replaces a node in two steps | every unlinked node is retired once; operations are linearizable |
| Natarajan tree | external tree with flagged and tagged edges, seek records | the same, range query | helping deletes | the same |
| Bonsai tree | a root pointer to an immutable tree with per-version lists | the same | the root swap, lists of new and replaced nodes | the same |
| Lock-based map | one lock, one map | the same | none | mutual exclusion |
| Block pool (`benchmark/ext/parharness/BlockPool.hpp`) | per thread a stack, a global stack of groups with a counted pointer | alloc, free | pointer reuse on the global stack, the pointer to the middle of the local stack | a block has one owner |
| Harness, tests, entry points | configuration, statistics, three barriers | run | none beyond the barriers | none modelled |

Third-party code (`optional.hpp`), scripts and data have no logic of the system.
`PROJECT.json` has the same list with the state of each part, and the hazards of
the code with the line at which each bites.

## 2. Modules

| module | what it is |
|---|---|
| `SafeReclaim` | abstract specification: what a client of an enter / leave / retire scheme may rely on |
| `SafePointers` | abstract specification: what a client may rely on that reads pointers through the scheme |
| `AtomicPair` | abstract specification: an atomic word of a count and a pointer |
| `Words` | arithmetic of unsigned words of w bits, w given by `Mod` = 2^w |
| `Chains` | pointers, and what it means that next pointers form a given list |
| `Hyaline` | `cas2` over `common`, with its inductive invariant; implements `SafeReclaim` |
| `Hyaline1` | `cas1` over `common`, with its inductive invariant; implements `SafeReclaim` |
| `Batch` | the nodes inside a batch: retire of single nodes, free, the sizes chosen by the trackers; implements `SafeReclaim` for each node |
| `Robust` | what `HyalineS` and `Hyaline1S` share: `bcommon`, deref, the client's structure |
| `HyalineS` | `bcas2` over `bcommon`, with its inductive invariant; implements `SafePointers` |
| `HyalineSlots` | `Hyaline` with the three steps more that its slots take in the robust scheme; the link from `HyalineS` to `Hyaline` |
| `Hyaline1S` | `bcas1` over `bcommon`, with its inductive invariant; implements `SafePointers` |
| `DoubleWord` | `lf.h` and the platform headers: the operations on a head, a memory access at a time, with its inductive invariant; implements `AtomicPair` |
| `Trackers` | RCU, QSBR, 2GEIBR, hazard eras and hazard pointers, with an inductive invariant for all five; implements `SafePointers` |
| `MC...` | symmetry sets and instances for TLC |
| `HyalineLemmas` | lemmas about words and chains, proved |
| `HyalineProofs` | proofs about `Hyaline` and `HyalineSlots`: types, what each step does to one thread, where each slot's share of a counter is, the counts of the slots, the threads to outlive, and the theorems |
| `Hyaline1Proofs` | proofs about `Hyaline1`, and its theorems |
| `HyalineSThreads` | proofs about `HyalineS`: what each step does to one thread, and that it is a step of `HyalineSlots` |
| `HyalineSProofs` | proofs: the client's pointers, the acknowledgements, the threads that stay in a slot, and the theorems |
| `Hyaline1SProofs` | proofs about `Hyaline1S`, and its theorems |
| `TrackersProofs` | proofs about `Trackers`, and its theorems |
| `DoubleWordProofs` | proofs about `DoubleWord`, and its theorems |

How they fit together: `Hyaline` and `HyalineS` load and change a head in one step;
`DoubleWord` shows that what the platforms do in several steps is that step.
`Hyaline` takes a batch for a value with a node for every slot; `Batch` shows that
it is one, and `HyalineS` has the number of nodes as an invariant (`NodesSuffice`),
since there the threads change slots. `HyalineS` implements `HyalineSlots`, so what is
proved of lists and counters there is not proved twice.

### SafeReclaim

Three variables: `active`, the threads inside; `status[b]`, a batch is live,
retired or freed; `grace[b]`, the threads that were inside when `b` was retired
and have not left (or trimmed) since. The promise is the guard of `Free`:
`grace[b] = {}`. Nodes are unlinked before they are retired, so threads that
enter later cannot reach them and are not in `grace`. A freed name may be
allocated and retired again; both Hyaline modules keep the same three variables
and change them at the same points, so the refinement mapping is the identity.
The history variable `grace` is cleared for a thread at the *first* access of
`leave` or `trim`: from that point on the client holds no reference.

### Hyaline and Hyaline1: state

| model | code |
|---|---|
| `head[s]` | `hdr->vector[s].head`: `refs` and `ptr` (`cas2`), or bit 0 and the rest (`cas1`) |
| `next[b][s]` | `next` of the node of batch `b` that is in the list of slot `s` |
| `refs[b]` | `refs` of the last node of `b` |
| `vec[t]`, `smr[t]` | the client's slot number and handle |
| `pc[t]`, `op[t]` | the next atomic access of `t` and the call it belongs to |
| `last[t]` | local `last` of `__leave` and `__retire` |
| `walk[t]` | locals `curr`, `next`, `end` of `__traverse` (and `next` that `__leave` has read) |
| `outer[t]` | the same locals of trim's `__traverse` while it runs the nested `__leave` |
| `thr[t]` | trim's `*threshold` |
| `list[t]` | the local list of batches to free |
| `batch[t]`, `slot[t]`, `adjs[t]`, `doAdjs[t]` | `first`, `i`, `adjs`, `do_adjs` of `__retire` |

History variables, which only the properties read: the batches `t` will still decrement,
as three sequences in the order of the walk, `held[t]` (in its slot, down to the
handle), `todo[t]` (ahead of its current walk) and `later[t]` (what trim has left when it
runs the nested leave). In `Hyaline1` `held[t]` starts with the head; in `Hyaline` it
starts one batch below, since the newest batch of a slot is walked over by nobody, and
two variables describe a retirement: `skipped[t]`, the slots it has passed by, and
`covers[t]`, the threads whose count it is about to add to the batch that was the head.

### Hyaline and Hyaline1: actions

One action per atomic access of shared memory, with the local computation that
follows up to the next one; `PROJECT.json` gives the lines of each.

| code | Hyaline | Hyaline1 |
|---|---|---|
| enter | `Enter` | `Enter` |
| `__leave` | `Leave` (first load), `LeaveRead`, `LeaveCas`, `LeaveCasFails`, `LeaveClear`, `LeaveClearFails`, `LeaveAdjust` | `Leave` (the exchange) |
| `__traverse` | `TravRead`, `TravDrop`; the leave inside it starts with `NestedLeave` | the same |
| trim | `TrimNothing`, `TrimBegin`, `TrimRead`, `Reenter` | the same |
| retire of a full batch | `Retire`, `RetireLoad`, `Insert`, `InsertFails`, `RetireAdjust`, `RetireNext`, `RetireFinish` | `Retire`, `RetireLoad`, `Insert`, `InsertFails`, `RetireFinish` |
| `__free` | `Free`, once per batch of the list, in any order | the same |
| return of a call | `EndCall` | `EndCall` |
| the allocator reuses memory | `Alloc` | `Alloc` |

`CmpxchgFull` is `__LFREF_CMPXCHG_FULL`: TRUE for compare-and-swap of the double
word (x86, C11), FALSE for the LL/SC implementations (`ppc.h`, `mips.h`), which
compare the whole head but store one half; there `leave` drops the count and
clears the pointer in two steps, the second of which fails if a thread came.
`RetireOutside` tells whether a thread that is not between enter and leave calls
retire.

### SafePointers

`status[b]` goes from "freed" to "new" to "linked" to "retired"; `holds[t]` is what
thread `t` has pointers to. A batch is freed only while nobody holds it. It need not
outlive threads that are inside without a pointer to it, which is what makes a scheme
robust. The implementations map their client state: `status` as it is, `holds` from
the thread's locals (pointers it has read and not given up by leave, by trim, or by
reading another one into the same hazard slot).

### Robust, HyalineS, Hyaline1S

| model | code |
|---|---|
| `global`, `access[s]`, `head[s]` | `hdr->global`, `hdr->vector[s].access`, `.head` |
| `counter[s]` (HyalineS) | `hdr->vector[s].counter` |
| `next`, `refs`, `birth` | words of the nodes of a batch |
| `root`, `status` | the client's structure: one cell, and what it does with a batch |
| `loc[t]` | the client's slot, handle and pointers, the next access, and the locals of the calls, one record for each thread |

`into` of a thread's locals is history: the slots the retirement has inserted into. So are
`minEpoch`, and `held`, `todo` and `later`, of `Hyaline1S`, the last three as in `Hyaline1`,
and `held`, `todo`, `later` and `covers` of `HyalineS`, as in `Hyaline`.
`retire` picks the smallest birth epoch of the batch (`MinEpoch`): that of the node
the client linked, and a free choice for the others.

| code | Robust, HyalineS | Hyaline1S |
|---|---|---|
| init_node | `Alloc` (loads the epoch, or adds one to it) | the same |
| enter | `EnterLook` (one round of the search for a slot), `EnterAdd` | `Enter` |
| deref | `Deref`, `DerefLoad`, `DerefEpoch`, `DerefAccess` | the same |
| `__leave` | `LeaveLoad`, `LeaveRead`, `LeaveCas`, `LeaveClear`, `LeaveAdjust` | `Leave` |
| `__traverse`, ack | `TravRead`, `TravDrop`, `Ack` | the same, `Ack` does nothing |
| trim | `Trim`, `TrimRead` | the same |
| retire | `Retire`, `RetireAccess`, `RetireLoad`, `RetireCas`, `RetireAdjust`, `RetireCount`, `RetireFinish` | without `RetireAdjust`, `RetireCount` |
| free, return | `Free`, `EndCall` | the same |

The client allocates a batch, links it at `root` in place of another, and retires
what it has unlinked; it reads `root` by deref only.

### Batch

Memory is three words for each address: `next`, `link` (batch_link) and `word`, the
union of batch_next and refs. `config` holds the number of threads, slots and the
batch size, computed as the constructors of HyalineTrackerEL and HyalineTrackerTR do.
`Enter` and `Leave` are one step each, as is the insertion in one slot (`Insert`,
`PassBy`): what happens between their accesses is the matter of `Hyaline`. `Retire`
links one node, and starts the insertion when the batch is full; `RetireEnd` is the
last adjustment and `lfsmr_batch_init`; `Free` gives back one node and reads where to
go on from its third word.

### DoubleWord

`platform` and `wide` say what was built; `word` is the head in memory, a count and a
pointer; `reserved` the threads that hold a reservation; `loc[t]` the call and the
registers of a thread. `Call` starts one of load, link, fetch-and-add and the
compare-and-swaps (of the count, of the pointer, strong or weak); then each memory
access is a step: half loads in either order (`LoadHalf`), `CasHits`, `CasMisses`,
`AddOnce`, `AddCas`, `LoadLinked`, `LoadOther`, `StoreConditional`, `StoreFails` (for
no reason at all, as the processor may), and the comparison of the x86 loop and of
PowerPC's and MIPS's registers (`Answer`, `Test`). `AtomicPair` has the same calls with
one instant of effect and the answer it allows; a load of a wide word may return two
halves of different times (`tears`), and a compare-and-swap with such an expected value
fails or finds exactly that value.

### Trackers

`entry[t][i]` are the reservations (an epoch, the two ends of an interval, eras, or
pointers), `retired[t]` the list of a thread, `loc[t]` its locals. `scheme` is chosen at
the start. `Start`, `StartStore`, `Read...`, `Hazard...`, `End`, `EndStore` publish and
withdraw; `Copy` copies one reservation of one thread, so others move between two
copies; `Free` frees what no copy conflicts with (`KeepsRCU`, `Keeps2GEIBR`, `KeepsHE`,
`KeepsHazard`), `Tick` moves the epoch.

### What is abstracted

* A batch is a value in the modules of the schemes. Its node in slot `s` is
  (batch, `s`).
* A load of a head is one step there (see `DoubleWord` for the halves: a torn value only
  makes the next compare-and-swap fail, or is the value of the word, or makes
  `leave` read a node of its own list again). A weak compare-and-swap does not fail
  spuriously: that would repeat a step of the loop; `DoubleWord` has that failure.
* Sequential consistency: memory orders are not modelled.
* `check` is `LF_DONTCHECK`, so the error returns are never taken.
* `node->next` of a node under construction is written in the step that publishes
  it.
* `lfsmr_retire_one` and `lfbsmr_retire_one`, which nothing calls, are left out.
* In `Hyaline1` and `Hyaline1S`, slots beyond the number of threads are never on and
  left out.
* Epochs are numbers up to a bound, so their wrap-around is not reached.
* In `Trackers` and `Robust` the client's structure is one pointer, enough for any
  number of nodes to be reachable, unlinked and retired in any order. The counters that
  say when to move the epoch and when to scan are free choices. The second slot of
  hazard eras and hazard pointers is used while the first is in use. What a scan copied
  is kept as the set of objects it found in use.
* In `Trackers`, a read of a thread in QSBR before its first `end_op` is not counted as
  a held pointer: the code protects nothing there (`RCUTracker.hpp` 67, 89).
* In `Batch`, each node is retired once (the case of a reused address is
  `Hyaline`'s), and with three threads only one of them retires.

## 3. Properties

Of `Hyaline` and `Hyaline1`:

* `TouchesOnlyRetired`: the batch whose memory the next access of a thread reads
  or writes is retired, not freed and not already collected for freeing, and not
  null. Every pointer the code dereferences is covered. A counter that reached 0
  twice would violate it, so it also excludes double frees.
* `FreesAreSafe`: a collected batch has outlived everyone it had to.
* `RefsAccountedFor` (Hyaline): the counting argument of the algorithm. With the
  adjustments that are under way added, the counter is `Addend` for each slot that
  is finished with the batch plus one for each thread that owes it a decrement, in
  arithmetic modulo 2^w.
* `SlotsAgree` (Hyaline): a slot's count is the number of threads in it; a slot
  without threads holds a batch only while a thread is about to clear it.
* `AllPaid` (Hyaline): a thread that is out, or is about to re-enter after a
  flush of trim, has given back every reference it was counted for.
* `QuietIsClean`: with nobody inside and no call under way, the slots are empty
  and everything retired has been freed.
* `IInv`: the inductive invariant of the proofs, see section 5; also of `Hyaline1S`,
  `Trackers` and `DoubleWord`, and `OwnInv` of `HyalineS`. It says of every state what keeps the next steps safe: which pointers lead
  where, and what the counters are made up of.
* `ImplementsSafeReclaim`: refinement of `SafeReclaim`.
* `EverythingReclaimed` (Hyaline): if from some point on nobody enters, trims or
  retires, every call returns and everything that was retired is freed, and both
  stay so: no thread is left in a retry loop. Fairness: weak
  fairness of the steps inside a call (the scheduler runs every thread) and of
  `Leave` (a thread that is inside leaves in the end, as every operation of the
  benchmark does between `start_op` and `end_op`). Nothing is assumed of the
  operations clients may start: no fairness of enter, trim or retire. The
  algorithm is lock-free, not wait-free, so with others starting operations for
  ever a retry loop may starve, hence the premise.

Of `Batch`:

* `CountersApart`: a node is in the list of one slot at most, and the node with the
  counter in none. It fails if a batch has too few nodes for the slots in use.
* `OnlyFillingRemain`: with everybody out, what is retired and not freed is exactly
  what waits in batches that are not full; free has met each node of every other
  batch, and the walk has ended at the counter.
* `ImplementsSafeReclaim`: for each single node, from its own call of retire on.

Of `HyalineS` and `Hyaline1S`:

* `ImplementsSafePointers`: what deref returned is not freed before it is given up,
  although retire passes by slots whose epoch is old and epochs are read and
  published in separate steps.
* `TouchesOnlyRetired`, `QuietIsClean`: as above.
* `AcksBalance`: a slot that nobody is in, or is about to leave or to count for, has
  a counter of 0. Otherwise `enter` would go round the slot for ever, or take one in which
  a thread stalls for a free one.
* `NodesSuffice`: while threads change their slots, each slot that a retirement has
  inserted into keeps a thread, so a batch of one node for each thread and one for the
  counter does not run out. This is the size `HyalineSTrackerEL.hpp` (line 69) computes
  when there are fewer threads than slots. Threads can be in more slots over the time of
  one retirement than there are threads; the property says that it does not matter.
* `Robust1` (Hyaline1S): while thread 0 stays inside, between two calls, for ever, a
  retired batch whose nodes were all born after the last epoch it read a pointer in is
  freed. Fairness is of thread 1 only: weak fairness of its steps, and strong fairness
  of its leave, which is enabled again and again between its other calls.

Of `DoubleWord`:

* `ImplementsAtomicPair`: each operation takes effect in one instant between its call
  and its return, on the whole pair, and reports what it found there; an operation
  that reports failure has changed nothing.
* `LinkReportsPointer`: the operation that trim takes a batch's address from returns
  the pointer.

Of `Trackers`:

* `ImplementsSafePointers`: nothing is freed that a thread read under the protection of
  the scheme, with scans that copy the reservations one after the other.
* `OutsideReservesNothing`: a thread that is outside holds nothing back (QSBR, in which
  a thread is never outside, excepted).
* `IntervalsInOrder` (2GEIBR): the upper end of a reservation that protects is not below
  its lower end, between any two stores.

## 4. Runs

| run | instance | distinct states | result |
|---|---|---|---|
| `hyaline` | 2 threads, 3 batches, 2 slots, w = 3, full CAS, retire inside, trim threshold 1 | 1.25 million | all properties hold |
| `hyaline_llsc` | 3 threads, 2 batches, 1 slot, w = 2, half CAS, retire inside and outside | 103 thousand | all properties hold |
| `hyaline_live` | 2 threads, 2 batches, 2 slots, w = 3, half CAS, trim thresholds 0 and 1, no symmetry | 302 thousand | `IInv` and `EverythingReclaimed` hold |
| `hyaline_outside` | 2 threads, 2 batches, 2 slots, retire outside allowed, no trim | | `TouchesOnlyRetired` is violated, see below |
| `hyaline1` | 2 threads, 3 batches, w = 2, trim threshold 1 | 1.0 million | all properties hold |
| `batch` | up to 3 threads, the setting `slots` up to 3 (1, 2 or 4 slots), nodes for two full batches, the least size of the TR tracker scaled from 64 to 4 | 485 thousand | all properties hold |
| `hyaline_s` | 2 threads, 2 batches, 2 slots, w = 3, half CAS, epochs 0 and 1, stall threshold 1, trim threshold 1 | 1.6 million | `OwnInv` and all properties hold |
| `hyaline_1s` | 2 threads, 2 batches, w = 2, epochs 0 and 1, trim threshold 1 | 1.1 million | all properties hold |
| `hyaline_1s_live` | the same without trim and symmetry; thread 0 may stop | 680 thousand | `Robust1` holds |
| `atomics` | 2 threads, halves of one bit, the wide word of every platform and the narrow one of PowerPC | 1.6 million | `IInv` and the refinement hold |
| `atomics_link` | the wide word of GCC on x86 without the macro for the byte order | | `LinkReportsPointer` is violated, see below |
| `trackers` | 2 threads, 2 objects, 1 step of the epoch, all five schemes | 1.4 million | all properties hold |

Why the bounds are enough to show the interesting cases.

*Hyaline, Hyaline-1.* Nothing but the sets of the constants bounds the models: there are
no state constraints, calls repeat for ever and batches are reused, so stale
compare-and-swaps meet reused pointers. Two batches are what a slot's list needs to
have an old and a new head. Trim needs three to leave in the middle of a walk with
something left to walk: the new head becomes its handle, the next batch fills the
threshold and the third is still to come; with two batches an error in the return
from the nested leave goes unnoticed. Two slots give a batch that is in one list and
passed by another, the partial sums of shares, and threads in different slots as well
as in one; with one slot the share is 2^w, that is, 0, the boundary case. Three
threads in one slot let a thread enter and another retire between the two steps of an
LL/SC leave. The words are as narrow as `HyalineAssumption` (section 5) allows, so counters do wrap.
`hyaline_live` has two batches only (its graph cannot be reduced by symmetry), so
liveness covers flushes of trim with nothing left to walk; that none is lost otherwise
is `AllPaid` and `QuietIsClean`. It also checks `IInv`, in the instance that has both
two slots and half-word compare-and-swaps.

*Batch.* The configurations include the tight ones: as many threads as slots, and three
threads in four slots, where a batch has no more nodes than slots. Two full batches
let the second take the place of the first in a slot's list, from the same thread or,
with two threads, from another one whose own is under way. With three threads only one
retires (bound `AllRetire`).

*Hyaline-S, Hyaline-1S.* Two epochs (bound `MaxEpoch`) are what a batch needs to be born
before or after an access. With a stall threshold of 1 a thread goes round a slot
with anything to acknowledge, so threads do change slots while others retire.

*Atomics.* With one bit for each half every pair comes back soon, so a pair that is
compared twice may have changed in between, and torn values meet real ones. In
`atomics` the macro for the byte order is taken to be right, which for GCC on x86 means
a build with `-D__LITTLE_ENDIAN__`.

*Trackers.* One step of the epoch (bound `Ticks`) puts the birth and the retirement of an
object on either side of it; two objects let one be retired while another is linked in
its place, and names are used again.

Deadlock is checked in every run. Each property of a passing run has a mutant of the
model (a plausible error in the code, listed in `PROJECT.json`) under which TLC finds it
violated; the mutants stand in the modules before the definitions they vary.

### Findings

`hyaline_outside`: at `cas2` 160 retire reads `node->batch_next` from the node
its compare-and-swap has just published. If the caller is between enter and
leave, its own slot keeps the batch alive. The README's recipe for finalizing
batches with dummy nodes (`hyaline/README.md` 87-93) calls retire after leave; then
the batch may have been inserted in every slot, all other threads may leave, and
the last of them frees the batch before that read. The value is used only if a
slot is left to visit, in which case the share of that slot is missing from the
counter and the batch cannot have been freed: the read hits freed memory only in
the last slot, where its result is dropped. `hyaline_llsc`, which retires
from outside as well, shows that frees stay safe and nothing leaks. `cas1` is not
affected: its counter cannot be complete before the loop ends.

`atomics_link`: `lf.h` (lines 79-84) decides which half of a head is the pointer by the
macro `__LITTLE_ENDIAN__`. Clang defines it on every little-endian target; GCC does on
PowerPC, but not on x86, where it defines `__BYTE_ORDER__`. There `__lfref_link`
(`gcc_x86.h` 155) returns the half that holds the count, and `lfsmr_trim` and
`lfbsmr_trim` take it for the address of a batch. `hyaline/README.md` (line 24) names gcc
as a supported compiler for Hyaline and Hyaline-S on x86 and x86-64. The benchmark's
Makefile uses clang. A program that enters and trims fails when GCC 12 builds it for
x86-64, and works with `-D__LITTLE_ENDIAN__`.

## 5. Proofs

Everything here is for every number of threads, slots, batches (objects) and epochs and
for every word width that the assumptions named below admit. `TypeCorrect` is
`Spec => []TypeOK` and `Invariance` is `Spec => []IInv` (`[]OwnInv` for Hyaline-S) in all six.

| module | theorem | statement |
|---|---|---|
| `HyalineProofs` | `Invariance`, `TypeCorrect` | |
| | `SlotsCount` | `Spec => []SlotsAgree` |
| | `RefsAccounted` | `Spec => []RefsAccountedFor` |
| | `FreesSafe` | `Spec => []FreesAreSafe` |
| | `TouchesSafe` | `~RetireOutside` implies `Spec => []TouchesOnlyRetired` |
| | `Paid` | `Spec => []AllPaid` |
| | `QuietClean` | `Spec => []QuietIsClean` |
| | `Implements` | `Spec => ImplementsSafeReclaim` |
| | `CoreInvariance` | `AnySpec => []CoreInv`, of `HyalineSlots` |
| `Hyaline1Proofs` | `Invariance`, `TypeCorrect` | |
| | `TouchesSafe` | `Spec => []TouchesOnlyRetired` |
| | `FreesSafe` | `Spec => []FreesAreSafe` |
| | `QuietClean` | `Spec => []QuietIsClean` |
| | `Implements` | `Spec => ImplementsSafeReclaim` |
| `HyalineSProofs` | `Invariance`, `TypeCorrect` | |
| | `RefinesHyaline` | `Spec => AnySpec` of `HyalineSlots`, under the mapping in `HyalineSThreads` |
| | `TouchesSafe` | `Spec => []TouchesOnlyRetired` |
| | `ClaimsSafe` | `Spec => []ClaimInv` |
| | `AcksKept` | `Spec => []AcksBalance` |
| | `NodesKept` | `Spec => []NodesSuffice` |
| | `QuietClean` | `Spec => []QuietIsClean` |
| | `Implements` | `Spec => ImplementsSafePointers` |
| `Hyaline1SProofs` | `Invariance`, `TypeCorrect` | |
| | `TouchesSafe` | `Spec => []TouchesOnlyRetired` |
| | `QuietClean` | `Spec => []QuietIsClean` |
| | `Implements` | `Spec => ImplementsSafePointers` |
| `TrackersProofs` | `Invariance`, `TypeCorrect` | |
| | `NothingOutside` | `Spec => []OutsideReservesNothing` |
| | `InOrder` | `Spec => []IntervalsInOrder` |
| | `Implements` | `Spec => ImplementsSafePointers` |
| `DoubleWordProofs` | `Invariance`, `TypeCorrect` | |
| | `LinkSafe` | `EndianMacro = LittleEndian` implies `Spec => []LinkReportsPointer` |
| | `Implements` | `EndianMacro = LittleEndian` implies `Spec => ImplementsAtomicPair` |

The hypothesis of `TouchesSafe` for Hyaline is needed: `hyaline_outside` is the
counterexample. All other theorems about Hyaline hold with retirements from outside, and
for both kinds of compare-and-swap. The hypothesis of `LinkSafe` and of `Implements` for
the atomics, that the macro `lf.h` tests tells the byte order, is needed as well:
`atomics_link` is the counterexample.

The proofs about the four Hyaline modules are laid out alike. Their properties are not
inductive: safety of a walk depends on the pointers the thread has not read yet, and
safety of a free on a sum over all threads. `IInv` says where every pointer leads and
what every counter is made up of. Lemmas on frames (`Kept`, `WalksKept`, ...) say when a
thread, or a batch, is not disturbed; then there is a lemma for each action, that the
thread that moves is as `ThreadInv` wants it; then one for each action that touches
counters. TLC checks each invariant in a run (`hyaline_live`, `hyaline1`, `hyaline_s`,
`hyaline_1s`, `trackers`, `atomics`).

### Hyaline-1

`Hyaline1Assumption`: the null pointer is no batch, there is a thread, and the counter's
word can hold the number of threads. The last one is needed: with `NumThreads = Mod` a
counter of that many references would be 0. `IInv` is the conjunction of `TypeOK` and

* `ThreadInv`, for each thread: its slot is on exactly while it is inside
  (`SlotOK`); which locals are in use where (`ControlOK`); the pointers it goes by
  form chains through exactly `held`, `todo` and `later`, ending at its handle
  (`ChainOK`); and these three have no batch twice and none in common (`OnceOK`);
* `RetireInv`: one thread at most retires a batch, and the batch is in no slot the
  retirement has not come to;
* `RefsInv`: the counter of a retired batch equals the number of threads that owe
  it a decrement, less the retirer's `adjs` until that is added; with no retirer,
  it is 0 exactly when the batch was collected, by one thread;
* `GraceInv`: a thread that a batch must outlive has it in its slot, or the
  retirement has still to come to that slot.

A step of a thread changes the chains of that thread only (the lemmas named
`...Settled`), with one exception: `Insert` puts a batch in front of another thread's
slot (`InsertSettled`), which leaves the rest of that chain alone because the batch was
in no chain of that slot. `Alloc` clears the next pointers of a freed batch, which is in
no chain at all. The second part follows the counters: `OwersCount` relates
the set of owers before and after; `DropStep` is the heart, where a decrement that finds
1 means that nobody else owes and no retirement is unfinished. `Implements` shows that
each action is a step of `SafeReclaim` or leaves its variables alone; the guard of `Free`
follows from `GraceInv` and `RefsInv`.

### Hyaline

`HyalineAssumption`: the null pointer is no batch; the number of slots divides `Mod`;
with `Share` = `Mod` / `NumSlots`, there are fewer threads than `Share`, and
(`NumSlots` - 1) times the threads is less than `Share`. The second bound is more than it
seems to need: the decrements of threads whose slots' shares are yet to be added come
first, in all slots but one, and must not use up a share, or the counter would pass
through 0 with shares missing. Both hold by far for words of 32 bits or more and the
numbers of threads and slots there are.

Slots are shared, so who owes a batch is known only when the next batch takes its place
as the head: before that, its threads are in the head's count. So `IInv` follows, for each
batch and each slot, where the slot's share is. A slot is *open* for a batch (`Open`) while
the batch is the slot's head, or a thread's retirement has the slot ahead or passed by, or a thread
is about to adjust for it (`Keeps`); else it is *settled* (`Settled`): its share has been
added. `Owers` are the threads that will decrement the counter, and `Uncounted` those among
them whose count is not added yet, as the batch was taken out of the head only just now.
`Balance` adds these up. Beside `TypeOK` and `SlotsAgree`, the conjuncts are

* `ThreadInv`, as in Hyaline-1, with `RetireOK` (a retirement's `adjs` are the shares of
  the slots it passed by) and `LeavesOK` (the head that leave has loaded is still the head, or
  the thread owes it by now, so the next pointer that was read is still true);
* `KeepInv`: a slot's share is kept in one place at most;
* `OweInv`: whoever owes a batch does so through a slot that has settled, or is uncounted;
* `RefsInv`: a batch that waits has a slot open or a thread that owes; a batch that does
  not wait, or is collected, by one thread only, has neither;
* `RefsAccountedFor`: a counter equals its balance modulo 2^w;
* `GraceInv`: a thread a batch must outlive has it in the list of its slot, or the retirement
  has still to come to that slot;
* `RetirerInv`: if only threads inside retire, the retirer is one of these.

The second half of `HyalineProofs` has the argument step by step. `Insert` turns the count of the old head
into owers, all uncounted; `RetireAdjust` counts them and settles the slot, as `LeaveAdjust`
does for the last thread out; `RetireFinish` settles the slots passed by; `TravDrop` pays.
Each moves `Balance` by what it adds to the counter. A counter can be 0 only if no slot
is open and nobody owes: that is arithmetic on the balance and the assumption on `Share`.
With full or half compare-and-swaps the same invariant holds: the second step of an LL/SC
leave clears a head only if nobody is in the slot.

### Hyaline-1S

`Hyaline1SAssumption`: the null pointer is no batch, the threads are the slots, and
`NumSlots` is less than `Mod`. To `ThreadInv`, `RetireInv` and `RefsInv`, which are as in
Hyaline-1, `IInv` adds

* `EpochOK` in `ThreadInv`: an epoch is published by its owner only, and only moves forward;
* `ObjectInv`: what is reachable was born by now;
* in `RetireInv`, that the epoch a retirement compares with is not after the batch's birth;
* `ClaimInv`: a thread *claims* the batches that it has pointers to, and the one that deref
  has loaded if the global epoch is still the published one, since deref will then return it. A
  claimed batch is linked or retired, was born by the slot's epoch, and once retired it
  is in the slot, or the retirement has still to come to it.

By `ClaimInv` a retirement does not pass by the slot of a thread that claims its batch:
the slot is on, and its epoch is at least the birth of the batch. So a batch that is
collected, freed or new is claimed by nobody, which is the guard of `Free` in
`SafePointers`. A claim starts when deref loads `root` with the epoch it last published
still current: then the batch is linked, hence born by that epoch.

### Hyaline-S

`HyalineSAssumption`: the null pointer is no batch; the slots are a power of two that
divides `Mod`; the two bounds on the number of threads are those of `HyalineAssumption`, for
the same reason; the stall threshold is at least 1.

*The slots.* `HyalineSlots` extends `Hyaline` by three steps, each of which occurs in
`bcas2` or `bcommon`: a batch is retired that nobody inside has to see (`RetireUnseen`), a
slot is passed by although threads are in it (`PassByEpoch`), and a flush ends with the
thread out (`EndFlushed`), so it may enter another slot. `CoreInv` is `IInv` of `Hyaline`
without `GraceInv` and `RetirerInv`, which are about what the client was promised;
`CoreInvariance` says that these steps keep it. `HyalineSThreads` maps the records `loc` of
Hyaline-S to the variables of `Hyaline`: a thread that searches for a slot is still out, one
that acknowledges is where Hyaline's would be after that, deref is not seen at all, no
batch has a grace period, and the history variables are the same on both sides. Each step
then is one of `HyalineSlots` or leaves its variables alone (`RefinesHyaline`). The lemmas for this need
`CoreInv` of the state before the step: for example, that the pointer of a walk is a batch.
So the mapping and the invariant are proved together, as `SafeInv`: `TypeOK`, `ThreadInv`,
`ObjectInv`, `RetirerInv`, `ClaimInv`, and `CoreInv` under the mapping. `TouchesOnlyRetired` and
`QuietIsClean` follow from it and from the same properties of the slots.

*The pointers.* `ClaimInv` is that of Hyaline-1S, for slots that threads share: what a thread
claims was born by the epoch of its *slot*, which other threads may have published. The
epoch of a slot only moves forward (`EpochOK`: what deref has read of it is behind), so
losing the compare-and-swap to another thread is harmless, and a retirement that compares the
slot's epoch with a birth it claims does not pass by. `RetirerInv` is about a retirement that
has passed no slot by: the batch is in the thread's own slot, or still to come there.
`ImplementsSafePointers` follows: a batch that is collected is in no thread's slot, hence
claimed by nobody.

*The acknowledgements.* `AckInv`: the counter of a slot equals `AllDue` less `Uncounted`. `Due(t)`
are the rounds that `t` will still count: those of its list, if it were to leave now, of the
walk it is in, and of trim's walk around a nested leave. `Uncounted` are the threads that
were in a slot when a batch was inserted there, as long as the retirement has not added them
to the counter. `RetireCas` gives one round to each thread of the slot and makes as many
uncounted; `RetireCount` counts them; leave, trim and traverse move rounds from list to walk
to the local counter without changing their sum; `Ack` takes them off. So early
acknowledgements make the counter negative, and it comes back to 0 with the last one.
The sums are sizes of sets of pairs (`Tally`), which needs no induction over the threads.

*The slots of a batch.* `StayInv` strengthens `NodesSuffice`: each slot that a retirement has
inserted into keeps a thread that is not *departing*, that is, has not found another slot to
look at. The last such thread does not depart: with the others out or departing nothing
is due in its slot, so by `AckInv` the counter is 0 or less, below any threshold.

`OwnInv` is the part of all this that speaks of Hyaline-S's own variables, so TLC checks it
(`hyaline_s`).

### Trackers

`TrackersAssumption`: there is a thread, and the null pointer is no object. One invariant
covers the five schemes. Beside `TypeOK`:

* `ThreadInv`: what each thread has published at each point of a call;
* `ObjectInv`: what is linked is the structure's; what is retired is in one thread's list,
  or about to be put there by one thread;
* `ClaimInv`: what a thread has read under a reservation, or will return from read if it
  finds the epoch unchanged, is linked or retired, and if it is in a list then a scan of this
  reservation would keep it;
* `ScanInv`: a scan that has passed a reservation has kept what is claimed under it.

`ScanInv` is what makes a scan that is not atomic safe. A new claim is made only while its
object is linked, hence in no list, so a scan that has passed a reservation misses no
claim made behind its back. A reservation under which something is claimed only grows or
stays as it is, so a copy that was taken before keeps no less than the invariant asks for. For
2GEIBR the two ends are copied one after the other, which takes the second clause of
`ScanInv`.

### DoubleWord

`DoubleWordAssumption`: a half has two values at least (`Mod`), and the mark of a half that
was not read yet is none of them. Beside `TypeOK`, `IInv` says

* `ControlOK`, which operation can be at which label, on which platform: only `ppc` and
  `mips`, with a wide word, load a half with a reservation and store it conditionally;
* `RegistersOK`, what the registers of an operation tell. At its store, an operation that
  still has its reservation has read the whole pair as it is now, and it is what was asked
  for: the half it linked, because of the reservation, and the half it loaded after that,
  because a store to either half takes the reservation away (`Unreserves`; with
  `UnreservesHalf` this is where the proof would fail). At its test, the result register
  looks like success exactly if the store happened. An operation that fails has read both
  halves, and a strong one has seen a difference;
* reservations are held on the platforms that have them only.

The mapping to `AtomicPair` is the identity on the word and, for each call, the operation
and how far it is. Each step is a load of a half, which an operation may do at any time,
the instant in which it takes effect, its outcome, or a stutter (a retry). There is a lemma
of two kinds for each action: `...Keeps` for the invariant and `...Sees` for the mapping.

### What is only model-checked

* Liveness (`EverythingReclaimed`, `Robust1`): TLAPS does not handle ENABLED and fairness.
* The properties of `Batch` (`TypeOK`, `CountersApart`, `OnlyFillingRemain` and its
  refinement). `Leave` finds what to free by following the links of nodes (`Along`), and the
  properties speak of what such a walk meets: a recursive function, whose values are
  found for every input only by induction over data. The provers that are
  used here cannot instantiate the induction theorems, so this stays with TLC.

## 6. Plan

Theorems: of `Batch`, that the slots in use are fewer than the nodes of a full batch, for
every configuration; and, with the nodes of each batch as a history variable in place of
the walk along links, its invariants.

Models, if the project grows further:

1. `SortedList`: one bucket of the hash map over an abstract tracker: no node is
   retired twice or lost, and the results are those of a map.
2. `NatarajanTree`: seek, flag, tag and cleanup, with what is retired.
3. `BonsaiRoot`: root swap and the lists of new and replaced nodes.
4. `BlockPool`: a block has one owner; the pointer to the middle.

### Not modelled

Memory orders (interleavings say nothing about them); the operations on tagged words
(`__lfaba_*`), which nothing in the repository calls, and those on epochs
(`__lfepoch_*`), which are one instruction, or the x86 loop that `DoubleWord` has for
heads; `lfsmr_retire_one` and `lfbsmr_retire_one`, which nothing calls; IBR
(`IntervalTracker`), whose reads are plain loads that the scheme leaves to its caller, the
tagged pointers of `RangeTracker` and `RangeTrackerTP`, and `reserve_slot`, which none of
the maps calls; the sizes of the trackers with a slot for each thread; the maps and the
block pool, planned above; the lock-based map (one lock around sequential code), the
harness, statistics and scripts (configuration and output), vendored code.
