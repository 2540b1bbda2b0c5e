-------------------------------- MODULE Batch --------------------------------
(***************************************************************************)
(* What is inside a batch: lfsmr_retire of bits/lfsmr_common.h links single *)
(* nodes into a batch, __lfsmr_retire of bits/lfsmr_cas2.h takes one node   *)
(* off it for each slot that is in use, and __lfsmr_free walks over all of *)
(* them.  The last node holds the counter, in the word that is batch_next  *)
(* in the others: the walk of free ends there because the counter is 0.    *)
(* The number of slots and the size of a batch are those the trackers      *)
(* compute from the number of threads and a setting.                       *)
(*                                                                         *)
(* Hyaline has the interleavings of leave and of one slot's insertion with *)
(* a batch as a value; here each of them is one step, and a batch is its   *)
(* nodes: addresses, counters and null are words of memory.  A call's free *)
(* list, linked by the next words of the nodes with the counters, is a set. *)
(***************************************************************************)
EXTENDS Words, FiniteSets, FiniteSetsExt

CONSTANTS
    MaxTasks,      \* bound: threads
    AllRetire,     \* bound: with more threads than this, one of them retires nodes
    MaxSlots,      \* bound: the setting `slots'
    Floor,         \* the least batch size of the TR tracker, 64 in the code
    Supply         \* bound: how many full batches the allocator has nodes for

\* calc_next_log2, as a power of 2.
NextPower2(n) == Min({2^k : k \in 0 .. n} \cap n .. 2^n)

\* Mutant of SizeEL: no node for the counter when every slot has a thread.
SizeELTight(tasks, num) == IF tasks <= num THEN num ELSE num + 1

SizeEL(tasks, num) == IF tasks < num THEN num ELSE num + 1
SizeTR(tasks, num) == IF tasks < Floor THEN Floor ELSE num + 1

Configured(tasks, slots) ==
    LET num == NextPower2(IF tasks > slots THEN slots ELSE tasks)
    IN  {[tasks |-> tasks, num |-> num, size |-> size] :
            size \in {SizeEL(tasks, num), SizeTR(tasks, num)}}

Configs == UNION {Configured(tasks, slots) : tasks \in 1 .. MaxTasks,
                                             slots \in 1 .. MaxSlots}

NumNodes == Supply * Max({c.size : c \in Configs})
Nodes == 1 .. NumNodes
Addresses == 0 .. NumNodes         \* 0 is null
Threads == 0 .. MaxTasks - 1

ASSUME BatchAssumption ==
    /\ Mod \in Nat /\ Supply \in Nat /\ NumNodes < Mod
    /\ MaxTasks \in Nat \ {0} /\ MaxSlots \in Nat \ {0}
    /\ AllRetire \in Nat
    /\ \A c \in Configs : Mod % c.num = 0 /\ c.tasks < Mod \div c.num
    /\ Floor \in Nat /\ \E k \in 0 .. Floor : Floor = 2^k

VARIABLES
    config,        \* task_num, SMR_ORDER's 2^order and SMR_BATCH
    head,          \* head[s]: hdr->vector[s].head
    next, link,    \* the words next and batch_link of the node at an address
    word,          \* its third word: batch_next or refs
    batch,         \* the batch each thread fills
    smr,           \* handles
    loc,           \* locals of retire and free
    active, status, grace      \* what the client sees (see SafeReclaim)

memory == <<next, link, word>>
client == <<active, status, grace>>
vars == <<config, head, next, link, word, batch, smr, loc, active, status, grace>>

Slots == 0 .. config.num - 1
Slot(t) == t % config.num         \* enter_num: i & (SMR_NUM - 1)
Addend == (Mod \div config.num) % Mod

Quiet == [pc |-> "idle", slot |-> 0, curr |-> 0, adjs |-> 0, doAdjs |-> FALSE,
          list |-> {}, start |-> 0]
EmptyBatch == [first |-> 0, last |-> 0, counter |-> 0]

Init ==
    /\ config \in Configs
    /\ head = [s \in Slots |-> [refs |-> 0, ptr |-> 0]]
    /\ next = [a \in Addresses |-> 0] /\ link = next /\ word = next
    /\ batch = [t \in Threads |-> EmptyBatch]
    /\ smr = [t \in Threads |-> 0]
    /\ loc = [t \in Threads |-> Quiet]
    /\ active = {}
    /\ status = [n \in Nodes |-> "live"]
    /\ grace = [n \in Nodes |-> {}]

Tasks == 0 .. config.tasks - 1
Retirers == IF config.tasks > AllRetire THEN {0} ELSE Tasks
Idle(t) == t \in Tasks /\ loc[t].pc = "idle"

\* A call goes on to free what it has collected, if there is anything.
ToFree(t, collected) ==
    loc' = [loc EXCEPT ![t] =
               IF collected = {} THEN Quiet
                                 ELSE [Quiet EXCEPT !.pc = "free", !.list = collected]]

------------------------------------------------------------------------------
(* enter and leave, each in one step.                                      *)

Enter(t) ==
    /\ Idle(t) /\ t \notin active
    /\ active' = active \union {t}
    /\ smr' = [smr EXCEPT ![t] = head[Slot(t)].ptr]
    /\ head' = [head EXCEPT ![Slot(t)].refs = @ + 1]
    /\ UNCHANGED <<config, memory, batch, loc, status, grace>>

\* The nodes met from a on, by the pointers of field, to the end of the list
\* or to end.
Along(field, a, end) ==
    LET at[k \in Nat] == IF k = 0 THEN a
                         ELSE LET p == at[k - 1]
                              IN  IF p \in {0, end} THEN 0 ELSE field[p]
    IN  {at[k] : k \in 0 .. NumNodes} \ {0}

\* The nodes whose batches t gives back a reference to when it leaves.
Walked(t) ==
    LET top == head[Slot(t)].ptr
    IN  IF top = smr[t] THEN {} ELSE Along(next, next[top], smr[t])

\* The last thread out contributes the slot's share to the newest batch.
Leave(t) ==
    LET h == head[Slot(t)]
        closes == h.refs = 1 /\ h.ptr # 0
        walked == Walked(t)
        counters == {link[n] : n \in walked}
                        \union (IF closes THEN {link[h.ptr]} ELSE {})
        Change(c) == (IF closes /\ c = link[h.ptr] THEN Addend ELSE 0)
                         - Cardinality({n \in walked : link[n] = c})
        left(c) == (word[c] + Change(c)) % Mod
    IN  /\ Idle(t) /\ t \in active
        /\ active' = active \ {t}
        /\ grace' = [n \in Nodes |-> grace[n] \ {t}]
        /\ smr' = [smr EXCEPT ![t] = 0]
        /\ head' = [head EXCEPT ![Slot(t)] =
                       [refs |-> h.refs - 1, ptr |-> IF h.refs = 1 THEN 0 ELSE h.ptr]]
        /\ word' = [c \in Addresses |-> IF c \in counters THEN left(c) ELSE word[c]]
        /\ ToFree(t, {c \in counters : left(c) = 0})
        /\ UNCHANGED <<config, next, link, batch, status>>

------------------------------------------------------------------------------
(* retire of one node, and of the batch when it is full.                   *)

Full(t) == batch[t].counter + 1 >= config.size

\* The allocator hands out its nodes in order, each once.
Retire(t) ==
    LET new == {a \in Nodes : a <= Supply * config.size /\ status[a] = "live"}
        n == Min(new)
        b == batch[t]
        bottom == IF b.first = 0 THEN n ELSE b.last
    IN  /\ Idle(t) /\ t \in active \intersect Retirers /\ new # {}
        /\ status' = [status EXCEPT ![n] = "retired"]
        /\ grace' = [grace EXCEPT ![n] = active]
        /\ batch' = [batch EXCEPT ![t] =
                        [first |-> n, last |-> bottom, counter |-> b.counter + 1]]
        /\ word' = [word EXCEPT ![n] = b.first]
        /\ link' = [a \in Addresses |-> IF a = bottom /\ Full(t) THEN n
                                   ELSE IF a = n /\ b.first # 0 THEN b.last
                                   ELSE link[a]]
        /\ loc' = IF Full(t)
                  THEN [loc EXCEPT ![t] = [Quiet EXCEPT !.pc = "insert", !.curr = n]]
                  ELSE loc
        /\ UNCHANGED <<config, head, next, smr, active>>

Inserts(t) == loc[t].pc = "insert" /\ loc[t].slot < config.num

PassBy(t) ==
    /\ Inserts(t) /\ head[loc[t].slot].refs = 0
    /\ loc' = [loc EXCEPT ![t].slot = @ + 1, ![t].doAdjs = TRUE,
                          ![t].adjs = AddW(@, Addend)]
    /\ UNCHANGED <<config, head, memory, batch, smr, client>>

\* Mutant of Share: the threads that still have to walk over it are not counted.
ShareNoThreads(h) == Addend

\* What a slot gives to the counter of the batch that is no longer its newest.
Share(h) == AddW(Addend, h.refs)

Insert(t) ==
    LET h == head[loc[t].slot]
        n == loc[t].curr
        c == link[h.ptr]
        sum == AddW(word[c], Share(h))
    IN  /\ Inserts(t) /\ h.refs # 0
        /\ next' = [next EXCEPT ![n] = h.ptr]
        /\ head' = [head EXCEPT ![loc[t].slot].ptr = n]
        /\ word' = IF h.ptr # 0 THEN [word EXCEPT ![c] = sum] ELSE word
        /\ loc' = [loc EXCEPT ![t].slot = @ + 1, ![t].curr = word[n],
                      ![t].list = @ \union (IF h.ptr # 0 /\ sum = 0 THEN {c} ELSE {})]
        /\ UNCHANGED <<config, link, batch, smr, client>>

\* Mutant of RetireEnd: the shares of the slots passed by are forgotten.
RetireEndNoShares(t) ==
    /\ loc[t].pc = "insert" /\ loc[t].slot = config.num
    /\ batch' = [batch EXCEPT ![t] = EmptyBatch]
    /\ ToFree(t, loc[t].list)
    /\ UNCHANGED <<config, head, memory, smr, client>>

RetireEnd(t) ==
    LET c == link[batch[t].first]
        sum == AddW(word[c], loc[t].adjs)
    IN  /\ loc[t].pc = "insert" /\ loc[t].slot = config.num
        /\ word' = IF loc[t].doAdjs THEN [word EXCEPT ![c] = sum] ELSE word
        /\ batch' = [batch EXCEPT ![t] = EmptyBatch]
        /\ ToFree(t, loc[t].list \union
                        (IF loc[t].doAdjs /\ sum = 0 THEN {c} ELSE {}))
        /\ UNCHANGED <<config, head, next, link, smr, client>>

------------------------------------------------------------------------------
(* free: each batch of the list, from its first node to the one whose      *)
(* third word is 0.  What the memory holds afterwards is no matter.        *)

Free(t) ==
    \E c \in (IF loc[t].start = 0 THEN loc[t].list ELSE {0}) :
        LET n == IF loc[t].start = 0 THEN link[c] ELSE loc[t].start
            rest == loc[t].list \ {c}
        IN  /\ loc[t].pc = "free"
            /\ status' = [status EXCEPT ![n] = "freed"]
            /\ next' = [next EXCEPT ![n] = 0]
            /\ link' = [link EXCEPT ![n] = 0]
            /\ word' = [word EXCEPT ![n] = 0]
            /\ loc' = [loc EXCEPT ![t] =
                          IF word[n] = 0 /\ rest = {} THEN Quiet
                          ELSE [loc[t] EXCEPT !.start = word[n], !.list = rest]]
            /\ UNCHANGED <<config, head, batch, smr, active, grace>>

Step(t) ==
    \/ Enter(t) \/ Leave(t) \/ Retire(t)
    \/ PassBy(t) \/ Insert(t) \/ RetireEnd(t) \/ Free(t)

Next == \E t \in Threads : Step(t)

Spec == Init /\ [][Next]_vars

------------------------------------------------------------------------------
(* Properties.                                                             *)

\* Types: memory holds words, a batch never grows past its size.
TypeOK ==
    /\ config \in Configs
    /\ \A s \in Slots : head[s].refs \in 0 .. config.tasks /\ head[s].ptr \in Word
    /\ next \in [Addresses -> Word] /\ link \in [Addresses -> Word] /\ word \in [Addresses -> Word]
    /\ \A t \in Threads :
          /\ batch[t].first \in Word /\ batch[t].last \in Word
          /\ batch[t].counter \in 0 .. config.size
          /\ smr[t] \in Word
          /\ loc[t] \in [pc : {"idle", "insert", "free"}, slot : 0 .. config.num,
                         curr : Word, adjs : Word, doAdjs : BOOLEAN,
                         list : SUBSET Nodes, start : Word]
    /\ active \subseteq Threads

\* The nodes of slot s that somebody will still go by.
Listed(s) ==
    ({head[s].ptr} \ {0}) \union
    UNION {Along(next, head[s].ptr, smr[t]) :
              t \in {u \in active : Slot(u) = s /\ smr[u] # head[s].ptr}}

\* A batch has a node for every slot it goes into and one more: a node is in
\* one slot's list at most, a node that holds a counter in none, where next
\* would be overwritten by the free list and batch_next by the counter.
CountersApart ==
    /\ \A s, r \in Slots : s # r => Listed(s) \intersect Listed(r) = {}
    /\ LET listed == UNION {Listed(s) : s \in Slots}
       IN  \A n \in listed : /\ n \in Nodes /\ status[n] = "retired"
                             /\ link[n] \in Nodes \ listed

\* The nodes of the batch t is filling, by their third words.
Filling(t) == Along(word, batch[t].first, 0)

\* With everybody out and no call under way, a retired node is still waiting
\* for its batch to fill up; every other one has been freed, as part of the
\* batch it was linked into.
OnlyFillingRemain ==
    (active = {} /\ \A t \in Threads : loc[t].pc = "idle") =>
        /\ {n \in Nodes : status[n] = "retired"} = UNION {Filling(t) : t \in Tasks}
        /\ \A t \in Tasks : Cardinality(Filling(t)) = batch[t].counter

\* For each single node, the client sees nothing but SafeReclaim.
Abstract == INSTANCE SafeReclaim WITH Batches <- Nodes
ImplementsSafeReclaim == Abstract!Spec
=============================================================================
