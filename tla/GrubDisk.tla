------------------------------ MODULE GrubDisk ------------------------------
(***************************************************************************)
(* GRUB's disk layer, grub-core/kern/disk.c, on top of its memory manager: *)
(* the cache of disk blocks, which lives on the heap and gives its blocks  *)
(* back when the heap is exhausted, and reading and writing through it.    *)
(* A disk may lie on another one (cryptodisk, loopback, lvm): its driver   *)
(* then reads or writes that disk, in the middle of the read or write that *)
(* called it.  Everything runs in one thread; stack holds the calls that   *)
(* are waiting for a driver.                                               *)
(***************************************************************************)
EXTENDS GrubMm

CONSTANTS
    Areas,          \* what the firmware leaves to the heap, in its order
    Blocks,         \* the blocks, of GRUB_DISK_CACHE_SIZE sectors, of all disks
    None,
    Under,          \* [Blocks -> the block of another disk it is kept in, or None]
    Spans,          \* the runs of blocks that are read and written in one go
    LastBlocks,     \* the blocks at the end of their disks
    Slots,          \* GRUB_DISK_CACHE_NUM
    IndexOf,        \* grub_disk_cache_get_index
    ZeroBlock,      \* the block whose ids and sector are all zero
    UnitCells,      \* cells for a block read ahead, with their header
    PartCells,      \* cells for a few sectors, with their header
    Requests,       \* what other code allocates: [n, align], in cells
    MaxUsers        \* bound: the blocks that other code has at a time

ASSUME DiskAssumption ==
    /\ Under \in [Blocks -> Blocks \cup {None}] /\ None \notin Blocks
    /\ \A b \in Blocks : Under[b] # None => Under[Under[b]] = None
    /\ Slots \in Nat \ {0} /\ IndexOf \in [Blocks -> 1 .. Slots]
    /\ ZeroBlock \in Blocks /\ LastBlocks \subseteq Blocks

\* No two disks lie on the same blocks of a third one: a disk is mounted once
\* (cryptodisk.c, line 792), and no other driver writes below itself.
ASSUME UnderAssumption ==
    \A b, c \in Blocks : Under[b] = Under[c] => b = c \/ Under[b] = None

\* The cells of an area that become a region, with the header of the region.
AreaCells(area) ==
    IF SizeLeft(area) < Align THEN {}
    ELSE HeaderCell(area) .. HeaderCell(area) + SizeLeft(area) \div Align

\* The areas have no cell in common; a pointer may point right behind one.
ASSUME AreaAssumption ==
    /\ Areas \in Seq([addr : Nat, size : Nat])
    /\ \A i \in DOMAIN Areas : \A c \in AreaCells(Areas[i]) : {c, c + 1} \subseteq Cells
    /\ \A i, j \in DOMAIN Areas :
           i = j \/ AreaCells(Areas[i]) \cap AreaCells(Areas[j]) = {}

\* Whatever is asked for has a header, and a read or a write has a block
\* and goes past no end of a disk.
ASSUME CallAssumption ==
    /\ UnitCells \in Nat \ {0} /\ PartCells \in Nat \ {0}
    /\ Requests \subseteq [n : Nat \ {0}, align : Nat \ {0}]
    /\ Spans \subseteq Seq(Blocks) \ {<< >>}
    /\ \A run \in Spans : \A i \in 1 .. Len(run) - 1 : run[i] \notin LastBlocks

VARIABLES
    areas,          \* the areas grub_mm_init_region has not seen yet
    heap,
    users,          \* [pointers of other code -> what it asked for]
    cache,          \* grub_disk_cache_table
    content,        \* [Blocks that lie on no other -> what the disk holds]
    stack,          \* calls of grub_disk_read and grub_disk_write
    reply,          \* what the last call returned
    errno,          \* grub_errno is set
    torn            \* blocks changed by a write that failed, still cached

vars == <<areas, heap, users, cache, content, stack, reply, errno, torn>>

Physical == {b \in Blocks : Under[b] = None}
Base(b) == IF Under[b] = None THEN b ELSE Under[b]
Stored(blocks) == [i \in DOMAIN blocks |-> content[Base(blocks[i])]]

NoReply == [done |-> FALSE, ok |-> FALSE, blocks |-> << >>, value |-> << >>]

Entry == [id : Blocks \cup {None}, data : Cells \cup {NULL}, lock : BOOLEAN,
          value : {0, 1}]

\* Every entry is zero: the one of ZeroBlock has its ids already.
Init ==
    /\ areas = Areas
    /\ heap = Empty
    /\ users = << >>
    /\ cache = [s \in 1 .. Slots |->
                    [id |-> IF IndexOf[ZeroBlock] = s THEN ZeroBlock ELSE None,
                     data |-> NULL, lock |-> FALSE, value |-> 0]]
    /\ content = [b \in Physical |-> 0]
    /\ stack = << >>
    /\ reply = NoReply
    /\ errno = FALSE
    /\ torn = {}

-----------------------------------------------------------------------------
(* The cache.  The operators take and return heap and cache together.      *)

Memory == [heap |-> heap, cache |-> cache]

\* grub_free (cache->data); cache->data = 0
Dropped(m, s) ==
    IF m.cache[s].data = NULL THEN m
    ELSE [heap |-> Free(m.heap, m.cache[s].data),
          cache |-> [m.cache EXCEPT ![s].data = NULL]]

InvalidateAll(m) ==
    LET upto[s \in 0 .. Slots] ==
            IF s = 0 THEN m
            ELSE LET acc == upto[s - 1] IN
                 IF acc.cache[s].lock THEN acc ELSE Dropped(acc, s)
    IN upto[Slots]

OnHeap(m, new) == [memory |-> [m EXCEPT !.heap = new.heap], ptr |-> new.ptr]

FromRegions(m, n, align) == OnHeap(m, RealMalloc(m.heap, n, align))

\* grub_memalign: the regions, and once more without the cache.
Memalign(m, n, align) ==
    LET new == FromRegions(m, n, align) IN
    IF new.ptr # NULL THEN new ELSE FromRegions(InvalidateAll(m), n, align)

Holds(m, b) == m.cache[IndexOf[b]].id = b
Cached(m, b) == Holds(m, b) /\ m.cache[IndexOf[b]].data # NULL

\* Mutant of Invalidate: an entry is unlocked and not dropped.
InvalidateLock(m, b) == [m EXCEPT !.cache[IndexOf[b]].lock = FALSE]

Invalidate(m, b) ==
    IF ~Cached(m, b) THEN m
    ELSE LET d == Dropped(m, IndexOf[b]) IN
         [d EXCEPT !.cache[IndexOf[b]].lock = FALSE]

\* Mutant of Fetched: the callers do not unlock.
FetchedForGood(m, b) ==
    IF Holds(m, b) THEN [m EXCEPT !.cache[IndexOf[b]].lock = TRUE] ELSE m

\* grub_disk_cache_fetch locks an entry with the right ids, with or without
\* data; the callers copy the data and unlock, if there are any.
Fetched(m, b) ==
    IF Holds(m, b)
    THEN [m EXCEPT !.cache[IndexOf[b]].lock = ~Cached(m, b)]
    ELSE m

FetchedAll(m, blocks) ==
    LET upto[i \in 0 .. Len(blocks)] ==
            IF i = 0 THEN m ELSE Fetched(upto[i - 1], blocks[i])
    IN upto[Len(blocks)]

InvalidatedAll(m, blocks) ==
    LET upto[i \in 0 .. Len(blocks)] ==
            IF i = 0 THEN m ELSE Invalidate(upto[i - 1], blocks[i])
    IN upto[Len(blocks)]

Entered(new, b, value) ==
    [memory |-> IF new.ptr = NULL THEN new.memory
                ELSE [new.memory EXCEPT !.cache[IndexOf[b]] =
                          [id |-> b, data |-> new.ptr, lock |-> FALSE,
                           value |-> value]],
     failed |-> new.ptr = NULL]

\* grub_disk_cache_store
Store(m, b, value) ==
    LET clear == [Dropped(m, IndexOf[b]) EXCEPT !.cache[IndexOf[b]].lock = FALSE]
    IN  Entered(Memalign(clear, UnitCells, 1), b, value)

\* One block after the other; the result of grub_disk_cache_store is dropped,
\* but grub_errno stays.
StoreAll(m, blocks, values) ==
    LET upto[i \in 0 .. Len(values)] ==
            IF i = 0 THEN [memory |-> m, failed |-> FALSE]
            ELSE LET acc == upto[i - 1]
                     new == Store(acc.memory, blocks[i], values[i]) IN
                 [memory |-> new.memory, failed |-> acc.failed \/ new.failed]
    IN upto[Len(values)]

\* Stale blocks stop mattering once neither the cache nor a call has them.
Remembered(m, blocks) ==
    {p \in blocks : stack # << >> \/ \E b \in Blocks : Base(b) = p /\ Cached(m, b)}

SetMemory(m) == heap' = m.heap /\ cache' = m.cache /\ torn' = Remembered(m, torn)

-----------------------------------------------------------------------------
(* Calls and returns.                                                      *)

\* Control is with the code around the disk layer.
Idle == stack = << >> /\ areas = << >>

Top == Head(stack)

Push(frame) == stack' = << frame >> \o stack /\ reply' = NoReply
Pop == stack' = Tail(stack)

\* A call that waits for its driver, or for a read of its own: the operation,
\* its blocks and what has been read of them, the buffer it has allocated, and
\* in the loop of grub_disk_read the number of blocks it waits for and the
\* cached one behind them.
Frame(op, blocks, tmp) ==
    [op |-> op, blocks |-> blocks, value |-> << >>, tmp |-> tmp,
     count |-> Len(blocks), hit |-> << >>]

Asked(frame) ==
    SubSeq(frame.blocks, Len(frame.value) + 1, Len(frame.value) + frame.count)

\* The end of a call: it fails if grub_errno is set, whatever set it.
Answer(e, blocks, value) ==
    reply' = IF e THEN [NoReply EXCEPT !.done = TRUE]
             ELSE [done |-> TRUE, ok |-> TRUE, blocks |-> blocks, value |-> value]

\* The second half of grub_disk_read_small, from "Uggh... Failed".
PartBuffer(new, b, rest) ==
    /\ SetMemory(new.memory)
    /\ IF new.ptr = NULL
       THEN stack' = rest /\ errno' = TRUE /\ Answer(TRUE, << >>, << >>)
       ELSE /\ stack' = << Frame("again", << b >>, new.ptr) >> \o rest
            /\ errno' = FALSE /\ reply' = NoReply

Fallback(m, b, rest) == PartBuffer(Memalign(m, PartCells, 1), b, rest)

UnitBuffer(new, b, e) ==
    IF new.ptr # NULL /\ b \in LastBlocks
    THEN Fallback([new.memory EXCEPT !.heap = Free(@, new.ptr)], b, stack)
    ELSE /\ SetMemory(new.memory)
         /\ IF new.ptr = NULL
            THEN Answer(TRUE, << >>, << >>) /\ errno' = TRUE /\ UNCHANGED stack
            ELSE Push(Frame("small", << b >>, new.ptr)) /\ errno' = e

\* grub_disk_read_small, up to the driver.
ReadSmall(b, e) ==
    IF Cached(Memory, b)
    THEN /\ Answer(e, << b >>, << cache[IndexOf[b]].value >>)
         /\ SetMemory(Fetched(Memory, b)) /\ errno' = e
         /\ UNCHANGED stack
    ELSE UnitBuffer(Memalign(Fetched(Memory, b), UnitCells, 1), b, e)

\* grub_disk_read's loop over whole blocks: it copies what is cached, and asks
\* the driver for the run up to the next cached block, which is copied first.
\* An entry found without data stays locked.
Scan(m, frame, rest, e) ==
    LET n == Len(frame.blocks)
        Value(i) == m.cache[IndexOf[frame.blocks[i]]].value
        hits == {i \in 1 .. n : Cached(m, frame.blocks[i])} \cup {n + 1}
        start == Min(Len(frame.value) + 1 .. n + 1 \ (hits \ {n + 1}))
        stop == Min({i \in hits : i >= start})
        value == frame.value
                     \o [i \in 1 .. start - 1 - Len(frame.value) |->
                            Value(Len(frame.value) + i)]
        seen == FetchedAll(m, SubSeq(frame.blocks, Len(frame.value) + 1,
                                     Min({stop, n})))
    IN  /\ SetMemory(seen)
        /\ errno' = e
        /\ IF start = n + 1
           THEN stack' = rest /\ Answer(e, frame.blocks, value)
           ELSE /\ stack' = << [frame EXCEPT !.value = value, !.count = stop - start,
                      !.hit = IF stop > n THEN << >> ELSE << Value(stop) >>] >> \o rest
                /\ reply' = NoReply

ReadMany(blocks, e) == Scan(Memory, Frame("many", blocks, NULL), stack, e)

Fail(m) ==
    /\ SetMemory(m)
    /\ Pop /\ errno' = TRUE /\ Answer(TRUE, << >>, << >>)

\* The buffer has been copied and freed.
Deliver(m, e) ==
    /\ SetMemory(m)
    /\ Pop /\ errno' = e /\ Answer(e, Top.blocks, reply.value)

-----------------------------------------------------------------------------
(* What is called from outside.                                            *)

AddRegion ==
    /\ areas # << >>
    /\ heap' = InitRegion(heap, Head(areas)) /\ areas' = Tail(areas)
    /\ UNCHANGED <<users, cache, content, stack, reply, errno, torn>>

Read(b) == Idle /\ ReadSmall(b, FALSE) /\ UNCHANGED <<areas, users, content>>

ReadRun(blocks) == Idle /\ ReadMany(blocks, FALSE) /\ UNCHANGED <<areas, users, content>>

\* No program writes to a disk below another one.
Outermost(b) == \A c \in Blocks : Under[c] # b

\* grub_disk_write of whole sectors goes to the driver at once.
Write(blocks) ==
    /\ Idle /\ \A i \in DOMAIN blocks : Outermost(blocks[i])
    /\ Push(Frame("write", blocks, NULL)) /\ errno' = FALSE
    /\ UNCHANGED <<areas, heap, users, cache, content, torn>>

\* Part of a sector: grub_disk_write reads it, in a call of grub_disk_read.
WritePart(b) ==
    /\ Idle /\ Outermost(b)
    /\ Push(Frame("modify", << b >>, NULL)) /\ errno' = FALSE
    /\ UNCHANGED <<areas, heap, users, cache, content, torn>>

ReadToModify ==
    /\ stack # << >> /\ Top.op = "modify" /\ ~reply.done
    /\ ReadSmall(Top.blocks[1], errno)
    /\ UNCHANGED <<areas, users, content>>

\* grub_disk_open, two seconds after the last disk was closed.
Open ==
    /\ Idle
    /\ SetMemory(InvalidateAll(Memory))
    /\ reply' = NoReply
    /\ UNCHANGED <<areas, users, content, stack, errno>>

-----------------------------------------------------------------------------
(* Drivers.                                                                *)

Toggled(blocks) ==
    [p \in Physical |-> IF p \in ToSet(blocks) THEN 1 - content[p] ELSE content[p]]

\* Mutant of Below: a driver that reads its own disk.
BelowItself(blocks) == blocks

Below(blocks) == [i \in DOMAIN blocks |-> Under[blocks[i]]]

\* A driver that fails sets grub_errno; the few that do not are left out.
DriverFails ==
    /\ errno' = TRUE /\ Answer(TRUE, << >>, << >>)
    /\ UNCHANGED <<areas, heap, users, cache, stack>>

InDriver(ops) == stack # << >> /\ Top.op \in ops /\ ~reply.done

Reads == {"small", "many", "again"}
Writes == {"write", "put"}

DriverRead ==
    /\ InDriver(Reads) /\ ToSet(Asked(Top)) \subseteq Physical
    /\ \/ DriverFails /\ UNCHANGED <<content, torn>>
       \/ /\ Answer(FALSE, Asked(Top), Stored(Asked(Top)))
          /\ UNCHANGED <<areas, heap, users, cache, content, stack, errno, torn>>

\* The blocks below are whole ones: no partition starts within a block.
DriverReadsBelow ==
    /\ InDriver(Reads) /\ ToSet(Asked(Top)) \cap Physical = {}
    /\ IF Top.op = "again" THEN ReadSmall(Under[Top.blocks[1]], errno)
       ELSE ReadMany(Below(Asked(Top)), errno)
    /\ UNCHANGED <<areas, users, content>>

\* A write that fails may have changed the disk.
DriverWrite ==
    /\ InDriver(Writes) /\ ToSet(Top.blocks) \subseteq Physical
    /\ \/ DriverFails /\ UNCHANGED <<content, torn>>
       \/ /\ DriverFails /\ content' = Toggled(Top.blocks)
          /\ torn' = torn \cup ToSet(Top.blocks)
       \/ /\ content' = Toggled(Top.blocks) /\ Answer(FALSE, << >>, << >>)
          /\ UNCHANGED <<areas, heap, users, cache, stack, errno, torn>>

DriverWritesBelow ==
    /\ InDriver(Writes) /\ ToSet(Top.blocks) \cap Physical = {}
    /\ Push(Frame("write", Below(Top.blocks), NULL))
    /\ UNCHANGED <<areas, heap, users, cache, content, errno, torn>>

-----------------------------------------------------------------------------
(* What the disk layer does with an answer.                                *)

Answered(op) == stack # << >> /\ Top.op = op /\ reply.done

\* Mutant of WithoutBuffer: grub_free (tmp_buf) is forgotten.
WithBuffer(m) == m

WithoutBuffer(m) == [m EXCEPT !.heap = Free(@, Top.tmp)]

SmallRead ==
    /\ Answered("small")
    /\ IF reply.ok
       THEN LET new == Store(Memory, Top.blocks[1], reply.value[1]) IN
            Deliver(WithoutBuffer(new.memory), errno \/ new.failed)
       ELSE Fallback(WithoutBuffer(Memory), Top.blocks[1], Tail(stack))
    /\ UNCHANGED <<areas, users, content>>

AgainRead ==
    /\ Answered("again")
    /\ LET m == WithoutBuffer(Memory) IN
       IF reply.ok THEN Deliver(m, errno) ELSE Fail(m)
    /\ UNCHANGED <<areas, users, content>>

ManyRead ==
    /\ Answered("many")
    /\ LET new == StoreAll(Memory, Asked(Top), reply.value) IN
       IF reply.ok
       THEN Scan(new.memory, [Top EXCEPT !.value = @ \o reply.value \o Top.hit],
                 Tail(stack), errno \/ new.failed)
       ELSE Fail(Memory)
    /\ UNCHANGED <<areas, users, content>>

\* The cache forgets the block before part of it is written ...
ReadForWrite ==
    /\ Answered("modify")
    /\ IF reply.ok
       THEN LET m == Invalidate(Memory, Top.blocks[1]) IN
            /\ SetMemory(m)
            /\ stack' = << [Top EXCEPT !.op = "put"] >> \o Tail(stack)
            /\ reply' = NoReply /\ UNCHANGED errno
       ELSE Fail(Memory)
    /\ UNCHANGED <<areas, users, content>>

PartWritten ==
    /\ Answered("put")
    /\ Pop /\ Answer(errno, << >>, << >>)
    /\ UNCHANGED <<areas, heap, users, cache, content, errno, torn>>

\* ... and whole sectors after they have been written.
Written ==
    /\ Answered("write")
    /\ IF reply.ok
       THEN /\ SetMemory(InvalidatedAll(Memory, Top.blocks))
            /\ Pop /\ Answer(errno, << >>, << >>) /\ UNCHANGED errno
       ELSE Fail(Memory)
    /\ UNCHANGED <<areas, users, content>>

-----------------------------------------------------------------------------
(* Other code, also that of a driver, uses the heap.                       *)

InOtherCode == areas = << >> /\ (stack = << >> \/ InDriver(Reads \cup Writes))

\* errno matters to the disk layer only if its driver has set it.
Denied == errno' = (errno \/ stack # << >>)

With(ptr, req, us) == [p \in DOMAIN us \cup {ptr} |-> IF p = ptr THEN req ELSE us[p]]
Without(ptr, us) == [p \in DOMAIN us \ {ptr} |-> us[p]]

\* Other code takes what it is given, for what it asked for.
Take(new, req, us) ==
    /\ SetMemory(new.memory)
    /\ IF new.ptr = NULL THEN Denied /\ UNCHANGED users
       ELSE users' = With(new.ptr, req, us) /\ UNCHANGED errno

Malloc(req) ==
    /\ InOtherCode /\ Cardinality(DOMAIN users) < MaxUsers
    /\ Take(Memalign(Memory, req.n, req.align), req, users)
    /\ reply' = NoReply /\ UNCHANGED <<areas, content, stack>>

FreeUser(ptr) ==
    /\ InOtherCode
    /\ heap' = Free(heap, ptr) /\ users' = Without(ptr, users)
    /\ reply' = NoReply /\ UNCHANGED <<areas, cache, content, stack, errno, torn>>

\* grub_realloc of more than the block has; the new one has no alignment.
Realloc(ptr, n) ==
    /\ InOtherCode /\ n > heap.hdr[ptr - 1].size
    /\ LET new == Memalign(Memory, n, 1) IN
       Take(IF new.ptr = NULL THEN new
            ELSE [new EXCEPT !.memory.heap = Free(@, ptr)],
            [n |-> n, align |-> 1], Without(ptr, users))
    /\ reply' = NoReply /\ UNCHANGED <<areas, content, stack>>

Next ==
    \/ AddRegion \/ Open
    \/ \E b \in Blocks : Read(b) \/ WritePart(b)
    \/ \E run \in Spans : ReadRun(run) \/ Write(run)
    \/ ReadToModify
    \/ DriverRead \/ DriverReadsBelow \/ DriverWrite \/ DriverWritesBelow
    \/ SmallRead \/ AgainRead \/ ManyRead
    \/ ReadForWrite \/ PartWritten \/ Written
    \/ \E req \in Requests : Malloc(req)
    \/ \E ptr \in DOMAIN users : FreeUser(ptr)
                                  \/ \E req \in Requests : Realloc(ptr, req.n)

Spec == Init /\ [][Next]_vars

-----------------------------------------------------------------------------
(* Properties.                                                             *)

TypeOK ==
    /\ \A c \in Cells : heap.hdr[c].magic \in {"none", "free", "alloc"}
    /\ DOMAIN users \subseteq Cells /\ \A p \in DOMAIN users : users[p].n \in Nat
    /\ cache \in [1 .. Slots -> Entry]
    /\ content \in [Physical -> {0, 1}]
    /\ Len(stack) <= 3
    /\ reply.done \in BOOLEAN /\ errno \in BOOLEAN /\ torn \subseteq Blocks

\* The blocks of every region lie side by side, no two free ones touch, and
\* the ring holds the free ones in their order; whoever asked has got at least
\* what it asked for, and aligned (grub_real_malloc, grub_free).
HeapSound ==
    /\ Sound(heap)
    /\ \A p \in DOMAIN users :
           heap.hdr[p - 1].size >= users[p].n /\ p % users[p].align = 0

Buffers == {stack[i].tmp : i \in DOMAIN stack} \ {NULL}
CacheData == {cache[s].data : s \in 1 .. Slots} \ {NULL}

\* Every allocated block has one owner: other code, a read under way, or an
\* entry of the cache.  None is lost on an error path, none is given up twice.
OneOwner ==
    LET allocated == {c + 1 : c \in {c \in Cells : heap.hdr[c].magic = "alloc"}} IN
    /\ allocated = DOMAIN users \cup Buffers \cup CacheData
    /\ Cardinality(allocated)
           = Cardinality(DOMAIN users) + Cardinality(CacheData)
               + Cardinality({i \in DOMAIN stack : stack[i].tmp # NULL})

\* grub_memalign fails only if no free block has room at an aligned address,
\* and only after every cached block has been given back.
FailsWhenFull ==
    areas = << >> =>
        \A req \in Requests :
            LET new == Memalign(Memory, req.n, req.align) IN
            new.ptr = NULL =>
                /\ ~Room(new.memory.heap, req.n, req.align)
                /\ \A s \in 1 .. Slots : new.memory.cache[s].data = NULL

\* A read that reports success has delivered what is on the disk: the cache
\* shows no block as it was before a write, but for those that a write has
\* failed on.
ReadsTrue ==
    stack = << >> /\ reply.ok =>
        \A i \in DOMAIN reply.blocks :
            \/ reply.value[i] = content[Base(reply.blocks[i])]
            \/ Base(reply.blocks[i]) \in torn
=============================================================================
