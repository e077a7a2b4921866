------------------------------- MODULE GrubMm -------------------------------
(***************************************************************************)
(* GRUB's memory manager, grub-core/kern/mm.c.  A region is an array of    *)
(* cells of GRUB_MM_ALIGN bytes, cut into blocks that each begin with a    *)
(* header of one cell; the free blocks of a region form a ring that runs   *)
(* down the addresses and wraps around once.  The operators take a heap    *)
(* and return the heap that the C function leaves behind.                  *)
(***************************************************************************)
EXTENDS Naturals, Sequences, FiniteSets, SequencesExt

CONSTANTS
    Align,      \* GRUB_MM_ALIGN, in bytes
    Cells       \* the addresses of the cells

ASSUME AlignAssumption == Align \in Nat \ {0} /\ Cells \subseteq Nat \ {0}

NULL == 0

NoHeader == [magic |-> "none", size |-> 0, next |-> NULL]

\* grub_mm_base is empty, and no cell holds a header.
Empty == [regions |-> << >>, first |-> << >>, hdr |-> [c \in Cells |-> NoHeader]]

-----------------------------------------------------------------------------
(* grub_mm_init_region                                                     *)

\* Where the region header goes, and the cells that remain behind it.
HeaderCell(area) == (area.addr + Align - 1) \div Align
SizeLeft(area) == area.size - (HeaderCell(area) * Align - area.addr + Align)

InitRegion(h, area) ==
    LET r == [at |-> HeaderCell(area), size |-> SizeLeft(area) \div Align]
        larger == {i \in DOMAIN h.regions : h.regions[i].size > r.size}
        place == Min(larger \cup {Len(h.regions) + 1}) IN
    IF SizeLeft(area) < Align THEN h
    ELSE [regions |-> InsertAt(h.regions, place, r),
          first |-> [at \in DOMAIN h.first \cup {r.at} |->
                         IF at = r.at THEN r.at + 1 ELSE h.first[at]],
          hdr |-> [h.hdr EXCEPT ![r.at + 1] =
                       [magic |-> "free", size |-> r.size, next |-> r.at + 1]]]

-----------------------------------------------------------------------------
(* grub_real_malloc                                                        *)

Headers(h, r) == {c \in r.at + 1 .. r.at + r.size : h.hdr[c].magic # "none"}
FreeIn(h, r) == {c \in Headers(h, r) : h.hdr[c].magic = "free"}

Full(h, at) == h.hdr[h.first[at]].magic = "alloc"

\* Cells to skip at the front of p so that the pointer p + 1 is aligned.
Extra(p, align) == (align - ((p + 1) % align)) % align

Fits(h, p, n, align) == h.hdr[p].size >= n + Extra(p, align)

\* The block before the first one that fits, going round from r->first.
Search(h, r, n, align) ==
    LET from[q \in FreeIn(h, r)] ==
            LET p == h.hdr[q].next IN
            IF Fits(h, p, n, align) THEN q
            ELSE IF p = h.first[r.at] THEN NULL ELSE from[p]
    IN IF Full(h, r.at) THEN NULL ELSE from[h.first[r.at]]

Allocated(n) == [magic |-> "alloc", size |-> n, next |-> NULL]

\* Cuts n cells off the block behind q, as far up as the alignment allows.
Cut(h, at, q, n, align) ==
    LET p == h.hdr[q].next
        size == h.hdr[p].size
        spare == size - Extra(p, align) - n
        extra == Extra(p, align) + spare - (spare % align)
        Rest(next) == [magic |-> "free", size |-> size - extra - n, next |-> next]
        To(hdr, first, ptr) ==
            [heap |-> [h EXCEPT !.hdr = hdr, !.first[at] = first], ptr |-> ptr]
    IN  IF size = n THEN
            To([h.hdr EXCEPT ![q].next = h.hdr[p].next, ![p] = Allocated(n)], q, p + 1)
        ELSE IF size = n + extra THEN
            To([h.hdr EXCEPT ![p].size = extra, ![p + extra] = Allocated(n)],
               q, p + extra + 1)
        ELSE IF extra = 0 THEN
            LET next == IF q = p THEN p + n ELSE h.hdr[p].next IN
            To([h.hdr EXCEPT ![q].next = p + n, ![p + n] = Rest(next),
                             ![p] = Allocated(n)],
               IF q = p THEN p + n ELSE q, p + 1)
        ELSE
            To([h.hdr EXCEPT ![q].next = p + extra + n, ![p + extra + n] = Rest(p),
                             ![p].size = extra, ![p + extra] = Allocated(n)],
               q, p + extra + 1)

\* The loop of grub_memalign over the regions, once.
RealMalloc(h, n, align) ==
    LET Found(i) == Search(h, h.regions[i], n, align)
        good == {i \in DOMAIN h.regions : Found(i) # NULL} IN
    IF good = {} THEN [heap |-> h, ptr |-> NULL]
    ELSE LET i == CHOOSE i \in good : \A j \in good : i <= j IN
         Cut(h, h.regions[i].at, Found(i), n, align)

-----------------------------------------------------------------------------
(* grub_free                                                               *)

RegionOf(h, ptr) ==
    CHOOSE r \in ToSet(h.regions) : ptr - 1 \in r.at + 1 .. r.at + r.size

\* p belongs between q and the block that follows q in the ring.
Between(h, q, p) ==
    LET next == h.hdr[q].next IN
    IF q > next THEN q > p /\ next < p ELSE q > p \/ next < p

\* The block before q, where the search from r->first ends.
Spot(h, r, p) ==
    LET from[s \in FreeIn(h, r)] ==
            IF Between(h, h.hdr[s].next, p) THEN s ELSE from[h.hdr[s].next]
    IN from[h.first[r.at]]

\* Mutant of Linked: only the block above is joined.
LinkedApart(h, q, p) ==
    [hdr |-> [h.hdr EXCEPT ![p].magic = "free", ![p].next = h.hdr[q].next,
                           ![q].next = p],
     at |-> p]

\* p goes behind q; it joins the free block below it, if they touch.
Linked(h, q, p) ==
    LET low == h.hdr[q].next IN
    IF low + h.hdr[low].size = p
    THEN [hdr |-> [h.hdr EXCEPT ![low].size = @ + h.hdr[p].size, ![p] = NoHeader],
          at |-> low]
    ELSE [hdr |-> [h.hdr EXCEPT ![p].magic = "free", ![p].next = low, ![q].next = p],
          at |-> p]

\* And then the free block above it.
Free(h, ptr) ==
    LET p == ptr - 1
        r == RegionOf(h, ptr)
        at == r.at
        s == Spot(h, r, p)
        q == h.hdr[s].next
        l == Linked(h, q, p)
        last == IF q = s THEN l.at ELSE s
    IN  IF Full(h, at) THEN
            [h EXCEPT !.hdr[p].magic = "free", !.hdr[p].next = p, !.first[at] = p]
        ELSE IF q = l.at + l.hdr[l.at].size THEN
            [h EXCEPT !.hdr = [l.hdr EXCEPT ![l.at].size = @ + l.hdr[q].size,
                                            ![q] = NoHeader, ![last].next = l.at],
                      !.first[at] = last]
        ELSE [h EXCEPT !.hdr = l.hdr, !.first[at] = q]

-----------------------------------------------------------------------------
(* What the functions keep true of a heap.                                 *)

\* The blocks of region r follow each other without a gap or an overlap, and
\* no two that are free touch.
Tiled(h, r) ==
    /\ r.at + 1 \in Headers(h, r)
    /\ \A c \in Headers(h, r) :
        LET end == c + h.hdr[c].size IN
        /\ end > c
        /\ end \in Headers(h, r) \cup {r.at + r.size + 1}
        /\ \A d \in Headers(h, r) : d <= c \/ d >= end
        /\ end \in FreeIn(h, r) => c \notin FreeIn(h, r)

\* The ring holds the free blocks of region r and no others, downwards; the
\* mark of a full region is an allocated block.
Ringed(h, r) ==
    IF FreeIn(h, r) = {} THEN h.first[r.at] \in Headers(h, r)
    ELSE /\ h.first[r.at] \in FreeIn(h, r)
         /\ \A c \in FreeIn(h, r) :
               LET below == {d \in FreeIn(h, r) : d < c}
                   among == IF below = {} THEN FreeIn(h, r) ELSE below
               IN  /\ h.hdr[c].next \in among
                   /\ \A d \in among : d <= h.hdr[c].next

Sound(h) ==
    \A i \in DOMAIN h.regions : Tiled(h, h.regions[i]) /\ Ringed(h, h.regions[i])

\* Some free block has room for n cells at an aligned pointer.
Room(h, n, align) ==
    \E i \in DOMAIN h.regions : \E c \in FreeIn(h, h.regions[i]) :
        \E a \in c .. c + h.hdr[c].size :
            (a + 1) % align = 0 /\ a + n <= c + h.hdr[c].size
=============================================================================
