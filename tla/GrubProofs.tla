----------------------------- MODULE GrubProofs ------------------------------
(***************************************************************************)
(* That GRUB's heap stays sound, that each block on it has one owner, and  *)
(* that reads through the disk cache return what is on the disk, for any   *)
(* regions, disks, size of the cache and order of calls.                   *)
(*                                                                         *)
(* First one region: the two searches round the ring, the cutting and      *)
(* joining of blocks; then the heap as a whole, and the operations of the  *)
(* cache, each by what it takes from the heap and what it gives back.      *)
(* The invariant then adds the calls that wait for each other and what     *)
(* each of them, the cache and the reply know of the disk.                 *)
(***************************************************************************)
EXTENDS GrubDisk, Induction, FiniteSetTheorems, TLAPS
-----------------------------------------------------------------------------
(* The heap.                                                               *)

RegionSet == [at : Nat, size : Nat \ {0}]
HeaderSet == [magic : {"none", "free", "alloc"}, size : Nat, next : Cells \cup {NULL}]

Starts(h) == {h.regions[i].at : i \in DOMAIN h.regions}
SpanOf(r) == r.at .. r.at + r.size

Shaped(h) ==
    h \in [regions : Seq(RegionSet), first : [Starts(h) -> Cells],
           hdr : [Cells -> HeaderSet]]

\* The regions are sets of cells apart from each other.
Apart(h) ==
    /\ \A i \in DOMAIN h.regions : \A c \in SpanOf(h.regions[i]) : {c, c + 1} \subseteq Cells
    /\ \A i, j \in DOMAIN h.regions :
           i = j \/ SpanOf(h.regions[i]) \cap SpanOf(h.regions[j]) = {}

\* There are no headers outside of the regions.
Covered(h) ==
    \A c \in Cells : h.hdr[c].magic # "none" =>
        \E i \in DOMAIN h.regions : c \in Headers(h, h.regions[i])

Good(h) == Shaped(h) /\ Apart(h) /\ Covered(h) /\ Sound(h)

\* The pointers that have been given out and not taken back.
Pointers(h) == {c + 1 : c \in {c \in Cells : h.hdr[c].magic = "alloc"}}

-----------------------------------------------------------------------------
(* Heap and cache.                                                         *)

DataOf(cs) == {cs[s].data : s \in 1 .. Slots} \ {NULL}

\* An entry's block is in its place, and a locked entry has no data.
EntriesOK(cs) ==
    /\ cs \in [1 .. Slots -> Entry]
    /\ \A s \in 1 .. Slots : cs[s].data # NULL =>
           /\ ~cs[s].lock
           /\ cs[s].id \in Blocks /\ IndexOf[cs[s].id] = s
           /\ \A t \in 1 .. Slots : cs[t].data = cs[s].data => t = s

\* Besides the cache the owners of O have blocks on the heap, and nobody else.
MemOK(m, O) ==
    /\ m = [heap |-> m.heap, cache |-> m.cache]
    /\ Good(m.heap) /\ EntriesOK(m.cache)
    /\ Pointers(m.heap) = O \cup DataOf(m.cache)
    /\ O \cap DataOf(m.cache) = {}
-----------------------------------------------------------------------------
(* Rings of numbers that run downwards and wrap around once.               *)

\* n is the element of F that follows c downwards, or else the highest one.
Gap(F, c, n) ==
    IF n < c THEN \A d \in F : d <= n \/ d >= c ELSE \A d \in F : c <= d /\ d <= n

Ring(F, nx) == \A c \in F : nx[c] \in F /\ Gap(F, c, nx[c])

Links(h) == [c \in Cells |-> h.hdr[c].next]
Sizes(h) == [c \in Cells |-> h.hdr[c].size]

LEMMA RingInjective ==
  ASSUME NEW F \in SUBSET Nat, NEW nx, Ring(F, nx),
         NEW a \in F, NEW b \in F, nx[a] = nx[b]
  PROVE  a = b
  <1>1. /\ nx[a] \in F /\ Gap(F, a, nx[a])
        /\ nx[b] \in F /\ Gap(F, b, nx[b])
    BY DEF Ring
  <1> DEFINE n == nx[a]
  <1>2. n \in F /\ Gap(F, a, n) /\ Gap(F, b, n)
    BY <1>1
  <1> HIDE DEF n
  <1> QED
    BY <1>2 DEF Gap

\* p, which follows q, leaves the ring nx, and ny is left.
Leaves(p, q, F, nx, ny) ==
    /\ F \in SUBSET Nat /\ Ring(F, nx) /\ p \in F /\ q \in F /\ nx[q] = p /\ q # p
    /\ \A c \in F \ {p} : ny[c] = IF c = q THEN nx[p] ELSE nx[c]

LEMMA RingWithout ==
  ASSUME NEW F, NEW nx, NEW ny, NEW p, NEW q, Leaves(p, q, F, nx, ny)
  PROVE  Ring(F \ {p}, ny)
  <1> USE DEF Leaves
  <1> SUFFICES ASSUME NEW c \in F \ {p}
               PROVE  ny[c] \in F \ {p} /\ Gap(F \ {p}, c, ny[c])
    BY DEF Ring
  <1> DEFINE n == nx[c]
             m == nx[p]
  <1>1. n \in F /\ Gap(F, c, n) /\ m \in F /\ Gap(F, p, m) /\ Gap(F, q, p)
    BY DEF Ring
  <1>2. CASE c = q
    <2>1. ny[c] = m
      BY <1>2
    <2> HIDE DEF m, n
    <2> QED
      BY <1>1, <1>2, <2>1 DEF Gap
  <1>3. CASE c # q
    <2>1. ny[c] = n
      BY <1>3
    <2>2. n # p
      BY <1>3, RingInjective
    <2> HIDE DEF m, n
    <2> QED
      BY <1>1, <2>1, <2>2 DEF Gap
  <1> QED
    BY <1>2, <1>3

\* p lies between q and the element n that follows it.
Amid(q, n, p) == IF q > n THEN q > p /\ n < p ELSE q > p \/ n < p

\* p joins the ring behind q.
Joins(p, q, F, nx, ny) ==
    /\ F \in SUBSET Nat /\ Ring(F, nx) /\ p \in Nat \ F /\ q \in F /\ Amid(q, nx[q], p)
    /\ ny[q] = p /\ ny[p] = nx[q] /\ \A c \in F \ {q} : ny[c] = nx[c]

LEMMA RingWith ==
  ASSUME NEW F, NEW nx, NEW ny, NEW p, NEW q, Joins(p, q, F, nx, ny)
  PROVE  Ring(F \cup {p}, ny)
  <1> USE DEF Joins
  <1> SUFFICES ASSUME NEW c \in F \cup {p}
               PROVE  ny[c] \in F \cup {p} /\ Gap(F \cup {p}, c, ny[c])
    BY DEF Ring
  <1> DEFINE m == nx[q]
  <1>1. m \in F /\ Gap(F, q, m) /\ Amid(q, m, p)
    BY DEF Ring
  <1>2. CASE c = p
    <2>1. ny[c] = m
      BY <1>2
    <2> HIDE DEF m
    <2> QED
      BY <1>1, <1>2, <2>1 DEF Gap, Amid
  <1>3. CASE c = q
    <2> HIDE DEF m
    <2> QED
      BY <1>1, <1>3 DEF Gap, Amid
  <1>4. CASE c # p /\ c # q
    <2> DEFINE n == nx[c]
    <2>1. ny[c] = n /\ c \in F
      BY <1>4
    <2>2. n # m
      BY <1>4, RingInjective
    <2>3. n \in F /\ Gap(F, c, n)
      BY <2>1 DEF Ring
    <2> HIDE DEF m, n
    <2> QED
      BY <1>1, <1>4, <2>1, <2>2, <2>3 DEF Gap, Amid
  <1> QED
    BY <1>2, <1>3, <1>4

\* t, which lies above p but below what is above p, takes the place of p behind q.
Replaces(t, p, q, F, nx, ny) ==
    /\ F \in SUBSET Nat /\ Ring(F, nx) /\ p \in F /\ q \in F /\ nx[q] = p
    /\ t \in Nat /\ t > p /\ \A d \in F : d <= p \/ d > t
    /\ ny[t] = IF q = p THEN t ELSE nx[p]
    /\ \A c \in F \ {p} : ny[c] = IF c = q THEN t ELSE nx[c]

LEMMA RingInstead ==
  ASSUME NEW F, NEW nx, NEW ny, NEW p, NEW q, NEW t, Replaces(t, p, q, F, nx, ny)
  PROVE  Ring((F \ {p}) \cup {t}, ny)
  <1> USE DEF Replaces
  <1> DEFINE G == (F \ {p}) \cup {t}
  <1> SUFFICES ASSUME NEW c \in G PROVE ny[c] \in G /\ Gap(G, c, ny[c])
    BY DEF Ring
  <1> DEFINE m == nx[p]
  <1>1. m \in F /\ Gap(F, p, m) /\ Gap(F, q, p)
    BY DEF Ring
  <1>2. CASE c = t
    <2>1. ny[c] = IF q = p THEN t ELSE m
      BY <1>2
    <2>2. q # p => m # p
      BY RingInjective
    <2> HIDE DEF m
    <2> QED
      BY <1>1, <1>2, <2>1, <2>2 DEF Gap
  <1>3. CASE c = q /\ c # t
    <2>1. q # p /\ ny[c] = t
      BY <1>3
    <2> HIDE DEF m
    <2> QED
      BY <1>1, <1>3, <2>1 DEF Gap
  <1>4. CASE c # t /\ c # q
    <2> DEFINE n == nx[c]
    <2>1. ny[c] = n /\ c \in F \ {p}
      BY <1>4
    <2>2. n # p
      BY <1>4, RingInjective
    <2>3. n \in F /\ Gap(F, c, n)
      BY <2>1 DEF Ring
    <2> HIDE DEF m, n
    <2> QED
      BY <1>1, <1>4, <2>1, <2>2, <2>3 DEF Gap
  <1> QED
    BY <1>2, <1>3, <1>4

\* Every element follows another one.
LEMMA RingPred ==
  ASSUME NEW F \in SUBSET Nat, NEW nx, Ring(F, nx), NEW d \in F
  PROVE  \E c \in F : nx[c] = d
  <1> DEFINE up == {c \in F : c > d}
  <1>1. CASE up # {}
    <2>1. PICK c \in up : \A e \in up : c <= e
      BY <1>1, LeastElement
    <2> DEFINE n == nx[c]
    <2>2. n \in F /\ Gap(F, c, n) /\ c \in F /\ c > d /\ (n > d => c <= n)
      BY <2>1 DEF Ring
    <2>3. n = d
      <3> HIDE DEF n
      <3> QED
        BY <2>2 DEF Gap
    <2> QED
      BY <2>2, <2>3
  <1>2. CASE up = {}
    <2>1. PICK c \in F : \A e \in F : c <= e
      BY LeastElement
    <2> DEFINE n == nx[c]
    <2>2. n \in F /\ Gap(F, c, n)
      BY DEF Ring
    <2>3. \A e \in F : e <= d
      BY <1>2
    <2>4. n = d
      <3> HIDE DEF n
      <3> QED
        BY <2>1, <2>2, <2>3 DEF Gap
    <2> QED
      BY <2>4
  <1> QED
    BY <1>1, <1>2

\* How far the ring runs from q until it comes to b; B bounds its elements.
Turn(b, B, q) == IF q <= b THEN B + q ELSE q

LEMMA RingStep ==
  ASSUME NEW F \in SUBSET Nat, NEW nx, Ring(F, nx), NEW b \in F, NEW q \in F,
         NEW B \in Nat, \A c \in F : c < B
  PROVE  /\ nx[q] # b =>
              /\ Turn(b, B, nx[q]) < Turn(b, B, q)
              /\ \A d \in F : Turn(b, B, d) < Turn(b, B, q) =>
                     d = nx[q] \/ Turn(b, B, d) < Turn(b, B, nx[q])
         /\ nx[q] = b => \A d \in F : Turn(b, B, q) <= Turn(b, B, d)
  <1> DEFINE n == nx[q]
  <1>1. n \in F /\ Gap(F, q, n)
    BY DEF Ring
  <1> HIDE DEF n
  <1>2. n # b => Turn(b, B, n) < Turn(b, B, q)
    BY <1>1 DEF Gap, Turn
  <1>3. ASSUME n # b, NEW d \in F, Turn(b, B, d) < Turn(b, B, q), d # n
        PROVE  Turn(b, B, d) < Turn(b, B, n)
    BY <1>1, <1>3 DEF Gap, Turn
  <1>4. ASSUME n = b, NEW d \in F PROVE Turn(b, B, q) <= Turn(b, B, d)
    BY <1>1, <1>4 DEF Gap, Turn
  <1> QED
    BY <1>2, <1>3, <1>4 DEF n

LEMMA TurnType ==
  ASSUME NEW b \in Nat, NEW B \in Nat, NEW q \in Nat PROVE Turn(b, B, q) \in Nat
  BY DEF Turn

\* A walk round the ring that stops before b at the latest.
Walk(F, nx, b, B, stop) ==
    /\ F \in SUBSET Nat /\ Ring(F, nx) /\ b \in F
    /\ B \in Nat /\ \A c \in F : c < B
    /\ \A q \in F : nx[q] = b => q \in stop

\* It is a function.
LEMMA WalkExists ==
  ASSUME NEW F, NEW nx, NEW b, NEW B, NEW stop, Walk(F, nx, b, B, stop),
         NEW V, NEW val \in [F -> V]
  PROVE  \E f \in [F -> V] :
             \A q \in F : f[q] = IF q \in stop THEN val[q] ELSE f[nx[q]]
  <1> DEFINE m(q) == Turn(b, B, q)
             Upto(f, k) == \A q \in F : m(q) < k =>
                               f[q] = IF q \in stop THEN val[q] ELSE f[nx[q]]
             S == {k \in Nat : \E f \in [F -> V] : Upto(f, k)}
  <1> USE DEF Walk
  <1>0. \A q \in F : m(q) \in Nat
    BY TurnType
  <1>1. 0 \in S
    <2>1. \A f : Upto(f, 0)
      BY <1>0
    <2> HIDE DEF Upto
    <2> QED
      BY <2>1
  <1>2. ASSUME NEW k \in Nat, k \in S PROVE k + 1 \in S
    <2>1. PICK f \in [F -> V] : Upto(f, k)
      BY <1>2
    <2> DEFINE g == [q \in F |-> IF m(q) < k THEN f[q]
                                 ELSE IF q \in stop THEN val[q] ELSE f[nx[q]]]
    <2>2. g \in [F -> V]
      BY DEF Ring
    <2>3. ASSUME NEW q \in F, m(q) < k + 1
          PROVE  g[q] = IF q \in stop THEN val[q] ELSE g[nx[q]]
      <3>1. g[q] = IF q \in stop THEN val[q] ELSE f[nx[q]]
        BY <2>1
      <3>2. CASE q \in stop
        BY <3>1, <3>2
      <3>3. CASE q \notin stop
        <4>1. nx[q] # b /\ nx[q] \in F
          BY <3>3 DEF Ring
        <4>2. m(nx[q]) < m(q)
          BY <4>1, RingStep
        <4>3. m(nx[q]) < k
          <5>1. m(nx[q]) \in Nat /\ m(q) \in Nat
            BY <1>0, <4>1
          <5> HIDE DEF m
          <5> QED
            BY <5>1, <4>2, <2>3
        <4> QED
          BY <3>1, <3>3, <4>1, <4>3
      <3> QED
        BY <3>2, <3>3
    <2>4. Upto(g, k + 1)
      BY <2>3
    <2> HIDE DEF Upto, g
    <2> QED
      BY <2>2, <2>4
  <1> HIDE DEF S
  <1>3. 2 * B + 1 \in S
    BY <1>1, <1>2, NatInd
  <1>4. PICK f \in [F -> V] : Upto(f, 2 * B + 1)
    BY <1>3 DEF S
  <1>5. \A q \in F : m(q) < 2 * B + 1
    BY DEF Turn
  <1>6. \A q \in F : f[q] = IF q \in stop THEN val[q] ELSE f[nx[q]]
    BY <1>4, <1>5
  <1> QED
    BY <1>4, <1>6

Walks(f, F, nx, stop, val) ==
    \A q \in F : f[q] = IF q \in stop THEN val[q] ELSE f[nx[q]]

\* What holds where the search stops, holds of what it finds: the search goes on
\* until it stops.
LEMMA WalkEnds ==
  ASSUME NEW F, NEW nx, NEW b, NEW B, NEW stop, Walk(F, nx, b, B, stop), NEW val, NEW f,
         Walks(f, F, nx, stop, val), NEW a \in F
  PROVE  \E q \in F : q \in stop /\ f[a] = val[q]
  <1> DEFINE Ok(c) == \E q \in F : q \in stop /\ f[c] = val[q]
             bad == {k \in Nat : \E c \in F : Turn(b, B, c) = k /\ ~Ok(c)}
  <1> SUFFICES ASSUME ~Ok(a) PROVE FALSE
    OBVIOUS
  <1> USE DEF Walk, Walks
  <1>0. \A q \in F : Turn(b, B, q) \in Nat
    BY TurnType
  <1>1. Turn(b, B, a) \in bad
    BY <1>0
  <1> HIDE DEF bad
  <1>2. PICK k \in bad : \A j \in bad : k <= j
    BY <1>1, LeastElement DEF bad
  <1>3. PICK c \in F : Turn(b, B, c) = k /\ ~Ok(c)
    BY DEF bad
  <1>4. c \notin stop /\ f[c] = f[nx[c]]
    BY <1>3
  <1>5. nx[c] # b /\ nx[c] \in F
    BY <1>4 DEF Ring
  <1>6. Turn(b, B, nx[c]) < k
    BY <1>3, <1>5, RingStep
  <1>7. ~Ok(nx[c])
    BY <1>3, <1>4
  <1>8. Turn(b, B, nx[c]) \in bad
    BY <1>5, <1>7, <1>0 DEF bad
  <1> QED
    BY <1>2, <1>6, <1>8, <1>0, <1>5 DEF bad
-----------------------------------------------------------------------------
(* The search for a free block.                                            *)

\* The cells of a region but for its own header.
Inside(r) == r.at + 1 .. r.at + r.size

\* What holds of one region of a heap.
InPlace(h, r) ==
    /\ r \in RegionSet /\ h.hdr \in [Cells -> HeaderSet] /\ SpanOf(r) \subseteq Cells
    /\ Tiled(h, r) /\ Ringed(h, r)

LEMMA CellsNat == Cells \subseteq Nat /\ 0 \notin Cells /\ Align \in Nat \ {0}
  BY AlignAssumption

LEMMA BlocksOf ==
  ASSUME NEW h, NEW r \in RegionSet
  PROVE  /\ Headers(h, r) \subseteq r.at + 1 .. r.at + r.size
         /\ Headers(h, r) \subseteq Nat /\ FreeIn(h, r) \subseteq Headers(h, r)
         /\ \A c \in Headers(h, r) : c \in SpanOf(r) /\ c \in Inside(r)
         /\ \A c \in FreeIn(h, r) : c \in Nat /\ c < r.at + r.size + 1
  BY DEF RegionSet, Headers, FreeIn, SpanOf, Inside

\* The free blocks form a ring.
LEMMA RingedIs ==
  ASSUME NEW h, NEW r \in RegionSet
  PROVE  Ringed(h, r) <=>
             IF FreeIn(h, r) = {} THEN h.first[r.at] \in Headers(h, r)
             ELSE /\ h.first[r.at] \in FreeIn(h, r)
                  /\ \A c \in FreeIn(h, r) :
                         h.hdr[c].next \in FreeIn(h, r) /\ Gap(FreeIn(h, r), c, h.hdr[c].next)
  <1> DEFINE F == FreeIn(h, r)
             Lower(c) == {d \in F : d < c}
             Among(c) == IF Lower(c) = {} THEN F ELSE Lower(c)
  <1>1. F \subseteq Nat
    BY BlocksOf
  <1>2. ASSUME NEW c \in F, NEW n
        PROVE  (n \in Among(c) /\ \A d \in Among(c) : d <= n) <=> (n \in F /\ Gap(F, c, n))
    <2> HIDE DEF F
    <2>1. CASE Lower(c) = {}
      <3>1. \A d \in F : c <= d
        BY <1>1, <2>1
      <3> QED
        BY <1>1, <2>1, <3>1 DEF Gap
    <2>2. CASE Lower(c) # {}
      <3>1. PICK e \in F : e < c
        BY <2>2
      <3> QED
        BY <1>1, <2>2, <3>1 DEF Gap
    <2> QED
      BY <2>1, <2>2
  <1>3. Ringed(h, r) <=>
             IF F = {} THEN h.first[r.at] \in Headers(h, r)
             ELSE /\ h.first[r.at] \in F
                  /\ \A c \in F : /\ h.hdr[c].next \in Among(c)
                                  /\ \A d \in Among(c) : d <= h.hdr[c].next
    BY DEF Ringed
  <1> HIDE DEF F, Among
  <1> QED
    BY <1>2, <1>3 DEF F

LEMMA RingOf ==
  ASSUME NEW h, NEW r, InPlace(h, r), FreeIn(h, r) # {}
  PROVE  /\ FreeIn(h, r) \in SUBSET Nat
         /\ Ring(FreeIn(h, r), Links(h)) /\ h.first[r.at] \in FreeIn(h, r)
         /\ \A c \in FreeIn(h, r) : c \in Cells /\ Links(h)[c] = h.hdr[c].next
  <1>1. r \in RegionSet /\ SpanOf(r) \subseteq Cells /\ Ringed(h, r)
    BY DEF InPlace
  <1>2. \A c \in FreeIn(h, r) : c \in Cells /\ Links(h)[c] = h.hdr[c].next
    BY <1>1, BlocksOf DEF Links
  <1> QED
    BY <1>1, <1>2, BlocksOf, RingedIs DEF Ring

LEMMA SearchExists ==
  ASSUME NEW h, NEW r, InPlace(h, r), FreeIn(h, r) # {}, NEW n, NEW align
  PROVE  \E f : /\ f = [q \in FreeIn(h, r) |->
                          IF Fits(h, h.hdr[q].next, n, align) THEN q
                          ELSE IF h.hdr[q].next = h.first[r.at] THEN NULL
                               ELSE f[h.hdr[q].next]]
                /\ Search(h, r, n, align) = IF Full(h, r.at) THEN NULL ELSE f[h.first[r.at]]
  <1> DEFINE F == FreeIn(h, r)
             b == h.first[r.at]
             nx == Links(h)
             stop == {q \in F : Fits(h, nx[q], n, align) \/ nx[q] = b}
             val == [q \in F |-> IF Fits(h, nx[q], n, align) THEN q ELSE NULL]
             B == r.at + r.size + 1
             V == F \cup {NULL}
  <1>1. r \in RegionSet
    BY DEF InPlace
  <1>2. F \in SUBSET Nat /\ Ring(F, nx) /\ b \in F /\ B \in Nat /\ \A c \in F : c < B
    BY <1>1, RingOf, BlocksOf DEF RegionSet
  <1>3. \A q \in F : nx[q] = h.hdr[q].next
    BY RingOf
  <1>4. \A q \in F : nx[q] = b => q \in stop
    OBVIOUS
  <1>5. PICK f \in [F -> V] :
             \A q \in F : f[q] = IF q \in stop THEN val[q] ELSE f[nx[q]]
    <2>1. val \in [F -> V] /\ Walk(F, nx, b, B, stop)
      BY <1>2, <1>4 DEF Walk
    <2> HIDE DEF F, nx, b, stop, val, B, V
    <2> QED
      BY <2>1, WalkExists
  <1>6. ASSUME NEW q \in F
        PROVE  (IF q \in stop THEN val[q] ELSE f[nx[q]]) =
                   IF Fits(h, h.hdr[q].next, n, align) THEN q
                   ELSE IF h.hdr[q].next = b THEN NULL ELSE f[h.hdr[q].next]
    BY <1>3
  <1>7. f = [q \in F |-> IF Fits(h, h.hdr[q].next, n, align) THEN q
                         ELSE IF h.hdr[q].next = b THEN NULL ELSE f[h.hdr[q].next]]
    <2> HIDE DEF F, nx, b, stop, val
    <2> QED
      BY <1>5, <1>6
  <1> DEFINE g == CHOOSE g : g = [q \in FreeIn(h, r) |->
                          IF Fits(h, h.hdr[q].next, n, align) THEN q
                          ELSE IF h.hdr[q].next = h.first[r.at] THEN NULL
                               ELSE g[h.hdr[q].next]]
  <1>8. g = [q \in FreeIn(h, r) |->
                          IF Fits(h, h.hdr[q].next, n, align) THEN q
                          ELSE IF h.hdr[q].next = h.first[r.at] THEN NULL
                               ELSE g[h.hdr[q].next]]
    BY <1>7
  <1>9. Search(h, r, n, align) = IF Full(h, r.at) THEN NULL ELSE g[h.first[r.at]]
    BY DEF Search
  <1> QED
    BY <1>8, <1>9

\* In a region that is full there is nothing to find.
LEMMA FullIs ==
  ASSUME NEW h, NEW r, InPlace(h, r)
  PROVE  Full(h, r.at) <=> FreeIn(h, r) = {}
  <1>1. r \in RegionSet /\ Ringed(h, r) /\ h.hdr \in [Cells -> HeaderSet]
    BY DEF InPlace
  <1>2. CASE FreeIn(h, r) = {}
    <2>1. h.first[r.at] \in Headers(h, r) /\ h.first[r.at] \in Cells
      BY <1>1, <1>2, RingedIs, BlocksOf DEF InPlace
    <2>2. h.hdr[h.first[r.at]] \in HeaderSet
      BY <1>1, <2>1
    <2> QED
      BY <1>2, <2>1, <2>2 DEF Headers, FreeIn, Full, HeaderSet
  <1>3. CASE FreeIn(h, r) # {}
    BY <1>3, RingOf DEF Full, FreeIn
  <1> QED
    BY <1>2, <1>3

\* The search finds the block before one that fits, if there is one at all.
LEMMA SearchFinds ==
  ASSUME NEW h, NEW r, InPlace(h, r), NEW n, NEW align
  PROVE  \/ /\ Search(h, r, n, align) \in FreeIn(h, r)
            /\ Fits(h, h.hdr[Search(h, r, n, align)].next, n, align)
         \/ /\ Search(h, r, n, align) = NULL
            /\ \A c \in FreeIn(h, r) : ~Fits(h, c, n, align)
  <1>1. CASE FreeIn(h, r) = {}
    BY <1>1, FullIs DEF Search
  <1>2. CASE FreeIn(h, r) # {}
    <2> DEFINE F == FreeIn(h, r)
               b == h.first[r.at]
               nx == Links(h)
               B == r.at + r.size + 1
               fits(c) == Fits(h, c, n, align)
    <2>1. PICK f : /\ f = [q \in FreeIn(h, r) |->
                          IF Fits(h, h.hdr[q].next, n, align) THEN q
                          ELSE IF h.hdr[q].next = h.first[r.at] THEN NULL
                               ELSE f[h.hdr[q].next]]
                   /\ Search(h, r, n, align) =
                          IF Full(h, r.at) THEN NULL ELSE f[h.first[r.at]]
      BY <1>2, SearchExists
    <2>2. r \in RegionSet
      BY DEF InPlace
    <2>3. F \in SUBSET Nat /\ Ring(F, nx) /\ b \in F /\ B \in Nat /\ \A c \in F : c < B
      BY <1>2, <2>2, RingOf, BlocksOf DEF RegionSet
    <2>4. \A q \in F : f[q] = IF fits(nx[q]) THEN q ELSE IF nx[q] = b THEN NULL ELSE f[nx[q]]
      BY <1>2, <2>1, RingOf
    <2>5. Search(h, r, n, align) = f[b]
      BY <1>2, <2>1, FullIs
    <2>6. \A q \in F : h.hdr[q].next = nx[q] /\ q # NULL
      BY <1>2, RingOf, CellsNat DEF NULL
    <2> DEFINE stop == {q \in F : fits(nx[q]) \/ nx[q] = b}
               val == [q \in F |-> IF fits(nx[q]) THEN q ELSE NULL]
    <2> HIDE DEF F, nx, b, B, fits
    <2>7. \E q \in F : q \in stop /\ f[b] = val[q]
      <3>1. Walk(F, nx, b, B, stop)
        BY <2>3 DEF Walk
      <3>2. Walks(f, F, nx, stop, val)
        BY <2>4 DEF Walks
      <3>3. b \in F
        BY <2>3
      <3> HIDE DEF stop, val
      <3> QED
        BY <3>1, <3>2, <3>3, WalkEnds
    <2>8. f[b] = NULL \/ (f[b] \in F /\ fits(nx[f[b]]))
      BY <2>7
    <2>9. ASSUME f[b] = NULL, NEW d \in F, fits(d) PROVE FALSE
      <3> DEFINE T(q) == Turn(b, B, q)
                 Miss(c) == f[c] = NULL /\ \E e \in F : (e = b \/ T(e) < T(c)) /\ fits(e)
                 bad == {k \in Nat : \E c \in F : T(c) = k /\ Miss(c)}
      <3>0. \A q \in F : T(q) \in Nat
        BY <2>3, TurnType
      <3>1. T(b) \in bad
        <4>1. d = b \/ T(d) < T(b)
          BY <2>3 DEF Turn
        <4> QED
          BY <2>3, <2>9, <3>0, <4>1
      <3> HIDE DEF bad
      <3>2. PICK k \in bad : \A j \in bad : k <= j
        BY <3>1, LeastElement DEF bad
      <3>3. PICK c \in F : T(c) = k /\ Miss(c)
        BY DEF bad
      <3>4. PICK e \in F : (e = b \/ T(e) < T(c)) /\ fits(e)
        BY <3>3
      <3>5. ~fits(nx[c]) /\ f[c] = NULL
        BY <2>4, <2>6, <3>3
      <3>6. nx[c] \in F /\ e # nx[c]
        BY <2>3, <3>4, <3>5 DEF Ring
      <3>7. nx[c] # b => f[nx[c]] = NULL /\ T(nx[c]) < T(c) /\ (e = b \/ T(e) < T(nx[c]))
        BY <2>3, <2>4, <3>4, <3>5, <3>6, RingStep
      <3>8. nx[c] # b => T(nx[c]) \in bad
        BY <3>0, <3>4, <3>6, <3>7 DEF bad
      <3>9. nx[c] = b
        BY <3>0, <3>2, <3>3, <3>6, <3>7, <3>8
      <3>10. T(c) <= T(e)
        BY <2>3, <3>9, RingStep
      <3> QED
        BY <3>0, <3>4, <3>6, <3>9, <3>10
    <2> QED
      BY <2>5, <2>6, <2>8, <2>9 DEF F, fits
  <1> QED
    BY <1>1, <1>2

-----------------------------------------------------------------------------
(* The search for the place of a block that is freed.                      *)

\* Some gap of the ring holds p.
LEMMA GapOf ==
  ASSUME NEW F \in SUBSET Nat, F # {}, NEW nx, Ring(F, nx), NEW p \in Nat \ F
  PROVE  \E b \in F : Amid(b, nx[b], p)
  <1> DEFINE up == {c \in F : c > p}
  <1>1. CASE up # {}
    <2>1. PICK b \in up : \A e \in up : b <= e
      BY <1>1, LeastElement
    <2> DEFINE n == nx[b]
    <2>2. b \in F /\ b > p /\ n \in F /\ Gap(F, b, n) /\ (n > p => b <= n)
      BY <2>1 DEF Ring
    <2>3. Amid(b, n, p)
      <3> HIDE DEF n
      <3> QED
        BY <2>2 DEF Gap, Amid
    <2> QED
      BY <2>2, <2>3
  <1>2. CASE up = {}
    <2>1. PICK b \in F : \A e \in F : b <= e
      BY LeastElement
    <2> DEFINE n == nx[b]
    <2>2. n \in F /\ Gap(F, b, n)
      BY DEF Ring
    <2>3. \A e \in F : e <= p
      BY <1>2
    <2>4. Amid(b, n, p)
      <3> HIDE DEF n
      <3> QED
        BY <2>1, <2>2, <2>3 DEF Gap, Amid
    <2> QED
      BY <2>4
  <1> QED
    BY <1>1, <1>2

LEMMA SpotFinds ==
  ASSUME NEW h, NEW r, InPlace(h, r), FreeIn(h, r) # {}, NEW p \in Nat \ FreeIn(h, r)
  PROVE  /\ Spot(h, r, p) \in FreeIn(h, r)
         /\ Between(h, h.hdr[Spot(h, r, p)].next, p)
  <1> DEFINE F == FreeIn(h, r)
             nx == Links(h)
             amid(q) == Between(h, q, p)
             stop == {s \in F : amid(nx[s])}
             val == [s \in F |-> s]
             B == r.at + r.size + 1
             a == h.first[r.at]
             V == F
  <1>1. r \in RegionSet
    BY DEF InPlace
  <1>2. F \in SUBSET Nat /\ Ring(F, nx) /\ B \in Nat /\ \A c \in F : c < B
    BY <1>1, RingOf, BlocksOf DEF RegionSet
  <1>3. a \in F
    BY RingOf
  <1>4. \A q \in F : nx[q] = h.hdr[q].next
    BY RingOf
  <1>5. PICK b \in F : Amid(b, nx[b], p)
    <2> HIDE DEF F, nx
    <2> QED
      BY <1>2, GapOf DEF F
  <1>6. amid(b)
    BY <1>4, <1>5 DEF Between, Amid
  <1>7. Walk(F, nx, b, B, stop)
    BY <1>2, <1>6 DEF Walk
  <1>8. val \in [F -> V]
    OBVIOUS
  <1>9. PICK f \in [F -> V] : \A q \in F : f[q] = IF q \in stop THEN val[q] ELSE f[nx[q]]
    <2> HIDE DEF F, nx, stop, val, B, V
    <2> QED
      BY <1>7, <1>8, WalkExists
  <1>10. f = [s \in F |-> IF Between(h, h.hdr[s].next, p) THEN s ELSE f[h.hdr[s].next]]
    <2>1. f = [s \in F |-> f[s]]
      OBVIOUS
    <2>2. \A s \in F : f[s] = IF Between(h, h.hdr[s].next, p) THEN s ELSE f[h.hdr[s].next]
      BY <1>4, <1>9
    <2> HIDE DEF F
    <2> QED
      BY <2>1, <2>2
  <1> DEFINE g == CHOOSE g : g = [s \in FreeIn(h, r) |->
                     IF Between(h, h.hdr[s].next, p) THEN s ELSE g[h.hdr[s].next]]
  <1>11. g = [s \in FreeIn(h, r) |->
                     IF Between(h, h.hdr[s].next, p) THEN s ELSE g[h.hdr[s].next]]
    BY <1>10
  <1>12. Spot(h, r, p) = g[a]
    BY DEF Spot
  <1> HIDE DEF g
  <1>13. Walks(g, F, nx, stop, val)
    <2>1. \A s \in F : g[s] = IF Between(h, h.hdr[s].next, p) THEN s ELSE g[h.hdr[s].next]
      BY <1>11
    <2> QED
      BY <1>4, <2>1 DEF Walks
  <1>14. PICK q \in F : q \in stop /\ g[a] = val[q]
    <2> HIDE DEF F, nx, stop, val, B, a
    <2> QED
      BY <1>3, <1>7, <1>13, WalkEnds
  <1> QED
    BY <1>4, <1>12, <1>14

-----------------------------------------------------------------------------
(* Alignment.                                                              *)

LEMMA Divides ==
  ASSUME NEW a \in Nat, NEW b \in Nat \ {0}
  PROVE  a \div b \in Nat /\ a % b \in 0 .. b - 1 /\ a = b * (a \div b) + (a % b)
  OBVIOUS

LEMMA Multiple ==
  ASSUME NEW b \in Nat \ {0}, NEW k \in Nat PROVE (b * k) % b = 0
  OBVIOUS

\* Extra is the least that makes the pointer behind p an aligned one.
LEMMA ExtraIs ==
  ASSUME NEW p \in Nat, NEW align \in Nat \ {0}
  PROVE  /\ Extra(p, align) \in Nat
         /\ \E k \in Nat : p + 1 + Extra(p, align) = align * k
         /\ \A a \in Nat : a >= p /\ (a + 1) % align = 0 => p + Extra(p, align) <= a
  <1> DEFINE d == (p + 1) \div align
             m == (p + 1) % align
             E == Extra(p, align)
  <1>1. d \in Nat /\ m \in 0 .. align - 1 /\ p + 1 = align * d + m
    <2> DEFINE x == p + 1
    <2>1. x \in Nat
      OBVIOUS
    <2> HIDE DEF x
    <2>2. x \div align \in Nat /\ x % align \in 0 .. align - 1
            /\ x = align * (x \div align) + (x % align)
      BY <2>1, Divides
    <2> QED
      BY <2>2 DEF x
  <1>2. CASE m = 0
    <2>1. E = 0
      BY <1>2, Multiple DEF Extra
    <2>2. p + 1 + E = align * d /\ E \in Nat /\ d \in Nat
      <3> HIDE DEF d, m, E
      <3> QED
        BY <1>1, <1>2, <2>1
    <2>3. \A a \in Nat : a >= p => p + E <= a
      BY <2>1
    <2> QED
      BY <2>2, <2>3
  <1>3. CASE m # 0
    <2>1. E = align - m
      <3> HIDE DEF m
      <3>1. (align - m) % align = align - m
        BY <1>1, <1>3
      <3> QED
        BY <3>1 DEF Extra, m
    <2>2. p + 1 + E = align * (d + 1) /\ d + 1 \in Nat
      <3> HIDE DEF d, m, E
      <3>1. align * (d + 1) = align * d + align /\ align * d \in Nat
        BY <1>1
      <3> QED
        BY <1>1, <2>1, <3>1
    <2>3. E \in Nat
      BY <1>1, <2>1
    <2>4. ASSUME NEW a \in Nat, a >= p, (a + 1) % align = 0
          PROVE  p + E <= a
      <3> DEFINE k == (a + 1) \div align
      <3>1. k \in Nat /\ a + 1 = align * k
        BY <2>4, Divides
      <3> HIDE DEF k, d, m, E
      <3>2. k > d
        <4> SUFFICES ASSUME k <= d PROVE FALSE
          BY <1>1, <3>1
        <4>1. align * k <= align * d
          BY <1>1, <3>1
        <4>2. align * k \in Nat /\ align * d \in Nat
          BY <1>1, <3>1
        <4> QED
          BY <1>1, <1>3, <2>4, <3>1, <4>1, <4>2
      <3>3. align * (d + 1) <= align * k /\ align * (d + 1) \in Nat
        BY <1>1, <3>1, <3>2
      <3> QED
        BY <2>2, <2>3, <3>1, <3>3
    <2> QED
      BY <2>2, <2>3, <2>4
  <1> QED
    BY <1>2, <1>3

\* What grub_real_malloc cuts off in front of an aligned block.
LEMMA SpareAligned ==
  ASSUME NEW p \in Nat, NEW align \in Nat \ {0}, NEW spare \in Nat, NEW e,
         e = Extra(p, align) + spare - (spare % align)
  PROVE  e \in Nat /\ e <= Extra(p, align) + spare /\ (p + 1 + e) % align = 0
  <1> DEFINE E == Extra(p, align)
             j == spare \div align
             m == spare % align
  <1>1. PICK k \in Nat : p + 1 + E = align * k
    BY ExtraIs
  <1>2. E \in Nat /\ j \in Nat /\ m \in 0 .. align - 1 /\ spare = align * j + m
    BY ExtraIs, Divides
  <1>3. e = E + spare - m
    OBVIOUS
  <1> HIDE DEF E, j, m
  <1>4. align * (k + j) = align * k + align * j /\ align * j \in Nat /\ k + j \in Nat
    BY <1>2
  <1>5. p + 1 + e = align * (k + j) /\ e \in Nat /\ e <= E + spare
    <2> DEFINE x == align * k
               y == align * j
               z == align * (k + j)
    <2>1. z = x + y /\ y \in Nat /\ p + 1 + E = x /\ spare = y + m
      BY <1>1, <1>2, <1>4
    <2>2. E \in Nat /\ m \in Nat
      BY <1>2
    <2> HIDE DEF x, y, z
    <2>3. p + 1 + e = z /\ e \in Nat /\ e <= E + spare
      BY <1>3, <2>1, <2>2
    <2> QED
      BY <2>3 DEF z
  <1>6. (align * (k + j)) % align = 0
    BY <1>4, Multiple
  <1> QED
    BY <1>5, <1>6 DEF E

-----------------------------------------------------------------------------
(* Blocks side by side, in the cells from lo up to hi.                     *)

Tiles(lo, hi, H, sz) ==
    /\ lo \in H
    /\ \A c \in H : /\ c + sz[c] > c
                    /\ c + sz[c] \in H \cup {hi}
                    /\ \A d \in H : d <= c \/ d >= c + sz[c]

\* No two blocks of F touch.
Loose(F, sz) == \A c \in F : c + sz[c] \notin F

LEMMA TiledIs ==
  ASSUME NEW h, NEW r \in RegionSet, SpanOf(r) \subseteq Cells
  PROVE  Tiled(h, r) <=> /\ Tiles(r.at + 1, r.at + r.size + 1, Headers(h, r), Sizes(h))
                         /\ Loose(FreeIn(h, r), Sizes(h))
  <1> DEFINE H == Headers(h, r)
             F == FreeIn(h, r)
             sz == Sizes(h)
             hi == r.at + r.size + 1
  <1>1. H \subseteq Cells /\ F \subseteq H /\ hi \notin H
    BY BlocksOf DEF RegionSet
  <1>2. \A c \in H : sz[c] = h.hdr[c].size
    BY <1>1 DEF Sizes
  <1>3. Tiled(h, r) <=> /\ r.at + 1 \in H
                        /\ \A c \in H : /\ c + sz[c] > c
                                        /\ c + sz[c] \in H \cup {hi}
                                        /\ \A d \in H : d <= c \/ d >= c + sz[c]
                                        /\ c + sz[c] \in F => c \notin F
    <2> HIDE DEF sz
    <2> QED
      BY <1>2 DEF Tiled
  <1> HIDE DEF H, F, sz, hi
  <1>4. Tiled(h, r) <=> Tiles(r.at + 1, hi, H, sz) /\ Loose(F, sz)
    BY <1>1, <1>3 DEF Tiles, Loose
  <1> QED
    BY <1>4 DEF H, F, sz, hi

Tiling(lo, hi, H, sz) ==
    /\ lo \in Nat /\ hi \in Nat /\ H \in SUBSET Nat /\ Tiles(lo, hi, H, sz)
    /\ \A c \in H : lo <= c /\ c < hi /\ sz[c] \in Nat

LEMMA TilesEnd ==
  ASSUME NEW lo, NEW hi, NEW H, NEW sz, Tiling(lo, hi, H, sz), NEW c \in H
  PROVE  sz[c] > 0 /\ c + sz[c] <= hi
  <1> USE DEF Tiling
  <1> DEFINE e == sz[c]
  <1>1. c + e > c /\ c + e \in H \cup {hi} /\ e \in Nat
    BY DEF Tiles
  <1> HIDE DEF e
  <1>2. e > 0 /\ c + e <= hi
    BY <1>1
  <1> QED
    BY <1>2 DEF e

\* A block is cut in two.
Splits(p, t, H, sz, sy) ==
    /\ p \in H /\ t \in Nat /\ p < t /\ t < p + sz[p]
    /\ sy[p] = t - p /\ sy[t] = (p + sz[p]) - t /\ \A c \in H \ {p} : sy[c] = sz[c]

LEMMA TilesSplit ==
  ASSUME NEW lo, NEW hi, NEW H, NEW sz, Tiling(lo, hi, H, sz), NEW p, NEW t, NEW sy,
         Splits(p, t, H, sz, sy)
  PROVE  /\ t \notin H /\ lo <= t /\ t < hi /\ t + sy[t] = p + sz[p]
         /\ Tiling(lo, hi, H \cup {t}, sy) /\ \A d \in H : d <= p \/ d > t
  <1> USE DEF Tiling, Splits
  <1> DEFINE s == sz[p]
             u == sy[t]
  <1>1. /\ s \in Nat /\ p + s \in H \cup {hi} /\ u = (p + s) - t /\ p \in Nat /\ p + s <= hi
        /\ lo <= p /\ sy[p] = t - p /\ p < t /\ t < p + s
        /\ \A d \in H : d <= p \/ d >= p + s
    BY TilesEnd DEF Tiles
  <1>2. t \in Nat /\ p < t /\ t < hi /\ lo <= t /\ t + u = p + s /\ t \notin H /\ u \in Nat /\ u > 0
    <2> HIDE DEF s, u
    <2> QED
      BY <1>1 DEF s
  <1>3. ASSUME NEW c \in H \cup {t}
        PROVE  /\ c + sy[c] > c
               /\ c + sy[c] \in (H \cup {t}) \cup {hi}
               /\ \A d \in H \cup {t} : d <= c \/ d >= c + sy[c]
    <2>1. CASE c = t
      <3> HIDE DEF s, u
      <3> QED
        BY <1>1, <1>2, <2>1 DEF u
    <2>2. CASE c = p
      <3> HIDE DEF s, u
      <3> QED
        BY <1>1, <1>2, <2>2
    <2>3. CASE c # t /\ c # p
      <3> DEFINE e == sz[c]
      <3>1. /\ c \in H /\ sy[c] = e /\ e \in Nat /\ c + e > c /\ c + e \in H \cup {hi}
            /\ \A d \in H : d <= c \/ d >= c + e
        BY <2>3 DEF Tiles
      <3>2. t <= c \/ t >= c + e
        <4> HIDE DEF s, u, e
        <4> QED
          BY <1>1, <1>2, <3>1, <2>3
      <3> HIDE DEF e
      <3> QED
        BY <3>1, <3>2
    <2> QED
      BY <2>1, <2>2, <2>3
  <1>4. Tiles(lo, hi, H \cup {t}, sy)
    BY <1>3 DEF Tiles
  <1>5. \A c \in H \cup {t} : lo <= c /\ c < hi /\ sy[c] \in Nat
    BY <1>1, <1>2
  <1>6. \A d \in H : d <= p \/ d > t
    <2> HIDE DEF s, u
    <2> QED
      BY <1>1, <1>2
  <1> QED
    BY <1>2, <1>4, <1>5, <1>6

\* Two blocks that touch become one.
Merges(p, t, H, sz, sy) ==
    /\ p \in H /\ t \in H /\ t = p + sz[p]
    /\ sy[p] = sz[p] + sz[t] /\ \A c \in H \ {p, t} : sy[c] = sz[c]

LEMMA TilesJoin ==
  ASSUME NEW lo, NEW hi, NEW H, NEW sz, Tiling(lo, hi, H, sz), NEW p, NEW t, NEW sy,
         Merges(p, t, H, sz, sy)
  PROVE  p < t /\ p + sy[p] = t + sz[t] /\ Tiling(lo, hi, H \ {t}, sy)
  <1> USE DEF Tiling, Merges
  <1> DEFINE s == sz[p]
             u == sz[t]
  <1>1. /\ s \in Nat /\ u \in Nat /\ s > 0 /\ u > 0 /\ t = p + s /\ t + u \in H \cup {hi}
        /\ \A d \in H : d <= p \/ d >= t
        /\ \A d \in H : d <= t \/ d >= t + u
        /\ sy[p] = s + u
    BY TilesEnd DEF Tiles
  <1>2. p < t /\ p + sy[p] = t + u
    <2> HIDE DEF s, u
    <2> QED
      BY <1>1
  <1>3. ASSUME NEW c \in H \ {t}
        PROVE  /\ c + sy[c] > c
               /\ c + sy[c] \in (H \ {t}) \cup {hi}
               /\ \A d \in H \ {t} : d <= c \/ d >= c + sy[c]
    <2>1. CASE c = p
      <3> HIDE DEF s, u
      <3> QED
        BY <1>1, <1>2, <2>1
    <2>2. CASE c # p
      <3> DEFINE e == sz[c]
      <3>1. /\ c \in H /\ sy[c] = e /\ e \in Nat /\ c + e > c /\ c + e \in H \cup {hi}
            /\ \A d \in H : d <= c \/ d >= c + e
        BY <2>2 DEF Tiles
      <3>2. c + e # t
        <4> HIDE DEF s, u, e
        <4> QED
          BY <1>1, <1>2, <3>1, <2>2
      <3> HIDE DEF e
      <3> QED
        BY <3>1, <3>2
    <2> QED
      BY <2>1, <2>2
  <1>4. lo \in H /\ lo # t
    BY <1>2 DEF Tiles
  <1>5. Tiles(lo, hi, H \ {t}, sy)
    BY <1>3, <1>4 DEF Tiles
  <1>6. \A c \in H \ {t} : lo <= c /\ c < hi /\ sy[c] \in Nat
    BY <1>1
  <1> QED
    BY <1>2, <1>4, <1>5, <1>6

-----------------------------------------------------------------------------
(* What an operation leaves behind in its region.                          *)

LEMMA Parts ==
  ASSUME NEW h, NEW r, InPlace(h, r)
  PROVE  /\ r \in RegionSet /\ h.hdr \in [Cells -> HeaderSet]
         /\ FreeIn(h, r) \subseteq Headers(h, r)
         /\ Tiling(r.at + 1, r.at + r.size + 1, Headers(h, r), Sizes(h))
         /\ Loose(FreeIn(h, r), Sizes(h))
         /\ \A c \in Nat : r.at + 1 <= c /\ c < r.at + r.size + 1 =>
                /\ c \in Cells /\ c \in Inside(r)
                /\ Sizes(h)[c] = h.hdr[c].size /\ Links(h)[c] = h.hdr[c].next
                /\ c \in Headers(h, r) <=> h.hdr[c].magic # "none"
                /\ c \in FreeIn(h, r) <=> h.hdr[c].magic = "free"
  <1>1. /\ r \in RegionSet /\ SpanOf(r) \subseteq Cells /\ h.hdr \in [Cells -> HeaderSet]
        /\ Tiled(h, r)
    BY DEF InPlace
  <1>2. r.at \in Nat /\ r.size \in Nat
    BY <1>1 DEF RegionSet
  <1>3. ASSUME NEW c \in Nat, r.at + 1 <= c, c < r.at + r.size + 1
        PROVE  /\ c \in Cells /\ c \in Inside(r)
               /\ c \in Headers(h, r) <=> h.hdr[c].magic # "none"
               /\ c \in FreeIn(h, r) <=> h.hdr[c].magic = "free"
    <2>1. c \in SpanOf(r) /\ c \in Inside(r) /\ c \in r.at + 1 .. r.at + r.size
      BY <1>2, <1>3 DEF SpanOf, Inside
    <2> QED
      BY <1>1, <2>1 DEF Headers, FreeIn
  <1>4. ASSUME NEW c \in Cells
        PROVE  /\ Sizes(h)[c] = h.hdr[c].size /\ Links(h)[c] = h.hdr[c].next
               /\ Sizes(h)[c] \in Nat
    <2>1. h.hdr[c] \in HeaderSet
      BY <1>1
    <2> QED
      BY <2>1 DEF Sizes, Links, HeaderSet
  <1>5. /\ FreeIn(h, r) \subseteq Headers(h, r)
        /\ \A c \in Headers(h, r) : c \in Nat /\ r.at + 1 <= c /\ c < r.at + r.size + 1
    BY <1>1, <1>2, BlocksOf
  <1>6. Tiling(r.at + 1, r.at + r.size + 1, Headers(h, r), Sizes(h))
    <2>1. /\ r.at + 1 \in Nat /\ r.at + r.size + 1 \in Nat
          /\ Tiles(r.at + 1, r.at + r.size + 1, Headers(h, r), Sizes(h))
      BY <1>1, <1>2, TiledIs
    <2>2. \A c \in Headers(h, r) : Sizes(h)[c] \in Nat
      BY <1>3, <1>4, <1>5
    <2> QED
      BY <1>5, <2>1, <2>2 DEF Tiling
  <1> QED
    BY <1>1, <1>3, <1>4, <1>5, <1>6, TiledIs

\* The headers of g in region r are I, and E those of free blocks.
Labels(g, r, I, E) ==
    /\ E \subseteq I
    /\ \A c \in I : c \in Nat /\ r.at + 1 <= c /\ c < r.at + r.size + 1
    /\ \A c \in Nat : r.at + 1 <= c /\ c < r.at + r.size + 1 =>
           (c \in I <=> g.hdr[c].magic # "none") /\ (c \in E <=> g.hdr[c].magic = "free")

LEMMA Labelled ==
  ASSUME NEW g, NEW r \in RegionSet, NEW I, NEW E, Labels(g, r, I, E)
  PROVE  Headers(g, r) = I /\ FreeIn(g, r) = E
  <1>1. r.at \in Nat /\ r.size \in Nat
    BY DEF RegionSet
  <1>2. \A c : c \in r.at + 1 .. r.at + r.size <=>
                   c \in Nat /\ r.at + 1 <= c /\ c < r.at + r.size + 1
    BY <1>1
  <1>3. \A c : c \in Headers(g, r) <=> c \in I
    BY <1>2 DEF Headers, Labels
  <1>4. \A c : c \in FreeIn(g, r) <=> c \in E
    BY <1>2, <1>3 DEF FreeIn, Labels
  <1> QED
    BY <1>3, <1>4

LEMMA Rebuilt ==
  ASSUME NEW g, NEW r \in RegionSet, SpanOf(r) \subseteq Cells, g.hdr \in [Cells -> HeaderSet],
         NEW I, NEW E, Labels(g, r, I, E),
         Tiling(r.at + 1, r.at + r.size + 1, I, Sizes(g)), Loose(E, Sizes(g)),
         E = {} => g.first[r.at] \in I,
         E # {} => g.first[r.at] \in E /\ Ring(E, Links(g))
  PROVE  InPlace(g, r) /\ Headers(g, r) = I
  <1>1. Headers(g, r) = I /\ FreeIn(g, r) = E
    BY Labelled
  <1>2. Tiled(g, r)
    BY <1>1, TiledIs DEF Tiling
  <1>3. \A c \in E : Links(g)[c] = g.hdr[c].next
    BY <1>1, BlocksOf DEF Links
  <1>4. Ringed(g, r)
    BY <1>1, <1>3, RingedIs DEF Ring
  <1> QED
    BY <1>1, <1>2, <1>4 DEF InPlace

\* Block c of n cells has been given out of region r, and nothing else has been.
Gives(h, g, r, c, n) ==
    /\ InPlace(g, r)
    /\ \A d \in Cells : d \notin Inside(r) => g.hdr[d] = h.hdr[d]
    /\ c \in Headers(g, r) /\ g.hdr[c].magic = "alloc" /\ g.hdr[c].size = n
    /\ h.hdr[c].magic # "alloc"
    /\ \A d \in Cells \ {c} :
           /\ g.hdr[d].magic = "alloc" <=> h.hdr[d].magic = "alloc"
           /\ h.hdr[d].magic = "alloc" => g.hdr[d].size = h.hdr[d].size

\* What the search has found: the free block p, which follows q in the ring.
Found(h, r, q, p, n) ==
    /\ InPlace(h, r) /\ q \in FreeIn(h, r) /\ p = h.hdr[q].next
    /\ n \in Nat \ {0} /\ n <= h.hdr[p].size

LEMMA FoundIs ==
  ASSUME NEW h, NEW r, NEW q, NEW p, NEW n, Found(h, r, q, p, n)
  PROVE  /\ InPlace(h, r) /\ FreeIn(h, r) \in SUBSET Nat /\ Ring(FreeIn(h, r), Links(h))
         /\ p \in FreeIn(h, r) /\ q \in FreeIn(h, r) /\ p \in Headers(h, r)
         /\ Links(h)[q] = p /\ Links(h)[p] = h.hdr[p].next /\ h.hdr[p].next \in FreeIn(h, r)
         /\ Sizes(h)[p] = h.hdr[p].size /\ h.hdr[p].size \in Nat /\ n \in Nat \ {0}
         /\ n <= h.hdr[p].size
         /\ p \in Cells /\ q \in Cells /\ h.hdr[p].magic = "free" /\ h.hdr[q].magic = "free"
  <1>1. InPlace(h, r) /\ q \in FreeIn(h, r) /\ p = h.hdr[q].next /\ n \in Nat \ {0}
          /\ n <= h.hdr[p].size
    BY DEF Found
  <1>2. /\ FreeIn(h, r) \in SUBSET Nat /\ Ring(FreeIn(h, r), Links(h))
        /\ \A c \in FreeIn(h, r) : c \in Cells /\ Links(h)[c] = h.hdr[c].next
    BY <1>1, RingOf
  <1>3. p \in FreeIn(h, r) /\ Links(h)[q] = p
    BY <1>1, <1>2 DEF Ring
  <1>4. h.hdr[p].next \in FreeIn(h, r)
    BY <1>2, <1>3 DEF Ring
  <1>5. /\ FreeIn(h, r) \subseteq Headers(h, r)
        /\ \A c \in Headers(h, r) : Sizes(h)[c] \in Nat /\ Sizes(h)[c] = h.hdr[c].size
    BY <1>1, Parts DEF Tiling
  <1> QED
    BY <1>1, <1>2, <1>3, <1>4, <1>5 DEF FreeIn

-----------------------------------------------------------------------------
(* The four ways to cut a block.                                           *)

\* The front of p is given out and the rest stays in the ring.
FrontOut(g, h, r, q, p, t, n, R) ==
    /\ Found(h, r, q, p, n) /\ n < h.hdr[p].size /\ t = p + n
    /\ R = [magic |-> "free", size |-> h.hdr[p].size - n,
             next |-> IF q = p THEN t ELSE h.hdr[p].next]
    /\ g.hdr = [h.hdr EXCEPT ![q].next = t, ![t] = R, ![p] = Allocated(n)]
    /\ g.first[r.at] = IF q = p THEN t ELSE q

LEMMA CutFront ==
  ASSUME NEW h, NEW r, NEW q, NEW p, NEW n, NEW g, NEW t, NEW R, FrontOut(g, h, r, q, p, t, n, R)
  PROVE  Gives(h, g, r, p, n)
  <1> USE DEF FrontOut
  <1> DEFINE lo == r.at + 1
             hi == r.at + r.size + 1
             H == Headers(h, r)
             F == FreeIn(h, r)
             sz == Sizes(h)
             nx == Links(h)
             sy == Sizes(g)
             ny == Links(g)
             A == Allocated(n)
             I == H \cup {t}
             E == (F \ {p}) \cup {t}
  <1>1. /\ InPlace(h, r) /\ F \in SUBSET Nat /\ Ring(F, nx) /\ p \in F /\ q \in F /\ p \in H
        /\ nx[q] = p /\ nx[p] = h.hdr[p].next /\ h.hdr[p].next \in F
        /\ sz[p] = h.hdr[p].size /\ h.hdr[p].size \in Nat /\ n \in Nat \ {0}
        /\ p \in Cells /\ q \in Cells /\ h.hdr[p].magic = "free" /\ h.hdr[q].magic = "free"
    BY FoundIs
  <1>2. /\ r \in RegionSet /\ h.hdr \in [Cells -> HeaderSet]
        /\ F \subseteq H /\ Tiling(lo, hi, H, sz) /\ Loose(F, sz)
    BY <1>1, Parts
  <1>3. \A c \in Nat : lo <= c /\ c < hi =>
                /\ c \in Cells /\ c \in Inside(r)
                /\ sz[c] = h.hdr[c].size /\ nx[c] = h.hdr[c].next
                /\ c \in H <=> h.hdr[c].magic # "none"
                /\ c \in F <=> h.hdr[c].magic = "free"
    BY <1>1, Parts
  <1>4. lo \in Nat /\ hi \in Nat /\ \A c \in H : c \in Nat /\ lo <= c /\ c < hi
    BY <1>2 DEF Tiling
  <1>5. t \in Nat /\ lo <= t /\ t < hi /\ p < t /\ t < p + sz[p] /\ t # p
    <2> DEFINE s == sz[p]
    <2>1. s \in Nat /\ n < s /\ n \in Nat \ {0} /\ p \in Nat /\ p + s <= hi /\ lo <= p
      BY <1>1, <1>2, <1>4, TilesEnd
    <2> HIDE DEF s, lo, hi
    <2> QED
      BY <1>4, <2>1 DEF s
  <1> HIDE DEF H, F, sz, nx, lo, hi, A, I, E, sy, ny
  <1>6. t \in Cells /\ t \in Inside(r) /\ p \in Inside(r) /\ q \in Inside(r)
    BY <1>1, <1>2, <1>3, <1>4, <1>5
  <1>7. /\ A \in HeaderSet /\ A.magic = "alloc" /\ A.size = n
        /\ R \in HeaderSet /\ R.magic = "free" /\ R.size = (p + sz[p]) - t
        /\ R.next = IF q = p THEN t ELSE nx[p]
    <2>1. h.hdr[p].next \in Cells
      BY <1>1, <1>2, <1>3, <1>4
    <2>2. h.hdr[p].size - n \in Nat /\ h.hdr[p].size - n = (p + sz[p]) - t
      BY <1>1, <1>5
    <2> QED
      BY <1>1, <1>6, <2>1, <2>2 DEF HeaderSet, A, Allocated, NULL
  <1>8. /\ g.hdr \in [Cells -> HeaderSet] /\ g.hdr[p] = A /\ g.hdr[t] = R
        /\ \A c \in Cells \ {p, t} : /\ g.hdr[c].magic = h.hdr[c].magic
                                     /\ g.hdr[c].size = h.hdr[c].size
                                     /\ g.hdr[c].next = IF c = q THEN t ELSE h.hdr[c].next
        /\ \A c \in Cells \ {p, t, q} : g.hdr[c] = h.hdr[c]
    <2>1. \A c \in Cells : h.hdr[c] \in HeaderSet
      BY <1>2
    <2>2. [h.hdr[q] EXCEPT !.next = t] \in HeaderSet
      BY <2>1, <1>1, <1>6 DEF HeaderSet
    <2>3. g.hdr \in [Cells -> HeaderSet]
      BY <1>1, <1>2, <1>6, <1>7, <2>2 DEF A
    <2>4. p \in Cells /\ q \in Cells /\ t \in Cells /\ p # t /\ h.hdr \in [Cells -> HeaderSet]
      BY <1>1, <1>2, <1>5, <1>6
    <2>5. g.hdr[p] = A /\ g.hdr[t] = R
      BY <2>4 DEF A
    <2>6. \A c \in Cells \ {p, t, q} : g.hdr[c] = h.hdr[c]
      BY <2>4
    <2>7. q \notin {p, t} => g.hdr[q] = [h.hdr[q] EXCEPT !.next = t]
      BY <2>4
    <2>8. [h.hdr[q] EXCEPT !.next = t].magic = h.hdr[q].magic
          /\ [h.hdr[q] EXCEPT !.next = t].size = h.hdr[q].size
          /\ [h.hdr[q] EXCEPT !.next = t].next = t
      BY <2>1, <2>4 DEF HeaderSet
    <2> QED
      BY <2>3, <2>5, <2>6, <2>7, <2>8
  <1>9. /\ \A c \in Cells : sy[c] = g.hdr[c].size /\ ny[c] = g.hdr[c].next
    BY DEF sy, ny, Sizes, Links
  <1>10. Splits(p, t, H, sz, sy)
    <2>1. sy[p] = t - p /\ sy[t] = (p + sz[p]) - t
      BY <1>1, <1>4, <1>5, <1>6, <1>7, <1>8, <1>9, SMTT(60)
    <2>2. \A c \in H \ {p} : c # t => sy[c] = sz[c]
      BY <1>3, <1>4, <1>8, <1>9, SMTT(60)
    <2>3. t \notin H
      <3>1. \A d \in H : d <= p \/ d >= p + sz[p]
        BY <1>1, <1>2 DEF Tiling, Tiles
      <3> QED
        BY <1>1, <1>4, <1>5, <3>1
    <2> QED
      BY <1>1, <1>5, <2>1, <2>2, <2>3 DEF Splits
  <1>11. /\ t \notin H /\ t + sy[t] = p + sz[p] /\ Tiling(lo, hi, I, sy)
         /\ \A d \in H : d <= p \/ d > t
    <2>1. Tiling(lo, hi, H, sz)
      BY <1>2
    <2>2. t \notin H
      BY <1>10, <2>1, TilesSplit
    <2>4. t + sy[t] = p + sz[p]
      <3> DEFINE s == sz[p]
                 u == sy[t]
      <3>1. s \in Nat /\ p \in Nat /\ t \in Nat /\ u = (p + s) - t
        BY <1>1, <1>4, <1>5, <1>10 DEF Splits
      <3> HIDE DEF s, u
      <3>2. t + u = p + s
        BY <3>1
      <3> QED
        BY <3>2 DEF s, u
    <2>5. Tiling(lo, hi, H \cup {t}, sy)
      BY <1>10, <2>1, TilesSplit
    <2>3. \A d \in H : d <= p \/ d > t
      BY <1>10, <2>1, TilesSplit
    <2> QED
      BY <2>2, <2>3, <2>4, <2>5 DEF I
  <1>12. Labels(g, r, I, E)
    BY <1>1, <1>2, <1>3, <1>4, <1>5, <1>7, <1>8, SMTT(60) DEF Labels, I, E, lo, hi
  <1>13. Loose(E, sy)
    <2> SUFFICES ASSUME NEW c \in E PROVE c + sy[c] \notin E
      BY DEF Loose
    <2>1. p + sz[p] \notin F /\ p + sz[p] # t
      BY <1>1, <1>2, <1>5 DEF Loose
    <2>2. CASE c = t
      BY <1>11, <2>1, <2>2 DEF E
    <2>3. CASE c # t
      <3>1. c \in F \ {p} /\ sy[c] = sz[c] /\ c + sz[c] \notin F /\ c + sz[c] \in H \cup {hi}
        BY <1>2, <1>10, <2>3 DEF E, Loose, Tiling, Tiles, Splits
      <3> QED
        BY <1>5, <1>11, <3>1 DEF E
    <2> QED
      BY <2>2, <2>3
  <1>14. Ring(E, ny)
    <2>1. ny[t] = IF q = p THEN t ELSE nx[p]
      BY <1>6, <1>7, <1>8, <1>9, SMTT(60)
    <2>2. \A c \in F \ {p} : ny[c] = IF c = q THEN t ELSE nx[c]
      BY <1>2, <1>3, <1>4, <1>8, <1>9, <1>11, SMTT(60)
    <2>3. Replaces(t, p, q, F, nx, ny)
      BY <1>1, <1>2, <1>5, <1>11, <2>1, <2>2 DEF Replaces
    <2> QED
      BY <2>3, RingInstead DEF E
  <1>15. g.first[r.at] \in E
    BY <1>1 DEF E
  <1>16. InPlace(g, r) /\ Headers(g, r) = I
    <2>1. SpanOf(r) \subseteq Cells
      BY <1>1 DEF InPlace
    <2> QED
      BY <1>2, <1>8, <1>11, <1>12, <1>13, <1>14, <1>15, <2>1, Rebuilt DEF lo, hi, sy, ny
  <1>17. \A d \in Cells : d \notin Inside(r) => g.hdr[d] = h.hdr[d]
    BY <1>6, <1>8
  <1>18. p \in Headers(g, r)
    BY <1>1, <1>16 DEF I
  <1>19. \A d \in Cells \ {p} : /\ g.hdr[d].magic = "alloc" <=> h.hdr[d].magic = "alloc"
                                /\ h.hdr[d].magic = "alloc" => g.hdr[d].size = h.hdr[d].size
    <2>1. h.hdr[t].magic = "none"
      BY <1>3, <1>5, <1>11
    <2> QED
      BY <1>7, <1>8, <2>1
  <1> QED
    BY <1>1, <1>7, <1>8, <1>16, <1>17, <1>18, <1>19 DEF Gives

\* All of p is given out, and it leaves the ring.
WholeOut(g, h, r, q, p, n, m) ==
    /\ Found(h, r, q, p, n) /\ h.hdr[p].size = n /\ m = h.hdr[p].next
    /\ g.hdr = [h.hdr EXCEPT ![q].next = m, ![p] = Allocated(n)] /\ g.first[r.at] = q

LEMMA CutWhole ==
  ASSUME NEW h, NEW r, NEW q, NEW p, NEW n, NEW g, NEW m, WholeOut(g, h, r, q, p, n, m)
  PROVE  Gives(h, g, r, p, n)
  <1> USE DEF WholeOut
  <1> DEFINE lo == r.at + 1
             hi == r.at + r.size + 1
             H == Headers(h, r)
             F == FreeIn(h, r)
             sz == Sizes(h)
             nx == Links(h)
             sy == Sizes(g)
             ny == Links(g)
             A == Allocated(n)
             I == H
             E == F \ {p}
  <1>1. /\ InPlace(h, r) /\ F \in SUBSET Nat /\ Ring(F, nx) /\ p \in F /\ q \in F /\ p \in H
        /\ nx[q] = p /\ nx[p] = h.hdr[p].next /\ h.hdr[p].next \in F
        /\ sz[p] = h.hdr[p].size /\ h.hdr[p].size \in Nat /\ n \in Nat \ {0}
        /\ p \in Cells /\ q \in Cells /\ h.hdr[p].magic = "free" /\ h.hdr[q].magic = "free"
    BY FoundIs
  <1>2. /\ r \in RegionSet /\ h.hdr \in [Cells -> HeaderSet]
        /\ F \subseteq H /\ Tiling(lo, hi, H, sz) /\ Loose(F, sz)
    BY <1>1, Parts
  <1>3. \A c \in Nat : lo <= c /\ c < hi =>
                /\ c \in Cells /\ c \in Inside(r)
                /\ sz[c] = h.hdr[c].size /\ nx[c] = h.hdr[c].next
                /\ c \in H <=> h.hdr[c].magic # "none"
                /\ c \in F <=> h.hdr[c].magic = "free"
    BY <1>1, Parts
  <1>4. lo \in Nat /\ hi \in Nat /\ \A c \in H : c \in Nat /\ lo <= c /\ c < hi
    BY <1>2 DEF Tiling
  <1> HIDE DEF H, F, sz, nx, lo, hi, A, I, E, sy, ny
  <1>6. p \in Inside(r) /\ q \in Inside(r) /\ m \in Cells
    BY <1>1, <1>2, <1>3, <1>4
  <1>7. A \in HeaderSet /\ A.magic = "alloc" /\ A.size = n
    BY <1>1 DEF HeaderSet, A, Allocated, NULL
  <1>8. /\ g.hdr \in [Cells -> HeaderSet] /\ g.hdr[p] = A
        /\ \A c \in Cells \ {p} : /\ g.hdr[c].magic = h.hdr[c].magic
                                  /\ g.hdr[c].size = h.hdr[c].size
                                  /\ g.hdr[c].next = IF c = q THEN m ELSE h.hdr[c].next
        /\ \A c \in Cells \ {p, q} : g.hdr[c] = h.hdr[c]
    <2>1. \A c \in Cells : h.hdr[c] \in HeaderSet
      BY <1>2
    <2>2. [h.hdr[q] EXCEPT !.next = m] \in HeaderSet
      BY <2>1, <1>1, <1>6 DEF HeaderSet
    <2>3. g.hdr \in [Cells -> HeaderSet]
      BY <1>1, <1>2, <1>6, <1>7, <2>2 DEF A
    <2>4. p \in Cells /\ q \in Cells /\ h.hdr \in [Cells -> HeaderSet]
      BY <1>1, <1>2
    <2>5. g.hdr[p] = A
      BY <2>4 DEF A
    <2>6. \A c \in Cells \ {p, q} : g.hdr[c] = h.hdr[c]
      BY <2>4
    <2>7. q # p => g.hdr[q] = [h.hdr[q] EXCEPT !.next = m]
      BY <2>4
    <2>8. [h.hdr[q] EXCEPT !.next = m].magic = h.hdr[q].magic
          /\ [h.hdr[q] EXCEPT !.next = m].size = h.hdr[q].size
          /\ [h.hdr[q] EXCEPT !.next = m].next = m
      BY <2>1, <2>4 DEF HeaderSet
    <2> QED
      BY <2>3, <2>5, <2>6, <2>7, <2>8
  <1>9. \A c \in Cells : sy[c] = g.hdr[c].size /\ ny[c] = g.hdr[c].next
    BY DEF sy, ny, Sizes, Links
  <1>10. \A c \in H : sy[c] = sz[c]
    BY <1>1, <1>3, <1>4, <1>7, <1>8, <1>9
  <1>11. Tiling(lo, hi, I, sy)
    BY <1>2, <1>10 DEF I, Tiling, Tiles
  <1>12. Labels(g, r, I, E)
    BY <1>1, <1>2, <1>3, <1>4, <1>7, <1>8 DEF Labels, I, E, lo, hi
  <1>13. Loose(E, sy)
    BY <1>2, <1>10 DEF E, Loose
  <1>14. E # {} => g.first[r.at] \in E /\ Ring(E, ny)
    <2>1. CASE q = p
      <3>1. F = {p}
        BY <1>1, <2>1 DEF Ring, Gap
      <3> QED
        BY <3>1 DEF E
    <2>2. CASE q # p
      <3>1. \A c \in F \ {p} : ny[c] = IF c = q THEN nx[p] ELSE nx[c]
        BY <1>1, <1>2, <1>3, <1>4, <1>8, <1>9
      <3>2. Leaves(p, q, F, nx, ny)
        BY <1>1, <2>2, <3>1 DEF Leaves
      <3> QED
        BY <1>1, <2>2, <3>2, RingWithout DEF E
    <2> QED
      BY <2>1, <2>2
  <1>15. g.first[r.at] \in I
    BY <1>1, <1>2 DEF I
  <1>16. InPlace(g, r) /\ Headers(g, r) = I
    <2>1. SpanOf(r) \subseteq Cells
      BY <1>1 DEF InPlace
    <2> QED
      BY <1>2, <1>8, <1>11, <1>12, <1>13, <1>14, <1>15, <2>1, Rebuilt DEF lo, hi, sy, ny
  <1>17. \A d \in Cells : d \notin Inside(r) => g.hdr[d] = h.hdr[d]
    BY <1>6, <1>8
  <1>18. p \in Headers(g, r)
    BY <1>1, <1>16 DEF I
  <1> QED
    BY <1>1, <1>7, <1>8, <1>16, <1>17, <1>18 DEF Gives

\* The back of p is given out and the front stays in the ring.
BackOut(g, h, r, q, p, t, e, n) ==
    /\ Found(h, r, q, p, n) /\ e \in Nat /\ e > 0 /\ h.hdr[p].size = n + e /\ t = p + e
    /\ g.hdr = [h.hdr EXCEPT ![p].size = e, ![t] = Allocated(n)] /\ g.first[r.at] = q

LEMMA CutBack ==
  ASSUME NEW h, NEW r, NEW q, NEW p, NEW n, NEW e, NEW g, NEW t, BackOut(g, h, r, q, p, t, e, n)
  PROVE  Gives(h, g, r, t, n)
  <1> USE DEF BackOut
  <1> DEFINE lo == r.at + 1
             hi == r.at + r.size + 1
             H == Headers(h, r)
             F == FreeIn(h, r)
             sz == Sizes(h)
             nx == Links(h)
             sy == Sizes(g)
             ny == Links(g)
             A == Allocated(n)
             I == H \cup {t}
             E == F
  <1>1. /\ InPlace(h, r) /\ F \in SUBSET Nat /\ Ring(F, nx) /\ p \in F /\ q \in F /\ p \in H
        /\ nx[q] = p /\ nx[p] = h.hdr[p].next /\ h.hdr[p].next \in F
        /\ sz[p] = h.hdr[p].size /\ h.hdr[p].size \in Nat /\ n \in Nat \ {0}
        /\ p \in Cells /\ q \in Cells /\ h.hdr[p].magic = "free" /\ h.hdr[q].magic = "free"
    BY FoundIs
  <1>2. /\ r \in RegionSet /\ h.hdr \in [Cells -> HeaderSet]
        /\ F \subseteq H /\ Tiling(lo, hi, H, sz) /\ Loose(F, sz)
    BY <1>1, Parts
  <1>3. \A c \in Nat : lo <= c /\ c < hi =>
                /\ c \in Cells /\ c \in Inside(r)
                /\ sz[c] = h.hdr[c].size /\ nx[c] = h.hdr[c].next
                /\ c \in H <=> h.hdr[c].magic # "none"
                /\ c \in F <=> h.hdr[c].magic = "free"
    BY <1>1, Parts
  <1>4. lo \in Nat /\ hi \in Nat /\ \A c \in H : c \in Nat /\ lo <= c /\ c < hi
    BY <1>2 DEF Tiling
  <1>5. t \in Nat /\ lo <= t /\ t < hi /\ p < t /\ t < p + sz[p] /\ t # p /\ (p + sz[p]) - t = n
    <2> DEFINE s == sz[p]
    <2>1. s \in Nat /\ s = n + e /\ n \in Nat \ {0} /\ p \in Nat /\ p + s <= hi /\ lo <= p
      BY <1>1, <1>2, <1>4, TilesEnd
    <2> HIDE DEF s, lo, hi
    <2> QED
      BY <1>4, <2>1 DEF s
  <1> HIDE DEF H, F, sz, nx, lo, hi, A, I, E, sy, ny
  <1>6. t \in Cells /\ t \in Inside(r) /\ p \in Inside(r)
    BY <1>1, <1>2, <1>3, <1>4, <1>5
  <1>7. A \in HeaderSet /\ A.magic = "alloc" /\ A.size = n
    BY <1>1 DEF HeaderSet, A, Allocated, NULL
  <1>8. /\ g.hdr \in [Cells -> HeaderSet] /\ g.hdr[t] = A /\ g.hdr[p].size = e
        /\ \A c \in Cells \ {t} : /\ g.hdr[c].magic = h.hdr[c].magic
                                  /\ c # p => g.hdr[c].size = h.hdr[c].size
                                  /\ g.hdr[c].next = h.hdr[c].next
        /\ \A c \in Cells \ {p, t} : g.hdr[c] = h.hdr[c]
    <2>1. \A c \in Cells : h.hdr[c] \in HeaderSet
      BY <1>2
    <2>2. [h.hdr[p] EXCEPT !.size = e] \in HeaderSet
      BY <2>1, <1>1 DEF HeaderSet
    <2>4. p \in Cells /\ t \in Cells /\ p # t /\ h.hdr \in [Cells -> HeaderSet]
      BY <1>1, <1>2, <1>5, <1>6
    <2>3. g.hdr \in [Cells -> HeaderSet]
      BY <2>4, <1>7, <2>2 DEF A
    <2>5. g.hdr[t] = A /\ g.hdr[p] = [h.hdr[p] EXCEPT !.size = e]
      BY <2>4 DEF A
    <2>6. \A c \in Cells \ {p, t} : g.hdr[c] = h.hdr[c]
      BY <2>4
    <2>8. [h.hdr[p] EXCEPT !.size = e].magic = h.hdr[p].magic
          /\ [h.hdr[p] EXCEPT !.size = e].size = e
          /\ [h.hdr[p] EXCEPT !.size = e].next = h.hdr[p].next
      BY <2>1, <2>4 DEF HeaderSet
    <2> QED
      BY <2>3, <2>5, <2>6, <2>8
  <1>9. \A c \in Cells : sy[c] = g.hdr[c].size /\ ny[c] = g.hdr[c].next
    BY DEF sy, ny, Sizes, Links
  <1>10. Splits(p, t, H, sz, sy)
    <2>1. sy[p] = t - p /\ sy[t] = (p + sz[p]) - t
      BY <1>1, <1>4, <1>5, <1>6, <1>7, <1>8, <1>9
    <2>2. \A c \in H \ {p} : c # t => sy[c] = sz[c]
      BY <1>3, <1>4, <1>8, <1>9
    <2>3. t \notin H
      <3>1. \A d \in H : d <= p \/ d >= p + sz[p]
        BY <1>1, <1>2 DEF Tiling, Tiles
      <3> QED
        BY <1>1, <1>4, <1>5, <3>1
    <2> QED
      BY <1>1, <1>5, <2>1, <2>2, <2>3 DEF Splits
  <1>11. t \notin H /\ Tiling(lo, hi, I, sy)
    <2>1. Tiling(lo, hi, H, sz)
      BY <1>2
    <2>2. t \notin H
      BY <1>10, <2>1, TilesSplit
    <2>3. Tiling(lo, hi, H \cup {t}, sy)
      BY <1>10, <2>1, TilesSplit
    <2> QED
      BY <2>2, <2>3 DEF I
  <1>12. Labels(g, r, I, E)
    BY <1>1, <1>2, <1>3, <1>4, <1>5, <1>7, <1>8, <1>11 DEF Labels, I, E, lo, hi
  <1>13. Loose(E, sy)
    <2> SUFFICES ASSUME NEW c \in F PROVE c + sy[c] \notin F
      BY DEF Loose, E
    <2>1. CASE c = p
      BY <1>1, <1>2, <1>4, <1>5, <1>10, <1>11, <2>1 DEF Splits
    <2>2. CASE c # p
      BY <1>2, <1>10, <2>2 DEF Loose, Splits
    <2> QED
      BY <2>1, <2>2
  <1>14. Ring(E, ny)
    <2>1. \A c \in F : ny[c] = nx[c]
      BY <1>2, <1>3, <1>4, <1>8, <1>9, <1>11
    <2> QED
      BY <1>1, <2>1 DEF E, Ring
  <1>15. g.first[r.at] \in E
    BY <1>1 DEF E
  <1>16. InPlace(g, r) /\ Headers(g, r) = I
    <2>1. SpanOf(r) \subseteq Cells
      BY <1>1 DEF InPlace
    <2> QED
      BY <1>2, <1>8, <1>11, <1>12, <1>13, <1>14, <1>15, <2>1, Rebuilt DEF lo, hi, sy, ny
  <1>17. \A d \in Cells : d \notin Inside(r) => g.hdr[d] = h.hdr[d]
    BY <1>6, <1>8
  <1>18. t \in Headers(g, r)
    BY <1>16 DEF I
  <1>19. h.hdr[t].magic = "none"
    BY <1>3, <1>5, <1>11
  <1> QED
    BY <1>1, <1>5, <1>7, <1>8, <1>16, <1>17, <1>18, <1>19 DEF Gives

\* The middle of p is given out; what is behind it joins the ring.
MiddleHdr(g, h, q, p, t, v, e, n, R) ==
    g.hdr = [h.hdr EXCEPT ![q].next = v, ![v] = R, ![p].size = e, ![t] = Allocated(n)]

MiddleOut(g, h, r, q, p, t, v, e, n, R) ==
    /\ Found(h, r, q, p, n) /\ e \in Nat /\ e > 0 /\ n + e < h.hdr[p].size
    /\ t = p + e /\ v = p + e + n
    /\ R = [magic |-> "free", size |-> h.hdr[p].size - e - n, next |-> p]
    /\ MiddleHdr(g, h, q, p, t, v, e, n, R) /\ g.first[r.at] = q

LEMMA CutMiddle ==
  ASSUME NEW h, NEW r, NEW q, NEW p, NEW n, NEW e, NEW g, NEW t, NEW v, NEW R,
         MiddleOut(g, h, r, q, p, t, v, e, n, R)
  PROVE  Gives(h, g, r, t, n)
  <1> USE DEF MiddleOut
  <1> DEFINE lo == r.at + 1
             hi == r.at + r.size + 1
             H == Headers(h, r)
             F == FreeIn(h, r)
             sz == Sizes(h)
             nx == Links(h)
             sy == Sizes(g)
             ny == Links(g)
             A == Allocated(n)
             I == (H \cup {t}) \cup {v}
             E == F \cup {v}
  <1>1. /\ InPlace(h, r) /\ F \in SUBSET Nat /\ Ring(F, nx) /\ p \in F /\ q \in F /\ p \in H
        /\ nx[q] = p /\ nx[p] = h.hdr[p].next /\ h.hdr[p].next \in F
        /\ sz[p] = h.hdr[p].size /\ h.hdr[p].size \in Nat /\ n \in Nat \ {0}
        /\ p \in Cells /\ q \in Cells /\ h.hdr[p].magic = "free" /\ h.hdr[q].magic = "free"
    BY FoundIs
  <1>2. /\ r \in RegionSet /\ h.hdr \in [Cells -> HeaderSet]
        /\ F \subseteq H /\ Tiling(lo, hi, H, sz) /\ Loose(F, sz)
    BY <1>1, Parts
  <1>3. \A c \in Nat : lo <= c /\ c < hi =>
                /\ c \in Cells /\ c \in Inside(r)
                /\ sz[c] = h.hdr[c].size /\ nx[c] = h.hdr[c].next
                /\ c \in H <=> h.hdr[c].magic # "none"
                /\ c \in F <=> h.hdr[c].magic = "free"
    BY <1>1, Parts
  <1>4. lo \in Nat /\ hi \in Nat /\ \A c \in H : c \in Nat /\ lo <= c /\ c < hi
    BY <1>2 DEF Tiling
  <1>5. /\ t \in Nat /\ v \in Nat /\ p < t /\ t < v /\ v < p + sz[p] /\ lo <= t /\ v < hi
        /\ v - t = n /\ (p + sz[p]) - v = h.hdr[p].size - e - n /\ t - p = e
        /\ h.hdr[p].size - e - n \in Nat
    <2> DEFINE s == sz[p]
    <2>1. s \in Nat /\ n + e < s /\ n \in Nat \ {0} /\ p \in Nat /\ p + s <= hi /\ lo <= p
      BY <1>1, <1>2, <1>4, TilesEnd
    <2>2. h.hdr[p].size = s
      BY <1>1
    <2> HIDE DEF s, lo, hi
    <2> QED
      BY <1>4, <2>1, <2>2 DEF s
  <1> HIDE DEF H, F, sz, nx, lo, hi, A, I, E, sy, ny
  <1>6. /\ t \in Cells /\ t \in Inside(r) /\ p \in Inside(r) /\ q \in Inside(r)
        /\ v \in Cells /\ v \in Inside(r) /\ t # p /\ v # p /\ v # t
    <2>1. p \in Nat /\ lo \in Nat /\ hi \in Nat
      BY <1>1, <1>4
    <2>2. t # p /\ v # p /\ v # t
      BY <1>5, <2>1
    <2>3. lo <= v /\ t < hi
      BY <1>5, <2>1
    <2> QED
      BY <1>1, <1>2, <1>3, <1>4, <1>5, <2>2, <2>3
  <1>7. /\ A \in HeaderSet /\ A.magic = "alloc" /\ A.size = n
        /\ R \in HeaderSet /\ R.magic = "free" /\ R.size = (p + sz[p]) - v /\ R.next = p
    BY <1>1, <1>5, <1>6 DEF HeaderSet, A, Allocated, NULL
  <1>8. g.hdr \in [Cells -> HeaderSet] /\ g.hdr[t] = A /\ g.hdr[v] = R /\ g.hdr[p].size = e
        /\ (\A c \in Cells \ {t, v} : g.hdr[c].magic = h.hdr[c].magic)
        /\ (\A c \in Cells \ {p, t, v} : g.hdr[c].size = h.hdr[c].size)
        /\ (\A c \in Cells \ {t, v} : g.hdr[c].next = IF c = q THEN v ELSE h.hdr[c].next)
        /\ (\A c \in Cells \ {p, q, t, v} : g.hdr[c] = h.hdr[c])
    <2> DEFINE k == [h.hdr EXCEPT ![q].next = v]
               o == k[p]
               x == [h.hdr[q] EXCEPT !.next = v]
               y == [o EXCEPT !.size = e]
    <2>1. \A c \in Cells : h.hdr[c] \in HeaderSet
      BY <1>2
    <2>2. /\ p \in Cells /\ q \in Cells /\ t \in Cells /\ v \in Cells
          /\ p # t /\ v # p /\ v # t /\ h.hdr \in [Cells -> HeaderSet]
      BY <1>1, <1>2, <1>5, <1>6
    <2>3. x \in HeaderSet /\ x.magic = h.hdr[q].magic /\ x.size = h.hdr[q].size /\ x.next = v
      BY <2>1, <2>2 DEF HeaderSet
    <2>4. k = [h.hdr EXCEPT ![q] = x]
      BY <2>2
    <2>5. g.hdr = [k EXCEPT ![v] = R, ![p].size = e, ![t] = A]
      BY DEF A, MiddleHdr
    <2> HIDE DEF k, x
    <2>6. k \in [Cells -> HeaderSet] /\ k[q] = x /\ \A c \in Cells \ {q} : k[c] = h.hdr[c]
      BY <2>2, <2>3, <2>4
    <2>7. \A c \in Cells : k[c].magic = h.hdr[c].magic
      BY <2>3, <2>6
    <2>8. \A c \in Cells : k[c].size = h.hdr[c].size
      BY <2>3, <2>6
    <2>9. \A c \in Cells : k[c].next = IF c = q THEN v ELSE h.hdr[c].next
      BY <2>3, <2>6
    <2>10. o \in HeaderSet
      BY <2>2, <2>6
    <2> HIDE DEF o
    <2>11. y \in HeaderSet /\ y.magic = o.magic /\ y.size = e /\ y.next = o.next
      BY <2>10 DEF HeaderSet
    <2>12. g.hdr = [k EXCEPT ![v] = R, ![p] = y, ![t] = A]
      BY <2>2, <2>5, <2>6 DEF o
    <2> HIDE DEF y
    <2>13. g.hdr \in [Cells -> HeaderSet] /\ g.hdr[t] = A /\ g.hdr[v] = R /\ g.hdr[p] = y
      BY <1>7, <2>2, <2>6, <2>11, <2>12
    <2>14. \A c \in Cells \ {p, t, v} : g.hdr[c] = k[c]
      BY <2>2, <2>6, <2>12
    <2>15. o = k[p]
      BY DEF o
    <2>16. \A c \in Cells \ {t, v} : g.hdr[c].magic = h.hdr[c].magic
      BY <2>7, <2>11, <2>13, <2>14, <2>15
    <2>17. \A c \in Cells \ {p, t, v} : g.hdr[c].size = h.hdr[c].size
      BY <2>8, <2>14
    <2>18. \A c \in Cells \ {t, v} : g.hdr[c].next = IF c = q THEN v ELSE h.hdr[c].next
      BY <2>9, <2>11, <2>13, <2>14, <2>15
    <2>19. \A c \in Cells \ {p, q, t, v} : g.hdr[c] = h.hdr[c]
      BY <2>6, <2>14
    <2> QED
      BY <2>11, <2>13, <2>16, <2>17, <2>18, <2>19
  <1>9. \A c \in Cells : sy[c] = g.hdr[c].size /\ ny[c] = g.hdr[c].next
    BY DEF sy, ny, Sizes, Links
  <1> DEFINE J == H \cup {t}
             s1 == [c \in Cells |-> IF c = p THEN e ELSE IF c = t THEN (p + sz[p]) - t ELSE sz[c]]
  <1>10. Splits(p, t, H, sz, s1) /\ Splits(t, v, J, s1, sy) /\ t \notin H /\ v \notin H
    <2>1. \A d \in H : d <= p \/ d >= p + sz[p]
      BY <1>1, <1>2 DEF Tiling, Tiles
    <2>2. t \notin H /\ v \notin H /\ p \in Nat /\ sz[p] \in Nat
      BY <1>1, <1>4, <1>5, <2>1
    <2>3. \A c \in H : c \in Cells
      BY <1>3, <1>4
    <2>4. s1[p] = e /\ s1[t] = (p + sz[p]) - t /\ \A c \in H \ {p} : s1[c] = sz[c]
      BY <1>1, <1>6, <2>2, <2>3
    <2>5. sy[p] = e /\ sy[t] = n /\ sy[v] = (p + sz[p]) - v /\ \A c \in H \ {p} : sy[c] = sz[c]
      BY <1>1, <1>3, <1>4, <1>6, <1>7, <1>8, <1>9, <2>2
    <2>6. \A c \in J \ {t} : sy[c] = s1[c]
      BY <2>4, <2>5
    <2> HIDE DEF s1
    <2>7. Splits(p, t, H, sz, s1)
      BY <1>1, <1>5, <2>2, <2>4 DEF Splits
    <2>8. t + s1[t] = p + sz[p]
      <3> DEFINE s == sz[p]
      <3>1. s \in Nat /\ p \in Nat /\ t \in Nat /\ s1[t] = (p + s) - t
        BY <1>5, <2>2, <2>4
      <3> HIDE DEF s
      <3>2. t + s1[t] = p + s
        BY <3>1
      <3> QED
        BY <3>2 DEF s
    <2>9. Splits(t, v, J, s1, sy)
      BY <1>1, <1>5, <2>2, <2>5, <2>6, <2>8 DEF Splits
    <2> QED
      BY <2>2, <2>7, <2>9
  <1> HIDE DEF s1
  <1>11. Tiling(lo, hi, I, sy)
    <2>1. Tiling(lo, hi, H, sz) /\ Splits(p, t, H, sz, s1)
      BY <1>2, <1>10
    <2>2. Tiling(lo, hi, H \cup {t}, s1)
      BY <2>1, TilesSplit
    <2>3. Tiling(lo, hi, J, s1) /\ Splits(t, v, J, s1, sy)
      BY <2>2, <1>10
    <2> HIDE DEF J
    <2>4. Tiling(lo, hi, J \cup {v}, sy)
      BY <2>3, TilesSplit
    <2> QED
      BY <2>4 DEF I, J
  <1>12. Labels(g, r, I, E)
    <2>1. lo <= v /\ t < hi
      BY <1>1, <1>4, <1>5
    <2>2. E \subseteq I
      BY <1>2 DEF E, I
    <2>3. \A c \in I : c \in Nat /\ lo <= c /\ c < hi
      BY <1>4, <1>5, <2>1 DEF I
    <2>4. ASSUME NEW c \in Nat, lo <= c, c < hi
          PROVE  (c \in I <=> g.hdr[c].magic # "none") /\ (c \in E <=> g.hdr[c].magic = "free")
      <3>1. CASE c = t
        BY <1>2, <1>7, <1>8, <1>10, <1>6, <3>1 DEF I, E
      <3>2. CASE c = v
        BY <1>7, <1>8, <3>2 DEF I, E
      <3>3. CASE c # t /\ c # v
        BY <1>3, <1>8, <2>4, <3>3 DEF I, E
      <3> QED
        BY <3>1, <3>2, <3>3
    <2> QED
      BY <2>2, <2>3, <2>4 DEF Labels, lo, hi
  <1>13. Loose(E, sy)
    <2> SUFFICES ASSUME NEW c \in E PROVE c + sy[c] \notin E
      BY DEF Loose
    <2>1. p + sz[p] \notin F /\ p + sz[p] # v
      BY <1>1, <1>2, <1>5 DEF Loose
    <2>2. CASE c = v
      <3>1. sy[v] = (p + sz[p]) - v
        BY <1>6, <1>7, <1>8, <1>9
      <3> DEFINE s == sz[p]
                 u == sy[v]
      <3>2. s \in Nat /\ p \in Nat /\ v \in Nat /\ u = (p + s) - v
        BY <1>1, <1>5, <3>1
      <3>3. v + u = p + s
        <4> HIDE DEF s, u
        <4> QED
          BY <3>2
      <3> QED
        BY <2>1, <2>2, <3>3 DEF E
    <2>3. CASE c = p
      <3>1. p \in Nat /\ p + sy[p] = t
        BY <1>1, <1>5, <1>8, <1>9
      <3> QED
        BY <1>2, <1>6, <1>10, <2>3, <3>1 DEF E
    <2>4. CASE c # v /\ c # p
      <3>1. c \in F \ {p} /\ c \in H /\ c # t
        BY <1>2, <1>10, <2>4 DEF E
      <3>2. c + sz[c] \notin F /\ c + sz[c] \in H \cup {hi}
        BY <1>2, <3>1 DEF Loose, Tiling, Tiles
      <3>3. sy[c] = sz[c]
        BY <1>3, <1>4, <1>8, <1>9, <3>1, <2>4
      <3>4. v # hi
        BY <1>4, <1>5
      <3> QED
        BY <1>10, <3>2, <3>3, <3>4 DEF E
    <2> QED
      BY <2>2, <2>3, <2>4
  <1>14. Ring(E, ny)
    <2>1. ny[q] = v /\ ny[v] = nx[q] /\ \A c \in F \ {q} : ny[c] = nx[c]
      BY <1>1, <1>2, <1>3, <1>4, <1>6, <1>7, <1>8, <1>9, <1>10
    <2>2. Amid(q, nx[q], v)
      <3>1. q \in Nat /\ p \in Nat /\ (q <= p \/ q >= p + sz[p]) /\ sz[p] \in Nat
        BY <1>1, <1>2 DEF Tiling, Tiles
      <3>2. Amid(q, p, v)
        BY <1>5, <3>1 DEF Amid
      <3> QED
        BY <1>1, <3>2
    <2>3. v \in Nat \ F
      BY <1>2, <1>5, <1>10
    <2>4. Joins(v, q, F, nx, ny)
      BY <1>1, <2>1, <2>2, <2>3 DEF Joins
    <2> QED
      BY <2>4, RingWith DEF E
  <1>15. g.first[r.at] \in E
    BY <1>1 DEF E
  <1>16. InPlace(g, r) /\ Headers(g, r) = I
    <2>1. SpanOf(r) \subseteq Cells
      BY <1>1 DEF InPlace
    <2> QED
      BY <1>2, <1>8, <1>11, <1>12, <1>13, <1>14, <1>15, <2>1, Rebuilt DEF lo, hi, sy, ny
  <1>17. \A d \in Cells : d \notin Inside(r) => g.hdr[d] = h.hdr[d]
    BY <1>6, <1>8
  <1>18. t \in Headers(g, r)
    BY <1>16 DEF I
  <1>19. h.hdr[t].magic = "none" /\ h.hdr[v].magic = "none"
    <2>1. lo <= v /\ t < hi
      BY <1>1, <1>4, <1>5
    <2> QED
      BY <1>3, <1>5, <1>10, <2>1
  <1> QED
    BY <1>1, <1>7, <1>8, <1>16, <1>17, <1>18, <1>19 DEF Gives

-----------------------------------------------------------------------------
(* Cut as a whole.                                                         *)

\* Of the marks r->first, only the one of the region at at has moved.
Touches(h, g, at) ==
    /\ g = [regions |-> h.regions, first |-> g.first, hdr |-> g.hdr]
    /\ g.first \in [Starts(h) -> Cells]
    /\ \A a \in Starts(h) \ {at} : g.first[a] = h.first[a]

Marked(g, h, hdr, at, first) == g = [h EXCEPT !.hdr = hdr, !.first[at] = first]

LEMMA MarkedIs ==
  ASSUME NEW h, Shaped(h), NEW at \in Starts(h), NEW hdr, NEW first \in Cells, NEW g,
         Marked(g, h, hdr, at, first)
  PROVE  g.hdr = hdr /\ g.first[at] = first /\ Touches(h, g, at)
  <1>1. h = [regions |-> h.regions, first |-> h.first, hdr |-> h.hdr]
        /\ h.first \in [Starts(h) -> Cells]
    BY DEF Shaped
  <1>2. g = [regions |-> h.regions, first |-> [h.first EXCEPT ![at] = first], hdr |-> hdr]
    BY <1>1 DEF Marked
  <1>3. g.hdr = hdr /\ g.regions = h.regions /\ g.first = [h.first EXCEPT ![at] = first]
    BY <1>2
  <1> QED
    BY <1>1, <1>2, <1>3 DEF Touches

\* n cells have been given out of region r, aligned.
Given(h, new, r, n, align) ==
    /\ new = [heap |-> new.heap, ptr |-> new.ptr]
    /\ new.ptr \in Nat /\ new.ptr - 1 \in Cells /\ new.ptr - 1 \in Inside(r)
    /\ Gives(h, new.heap, r, new.ptr - 1, n) /\ Touches(h, new.heap, r.at)
    /\ new.ptr % align = 0

LEMMA GivenIs ==
  ASSUME NEW h, NEW r, NEW n, NEW align, NEW g, NEW c, Gives(h, g, r, c, n),
         Touches(h, g, r.at), c \in Nat, (c + 1) % align = 0
  PROVE  Given(h, [heap |-> g, ptr |-> c + 1], r, n, align)
  <1> DEFINE new == [heap |-> g, ptr |-> c + 1]
  <1>1. new.heap = g /\ new.ptr = c + 1 /\ new.ptr - 1 = c /\ new.ptr \in Nat
    OBVIOUS
  <1>2. r \in RegionSet /\ SpanOf(r) \subseteq Cells /\ c \in Headers(g, r)
    BY DEF Gives, InPlace
  <1>3. c \in Inside(r) /\ c \in Cells
    BY <1>2, BlocksOf
  <1> HIDE DEF new
  <1> QED
    BY <1>1, <1>3 DEF Given, new

\* What fits is given out, wherever in the block it has to be.
LEMMA CutGives ==
  ASSUME NEW h, Shaped(h), NEW r, InPlace(h, r), r.at \in Starts(h),
         NEW q \in FreeIn(h, r), NEW n \in Nat \ {0}, NEW align \in Nat \ {0},
         Fits(h, h.hdr[q].next, n, align)
  PROVE  Given(h, Cut(h, r.at, q, n, align), r, n, align)
  <1> DEFINE p == h.hdr[q].next
             size == h.hdr[p].size
             E == Extra(p, align)
             spare == size - E - n
             e == E + spare - (spare % align)
  <1>1. FreeIn(h, r) # {} /\ p \in Cells /\ p \in Nat /\ q \in Cells /\ size \in Nat
    <2>1. /\ FreeIn(h, r) \in SUBSET Nat /\ Ring(FreeIn(h, r), Links(h))
          /\ \A c \in FreeIn(h, r) : c \in Cells /\ Links(h)[c] = h.hdr[c].next
      BY RingOf
    <2>2. p \in FreeIn(h, r)
      BY <2>1 DEF Ring
    <2>3. \A c \in Cells : h.hdr[c] \in HeaderSet
      BY DEF InPlace
    <2> QED
      BY <2>1, <2>2, <2>3 DEF HeaderSet
  <1>2. E \in Nat /\ size >= n + E
    BY <1>1, ExtraIs DEF Fits
  <1>3. spare \in Nat /\ n <= size /\ E + spare = size - n
    <2> HIDE DEF size, E
    <2> QED
      BY <1>1, <1>2
  <1>4. e \in Nat /\ e <= E + spare /\ (p + 1 + e) % align = 0
    <2> HIDE DEF p, spare
    <2> QED
      BY <1>1, <1>3, SpareAligned
  <1>5. Found(h, r, q, p, n)
    BY <1>3 DEF Found
  <1> DEFINE A == Allocated(n)
             Rest(next) == [magic |-> "free", size |-> size - e - n, next |-> next]
             At(hdr, first) == [h EXCEPT !.hdr = hdr, !.first[r.at] = first]
             hdr1 == [h.hdr EXCEPT ![q].next = h.hdr[p].next, ![p] = A]
             hdr2 == [h.hdr EXCEPT ![p].size = e, ![p + e] = A]
             next == IF q = p THEN p + n ELSE h.hdr[p].next
             hdr3 == [h.hdr EXCEPT ![q].next = p + n, ![p + n] = Rest(next), ![p] = A]
             hdr4 == [h.hdr EXCEPT ![q].next = p + e + n, ![p + e + n] = Rest(p),
                                   ![p].size = e, ![p + e] = A]
             to == Cut(h, r.at, q, n, align)
  <1>6. to = IF size = n THEN [heap |-> At(hdr1, q), ptr |-> p + 1]
             ELSE IF size = n + e THEN [heap |-> At(hdr2, q), ptr |-> p + e + 1]
             ELSE IF e = 0 THEN [heap |-> At(hdr3, IF q = p THEN p + n ELSE q), ptr |-> p + 1]
             ELSE [heap |-> At(hdr4, q), ptr |-> p + e + 1]
    BY DEF Cut
  <1> HIDE DEF to, p, size, E, spare, e
  <1>7. CASE size = n
    <2> DEFINE g == At(hdr1, q)
    <2>1. Marked(g, h, hdr1, r.at, q)
      BY DEF Marked
    <2> HIDE DEF hdr1, g
    <2>2. g.hdr = hdr1 /\ g.first[r.at] = q /\ Touches(h, g, r.at)
      BY <1>1, <2>1, MarkedIs
    <2>3. WholeOut(g, h, r, q, p, n, h.hdr[p].next)
      BY <1>5, <1>7, <2>2 DEF WholeOut, hdr1, size
    <2>4. Gives(h, g, r, p, n)
      BY <2>3, CutWhole
    <2>5. (p + 1) % align = 0
      <3>1. E = 0
        BY <1>1, <1>2, <1>7
      <3>2. PICK k \in Nat : p + 1 + E = align * k
        BY <1>1, ExtraIs DEF E
      <3>3. p + 1 = align * k
        BY <1>1, <3>1, <3>2
      <3> QED
        BY <3>3, Multiple
    <2>6. to = [heap |-> g, ptr |-> p + 1]
      BY <1>6, <1>7 DEF g
    <2> QED
      BY <1>1, <2>2, <2>4, <2>5, <2>6, GivenIs DEF to
  <1>8. CASE size # n /\ size = n + e
    <2> DEFINE g == At(hdr2, q)
               t == p + e
    <2>1. Marked(g, h, hdr2, r.at, q)
      BY DEF Marked
    <2> HIDE DEF hdr2, g
    <2>2. g.hdr = hdr2 /\ g.first[r.at] = q /\ Touches(h, g, r.at)
      BY <1>1, <2>1, MarkedIs
    <2>3. e > 0
      BY <1>4, <1>8
    <2>4. BackOut(g, h, r, q, p, t, e, n)
      BY <1>4, <1>5, <1>8, <2>2, <2>3 DEF BackOut, hdr2, size
    <2>5. t \in Nat /\ t + 1 = p + 1 + e
      BY <1>1, <1>4
    <2>6. to = [heap |-> g, ptr |-> t + 1]
      BY <1>6, <1>8, <2>3 DEF g
    <2> HIDE DEF t
    <2>7. Gives(h, g, r, t, n)
      BY <2>4, CutBack
    <2> QED
      BY <1>4, <2>2, <2>5, <2>6, <2>7, GivenIs DEF to
  <1>9. CASE size # n /\ size # n + e /\ e = 0
    <2> DEFINE f == IF q = p THEN p + n ELSE q
               g == At(hdr3, f)
               t == p + n
               R == Rest(next)
    <2>1. n < size
      BY <1>1, <1>3, <1>9
    <2>2. R = [magic |-> "free", size |-> size - n, next |-> IF q = p THEN t ELSE h.hdr[p].next]
      BY <1>1, <1>9
    <2>3. f \in Cells
      <3>1. CASE q # p
        BY <1>1, <3>1
      <3>2. CASE q = p
        <4>1. /\ p \in Headers(h, r) /\ r \in RegionSet
              /\ Tiling(r.at + 1, r.at + r.size + 1, Headers(h, r), Sizes(h))
              /\ Sizes(h)[p] = size
          BY <1>5, FoundIs, Parts DEF size
        <4>2. p + size <= r.at + r.size + 1
          BY <4>1, TilesEnd
        <4>3. p + n \in Nat /\ r.at + 1 <= p /\ p + n < r.at + r.size + 1 /\ r.at + 1 <= p + n
          <5>1. r.at \in Nat /\ r.size \in Nat
            BY <4>1 DEF RegionSet
          <5>2. r.at + 1 <= p
            BY <4>1 DEF Tiling
          <5> QED
            BY <1>1, <2>1, <4>2, <5>1, <5>2
        <4>4. p + n \in Cells
          BY <4>3, Parts
        <4> QED
          BY <3>2, <4>4
      <3> QED
        BY <3>1, <3>2
    <2>4. Marked(g, h, hdr3, r.at, f)
      BY DEF Marked
    <2>5. hdr3 = [h.hdr EXCEPT ![q].next = t, ![t] = R, ![p] = Allocated(n)]
      OBVIOUS
    <2>6. to = [heap |-> g, ptr |-> p + 1]
      BY <1>6, <1>9
    <2> HIDE DEF hdr3, g, R
    <2>7. g.hdr = hdr3 /\ g.first[r.at] = f /\ Touches(h, g, r.at)
      BY <2>3, <2>4, MarkedIs
    <2>8. FrontOut(g, h, r, q, p, t, n, R)
      BY <1>5, <2>1, <2>2, <2>5, <2>7 DEF FrontOut, size
    <2> HIDE DEF t
    <2>9. Gives(h, g, r, p, n)
      BY <2>8, CutFront
    <2>10. (p + 1) % align = 0
      <3>1. p + 1 + e = p + 1
        BY <1>1, <1>9
      <3> QED
        BY <1>4, <3>1
    <2> QED
      BY <1>1, <2>6, <2>7, <2>9, <2>10, GivenIs DEF to
  <1>10. CASE size # n /\ size # n + e /\ e # 0
    <2> DEFINE g == At(hdr4, q)
               t == p + e
               v == p + e + n
               R == Rest(p)
    <2>1. Marked(g, h, hdr4, r.at, q)
      BY DEF Marked
    <2>2. hdr4 = [h.hdr EXCEPT ![q].next = v, ![v] = R, ![p].size = e, ![t] = Allocated(n)]
      OBVIOUS
    <2>3. to = [heap |-> g, ptr |-> t + 1]
      BY <1>6, <1>10
    <2> HIDE DEF hdr4, g
    <2>4. g.hdr = hdr4 /\ g.first[r.at] = q /\ Touches(h, g, r.at)
      BY <1>1, <2>1, MarkedIs
    <2>5. e > 0 /\ n + e < size
      <3>1. E + spare = size - n /\ e <= E + spare
        BY <1>3, <1>4
      <3>2. e <= size - n
        BY <3>1
      <3> QED
        BY <1>1, <1>4, <1>10, <3>2
    <2>6. MiddleHdr(g, h, q, p, t, v, e, n, R)
      BY <2>2, <2>4 DEF MiddleHdr
    <2>7. R = [magic |-> "free", size |-> h.hdr[p].size - e - n, next |-> p]
      BY DEF size
    <2>8. MiddleOut(g, h, r, q, p, t, v, e, n, R)
      <3> HIDE DEF R
      <3> QED
        BY <1>4, <1>5, <2>4, <2>5, <2>6, <2>7 DEF MiddleOut, size
    <2>9. t \in Nat /\ t + 1 = p + 1 + e
      BY <1>1, <1>4
    <2> HIDE DEF t, v, R
    <2>10. Gives(h, g, r, t, n)
      BY <2>8, CutMiddle
    <2> QED
      BY <1>4, <2>3, <2>4, <2>9, <2>10, GivenIs DEF to
  <1> QED
    BY <1>7, <1>8, <1>9, <1>10

-----------------------------------------------------------------------------
(* Block p goes back to the ring, behind q.                                *)

Freed(lo, hi, H, F, sz, nx, p, q) ==
    /\ Tiling(lo, hi, H, sz) /\ F \subseteq H /\ Loose(F, sz)
    /\ F \in SUBSET Nat /\ Ring(F, nx) /\ q \in F /\ p \in H \ F /\ Amid(q, nx[q], p)

\* A free block that p touches from below is q.
LEMMA FreedAbove ==
  ASSUME NEW lo, NEW hi, NEW H, NEW F, NEW sz, NEW nx, NEW p, NEW q,
         Freed(lo, hi, H, F, sz, nx, p, q), p + sz[p] \in F
  PROVE  p + sz[p] = q
  <1> DEFINE x == p + sz[p]
             n == nx[q]
  <1>1. n \in F /\ Gap(F, q, n) /\ Amid(q, n, p) /\ q \in F /\ F \in SUBSET Nat
    BY DEF Freed, Ring
  <1>2. p \in Nat /\ x \in F /\ x > p /\ \A d \in F : d <= p \/ d >= x
    BY DEF Freed, Tiling, Tiles
  <1> HIDE DEF x, n
  <1>3. x = q
    BY <1>1, <1>2 DEF Gap, Amid
  <1> QED
    BY <1>3 DEF x

\* The one that touches p from below follows q.
LEMMA FreedBelow ==
  ASSUME NEW lo, NEW hi, NEW H, NEW F, NEW sz, NEW nx, NEW p, NEW q,
         Freed(lo, hi, H, F, sz, nx, p, q), NEW c \in F, c + sz[c] = p
  PROVE  c = nx[q]
  <1> DEFINE n == nx[q]
  <1>1. n \in F /\ Gap(F, q, n) /\ Amid(q, n, p) /\ q \in F /\ F \in SUBSET Nat
    BY DEF Freed, Ring
  <1>2. p \in Nat /\ p > c /\ \A d \in F : d <= c \/ d >= p
    BY DEF Freed, Tiling, Tiles
  <1> HIDE DEF n
  <1>3. c = n
    BY <1>1, <1>2 DEF Gap, Amid
  <1> QED
    BY <1>3 DEF n

\* The state after Linked: only the block at may touch a free one, and then q.
Half(lo, hi, I, E, sz, nx, at, q) ==
    /\ Tiling(lo, hi, I, sz) /\ E \subseteq I /\ E \in SUBSET Nat /\ Ring(E, nx)
    /\ q \in E /\ at \in E /\ nx[q] = at
    /\ \A c \in E : c + sz[c] \in E => c = at /\ c + sz[c] = q

Lower(lo, hi, H, F, sz, nx, p, q, low, sy) ==
    /\ Freed(lo, hi, H, F, sz, nx, p, q) /\ low = nx[q] /\ low + sz[low] = p
    /\ sy[low] = sz[low] + sz[p] /\ \A c \in H \ {low, p} : sy[c] = sz[c]

\* p joins the block below it.
LEMMA HalfLower ==
  ASSUME NEW lo, NEW hi, NEW H, NEW F, NEW sz, NEW nx, NEW p, NEW q, NEW low, NEW sy,
         Lower(lo, hi, H, F, sz, nx, p, q, low, sy)
  PROVE  Half(lo, hi, H \ {p}, F, sy, nx, low, q)
  <1>0. Freed(lo, hi, H, F, sz, nx, p, q) /\ low = nx[q] /\ low + sz[low] = p
          /\ sy[low] = sz[low] + sz[p] /\ \A c \in H \ {low, p} : sy[c] = sz[c]
    BY DEF Lower
  <1>1. /\ Tiling(lo, hi, H, sz) /\ F \subseteq H /\ Loose(F, sz) /\ F \in SUBSET Nat
        /\ Ring(F, nx) /\ q \in F /\ p \in H \ F
    BY <1>0 DEF Freed
  <1>2. low \in F
    BY <1>0, <1>1 DEF Ring
  <1>3. Merges(low, p, H, sz, sy)
    BY <1>0, <1>1, <1>2 DEF Merges
  <1>4. Tiling(lo, hi, H \ {p}, sy)
    BY <1>1, <1>3, TilesJoin
  <1>5. low + sy[low] = p + sz[p]
    <2> DEFINE a == sz[low]
               b == sz[p]
    <2>1. low \in Nat /\ a \in Nat /\ b \in Nat /\ low + a = p /\ sy[low] = a + b
      BY <1>0, <1>1, <1>2 DEF Tiling
    <2> HIDE DEF a, b
    <2>2. low + (a + b) = p + b
      BY <2>1
    <2> QED
      BY <2>1, <2>2 DEF b
  <1>6. ASSUME NEW c \in F, c + sy[c] \in F PROVE c = low /\ c + sy[c] = q
    <2>1. CASE c = low
      BY <1>0, <1>5, <1>6, <2>1, FreedAbove
    <2>2. CASE c # low
      BY <1>0, <1>1, <1>6, <2>2 DEF Loose
    <2> QED
      BY <2>1, <2>2
  <1> QED
    BY <1>0, <1>1, <1>2, <1>4, <1>6 DEF Half

Alone(lo, hi, H, F, sz, nx, p, q, ny) ==
    /\ Freed(lo, hi, H, F, sz, nx, p, q) /\ nx[q] + sz[nx[q]] # p
    /\ ny[p] = nx[q] /\ ny[q] = p /\ \A c \in F \ {q} : ny[c] = nx[c]

\* p does not touch the block below it.
LEMMA HalfAlone ==
  ASSUME NEW lo, NEW hi, NEW H, NEW F, NEW sz, NEW nx, NEW p, NEW q, NEW ny,
         Alone(lo, hi, H, F, sz, nx, p, q, ny)
  PROVE  Half(lo, hi, H, F \cup {p}, sz, ny, p, q)
  <1>0. Freed(lo, hi, H, F, sz, nx, p, q) /\ nx[q] + sz[nx[q]] # p
          /\ ny[p] = nx[q] /\ ny[q] = p /\ \A c \in F \ {q} : ny[c] = nx[c]
    BY DEF Alone
  <1>1. /\ Tiling(lo, hi, H, sz) /\ F \subseteq H /\ Loose(F, sz) /\ F \in SUBSET Nat
        /\ Ring(F, nx) /\ q \in F /\ p \in H \ F /\ Amid(q, nx[q], p)
    BY <1>0 DEF Freed
  <1>2. p \in Nat \ F
    BY <1>1 DEF Tiling
  <1>3. Joins(p, q, F, nx, ny)
    BY <1>0, <1>1, <1>2 DEF Joins
  <1>4. Ring(F \cup {p}, ny)
    BY <1>3, RingWith
  <1>5. ASSUME NEW c \in F \cup {p}, c + sz[c] \in F \cup {p}
        PROVE  c = p /\ c + sz[c] = q
    <2>1. CASE c = p
      <3>1. p + sz[p] # p
        BY <1>1, <1>2, TilesEnd DEF Tiling, Tiles
      <3> QED
        BY <1>0, <1>5, <2>1, <3>1, FreedAbove
    <2>2. CASE c # p
      <3>1. c \in F /\ c + sz[c] = p
        BY <1>1, <1>5, <2>2 DEF Loose
      <3> QED
        BY <1>0, <3>1, FreedBelow
    <2> QED
      BY <2>1, <2>2
  <1> QED
    BY <1>0, <1>1, <1>2, <1>4, <1>5 DEF Half

Upper(lo, hi, I, E, sz, nx, at, q, last, sy, ny) ==
    /\ Half(lo, hi, I, E, sz, nx, at, q) /\ q = at + sz[at]
    /\ last \in E /\ last # q /\ nx[last] = q
    /\ sy[at] = sz[at] + sz[q] /\ \A c \in I \ {at, q} : sy[c] = sz[c]
    /\ ny[last] = at /\ \A c \in E \ {last, q} : ny[c] = nx[c]

\* The block joins q, and q leaves the ring.
LEMMA WholeUpper ==
  ASSUME NEW lo, NEW hi, NEW I, NEW E, NEW sz, NEW nx, NEW at, NEW q, NEW last, NEW sy,
         NEW ny, Upper(lo, hi, I, E, sz, nx, at, q, last, sy, ny)
  PROVE  /\ Tiling(lo, hi, I \ {q}, sy) /\ Loose(E \ {q}, sy) /\ Ring(E \ {q}, ny)
         /\ at # q
  <1>0. /\ Half(lo, hi, I, E, sz, nx, at, q) /\ q = at + sz[at]
        /\ last \in E /\ last # q /\ nx[last] = q
        /\ sy[at] = sz[at] + sz[q] /\ \A c \in I \ {at, q} : sy[c] = sz[c]
        /\ ny[last] = at /\ \A c \in E \ {last, q} : ny[c] = nx[c]
    BY DEF Upper
  <1>1. /\ Tiling(lo, hi, I, sz) /\ E \subseteq I /\ E \in SUBSET Nat /\ Ring(E, nx)
        /\ q \in E /\ at \in E /\ nx[q] = at
        /\ \A c \in E : c + sz[c] \in E => c = at /\ c + sz[c] = q
    BY <1>0 DEF Half
  <1>2. Merges(at, q, I, sz, sy)
    BY <1>0, <1>1 DEF Merges
  <1>3. Tiling(lo, hi, I \ {q}, sy)
    BY <1>1, <1>2, TilesJoin
  <1>4. at + sy[at] = q + sz[q]
    <2> DEFINE a == sz[at]
               b == sz[q]
    <2>1. at \in Nat /\ a \in Nat /\ b \in Nat /\ at + a = q /\ sy[at] = a + b
      BY <1>0, <1>1 DEF Tiling
    <2> HIDE DEF a, b
    <2>2. at + (a + b) = q + b
      BY <2>1
    <2> QED
      BY <2>1, <2>2 DEF b
  <1>5. at # q
    <2>1. at < q
      BY <1>1, <1>2, TilesJoin
    <2> QED
      BY <1>1, <2>1
  <1>6. Leaves(q, last, E, nx, ny)
    <2>1. \A c \in E \ {q} : ny[c] = IF c = last THEN nx[q] ELSE nx[c]
      BY <1>0, <1>1
    <2> QED
      BY <1>0, <1>1, <2>1 DEF Leaves
  <1>7. Ring(E \ {q}, ny)
    BY <1>6, RingWithout
  <1>8. ASSUME NEW c \in E \ {q}, c + sy[c] \in E PROVE FALSE
    <2>1. CASE c = at
      BY <1>1, <1>4, <1>5, <1>8, <2>1
    <2>2. CASE c # at
      BY <1>0, <1>1, <1>8, <2>2
    <2> QED
      BY <2>1, <2>2
  <1>9. Loose(E \ {q}, sy)
    BY <1>8 DEF Loose
  <1> QED
    BY <1>3, <1>5, <1>7, <1>9

-----------------------------------------------------------------------------
(* grub_free.                                                              *)

SizeSet(f, g, c, x) == g = [f EXCEPT ![c].size = x]
NextSet(f, g, c, x) == g = [f EXCEPT ![c].next = x]
MagicSet(f, g, c, x) == g = [f EXCEPT ![c].magic = x]

LEMMA SizeSetIs ==
  ASSUME NEW f \in [Cells -> HeaderSet], NEW c \in Cells, NEW x \in Nat, NEW g,
         SizeSet(f, g, c, x)
  PROVE  /\ g \in [Cells -> HeaderSet] /\ \A d \in Cells \ {c} : g[d] = f[d]
         /\ g[c].size = x /\ g[c].magic = f[c].magic /\ g[c].next = f[c].next
  <1> DEFINE y == [f[c] EXCEPT !.size = x]
  <1>1. f[c] \in HeaderSet
    OBVIOUS
  <1>2. y \in HeaderSet /\ y.size = x /\ y.magic = f[c].magic /\ y.next = f[c].next
    BY <1>1 DEF HeaderSet
  <1>3. g = [f EXCEPT ![c] = y]
    BY DEF SizeSet
  <1> HIDE DEF y
  <1> QED
    BY <1>2, <1>3

LEMMA NextSetIs ==
  ASSUME NEW f \in [Cells -> HeaderSet], NEW c \in Cells, NEW x \in Cells, NEW g,
         NextSet(f, g, c, x)
  PROVE  /\ g \in [Cells -> HeaderSet] /\ \A d \in Cells \ {c} : g[d] = f[d]
         /\ g[c].size = f[c].size /\ g[c].magic = f[c].magic /\ g[c].next = x
  <1> DEFINE y == [f[c] EXCEPT !.next = x]
  <1>1. f[c] \in HeaderSet
    OBVIOUS
  <1>2. y \in HeaderSet /\ y.size = f[c].size /\ y.magic = f[c].magic /\ y.next = x
    BY <1>1 DEF HeaderSet
  <1>3. g = [f EXCEPT ![c] = y]
    BY DEF NextSet
  <1> HIDE DEF y
  <1> QED
    BY <1>2, <1>3

LEMMA MagicSetIs ==
  ASSUME NEW f \in [Cells -> HeaderSet], NEW c \in Cells, NEW g,
         MagicSet(f, g, c, "free")
  PROVE  /\ g \in [Cells -> HeaderSet] /\ \A d \in Cells \ {c} : g[d] = f[d]
         /\ g[c].size = f[c].size /\ g[c].magic = "free" /\ g[c].next = f[c].next
  <1> DEFINE y == [f[c] EXCEPT !.magic = "free"]
  <1>1. f[c] \in HeaderSet
    OBVIOUS
  <1>2. y \in HeaderSet /\ y.size = f[c].size /\ y.magic = "free" /\ y.next = f[c].next
    BY <1>1 DEF HeaderSet
  <1>3. g = [f EXCEPT ![c] = y]
    BY DEF MagicSet
  <1> HIDE DEF y
  <1> QED
    BY <1>2, <1>3

\* Block c, and no other, is no longer allocated; other regions are untouched.
Keeps(h, g, r, c) ==
    /\ \A d \in Cells : d \notin Inside(r) => g.hdr[d] = h.hdr[d]
    /\ h.hdr[c].magic = "alloc" /\ g.hdr[c].magic # "alloc"
    /\ \A d \in Cells \ {c} :
           /\ g.hdr[d].magic = "alloc" <=> h.hdr[d].magic = "alloc"
           /\ h.hdr[d].magic = "alloc" => g.hdr[d].size = h.hdr[d].size

Takes(h, g, r, c) == InPlace(g, r) /\ Keeps(h, g, r, c)

Halfway(h, l, r, p, q, I, E) ==
    /\ InPlace(h, r) /\ q \in FreeIn(h, r) /\ p \in Cells /\ Keeps(h, l, r, p)
    /\ l.hdr \in [Cells -> HeaderSet]
    /\ Half(r.at + 1, r.at + r.size + 1, I, E, Sizes(l), Links(l), l.at, q)
    /\ Labels(l, r, I, E)

\* s is the block before q in the ring.
Behind(h, r, p, q, s) ==
    /\ InPlace(h, r) /\ s \in FreeIn(h, r) /\ h.hdr[s].next = q /\ Between(h, q, p)
    /\ p \in Headers(h, r) /\ h.hdr[p].magic = "alloc"

LEMMA BehindIs ==
  ASSUME NEW h, NEW r, NEW p, NEW q, NEW s, Behind(h, r, p, q, s)
  PROVE  /\ Freed(r.at + 1, r.at + r.size + 1, Headers(h, r), FreeIn(h, r), Sizes(h),
                  Links(h), p, q)
         /\ s \in FreeIn(h, r) /\ Links(h)[s] = q /\ Links(h)[q] = h.hdr[q].next
         /\ h.hdr[q].next \in FreeIn(h, r)
         /\ \A c \in Headers(h, r) :
                /\ c \in Cells /\ c \in Inside(r) /\ c \in Nat
                /\ r.at + 1 <= c /\ c < r.at + r.size + 1 /\ h.hdr[c].size \in Nat
                /\ Sizes(h)[c] = h.hdr[c].size /\ Links(h)[c] = h.hdr[c].next
                /\ c \in FreeIn(h, r) <=> h.hdr[c].magic = "free"
  <1> USE DEF Behind
  <1>1. /\ FreeIn(h, r) \in SUBSET Nat /\ Ring(FreeIn(h, r), Links(h))
        /\ \A c \in FreeIn(h, r) : c \in Cells /\ Links(h)[c] = h.hdr[c].next
    BY RingOf
  <1>2. q \in FreeIn(h, r) /\ Links(h)[s] = q
    BY <1>1 DEF Ring
  <1>3. h.hdr[q].next \in FreeIn(h, r)
    BY <1>1, <1>2 DEF Ring
  <1>4. /\ r \in RegionSet /\ h.hdr \in [Cells -> HeaderSet]
        /\ FreeIn(h, r) \subseteq Headers(h, r)
        /\ Tiling(r.at + 1, r.at + r.size + 1, Headers(h, r), Sizes(h))
        /\ Loose(FreeIn(h, r), Sizes(h))
        /\ \A c \in Nat : r.at + 1 <= c /\ c < r.at + r.size + 1 =>
                /\ c \in Cells /\ c \in Inside(r)
                /\ Sizes(h)[c] = h.hdr[c].size /\ Links(h)[c] = h.hdr[c].next
                /\ c \in Headers(h, r) <=> h.hdr[c].magic # "none"
                /\ c \in FreeIn(h, r) <=> h.hdr[c].magic = "free"
    BY Parts
  <1>5. \A c \in Headers(h, r) : c \in Nat /\ r.at + 1 <= c /\ c < r.at + r.size + 1
                                  /\ Sizes(h)[c] \in Nat
    BY <1>4 DEF Tiling
  <1>6. p \notin FreeIn(h, r)
    BY <1>4, <1>5
  <1>7. Amid(q, Links(h)[q], p)
    BY <1>1, <1>2 DEF Amid, Between
  <1>8. Freed(r.at + 1, r.at + r.size + 1, Headers(h, r), FreeIn(h, r), Sizes(h), Links(h), p, q)
    BY <1>1, <1>2, <1>4, <1>6, <1>7 DEF Freed
  <1> QED
    BY <1>1, <1>2, <1>3, <1>4, <1>5, <1>8

\* Where the removal of q from the ring finds the block before q.
LastIs(l, q, s, E) ==
    q = l.at + l.hdr[l.at].size =>
        LET last == IF q = s THEN l.at ELSE s IN
        last \in E /\ last # q /\ Links(l)[last] = q

LEMMA LinkedLower ==
  ASSUME NEW h, NEW r, NEW p, NEW q, NEW s, Behind(h, r, p, q, s), NEW low,
         low = h.hdr[q].next, low + h.hdr[low].size = p
  PROVE  LET l == Linked(h, q, p) IN
         /\ l.at = low
         /\ Halfway(h, l, r, p, q, Headers(h, r) \ {p}, FreeIn(h, r))
         /\ LastIs(l, q, s, FreeIn(h, r))
  <1> DEFINE lo == r.at + 1
             hi == r.at + r.size + 1
             H == Headers(h, r)
             F == FreeIn(h, r)
             sz == Sizes(h)
             nx == Links(h)
             l == Linked(h, q, p)
             sy == Sizes(l)
             ny == Links(l)
             x == h.hdr[low].size + h.hdr[p].size
             k == [h.hdr EXCEPT ![low].size = x]
             I == H \ {p}
  <1>1. /\ Freed(lo, hi, H, F, sz, nx, p, q) /\ s \in F /\ nx[s] = q /\ nx[q] = low /\ low \in F
        /\ \A c \in H : /\ c \in Cells /\ c \in Inside(r) /\ c \in Nat
                        /\ lo <= c /\ c < hi /\ h.hdr[c].size \in Nat
                        /\ sz[c] = h.hdr[c].size /\ nx[c] = h.hdr[c].next
                        /\ c \in F <=> h.hdr[c].magic = "free"
    BY BehindIs
  <1>2. /\ Tiling(lo, hi, H, sz) /\ F \subseteq H /\ q \in F /\ p \in H \ F /\ Ring(F, nx)
        /\ F \in SUBSET Nat
    BY <1>1 DEF Freed
  <1>3. InPlace(h, r) /\ h.hdr \in [Cells -> HeaderSet] /\ h.hdr[p].magic = "alloc"
    BY DEF Behind, InPlace
  <1>4. l.at = low /\ l.hdr = [k EXCEPT ![p] = NoHeader]
    BY DEF Linked
  <1>5. SizeSet(h.hdr, k, low, x)
    BY DEF SizeSet
  <1> HIDE DEF H, F, sz, nx, lo, hi, l, sy, ny, k, I
  <1>6. low \in Cells /\ p \in Cells /\ x \in Nat /\ low # p /\ p \in Inside(r) /\ low \in Inside(r)
    BY <1>1, <1>2
  <1>7. /\ k \in [Cells -> HeaderSet] /\ \A d \in Cells \ {low} : k[d] = h.hdr[d]
        /\ k[low].size = x /\ k[low].magic = h.hdr[low].magic /\ k[low].next = h.hdr[low].next
    BY <1>3, <1>5, <1>6, SizeSetIs, SMTT(60)
  <1>8. NoHeader \in HeaderSet /\ NoHeader.magic = "none"
    BY DEF NoHeader, HeaderSet
  <1>9. /\ l.hdr \in [Cells -> HeaderSet] /\ l.hdr[p] = NoHeader
        /\ \A d \in Cells \ {p} : l.hdr[d] = k[d]
    BY <1>4, <1>6, <1>7, <1>8
  <1>10. /\ \A c \in Cells : sy[c] = l.hdr[c].size /\ ny[c] = l.hdr[c].next
    BY DEF sy, ny, Sizes, Links
  <1>11. Lower(lo, hi, H, F, sz, nx, p, q, low, sy)
    <2>1. sy[low] = sz[low] + sz[p]
      BY <1>1, <1>2, <1>6, <1>7, <1>9, <1>10, SMTT(60)
    <2>2. \A c \in H \ {low, p} : sy[c] = sz[c]
      BY <1>1, <1>7, <1>9, <1>10
    <2> QED
      BY <1>1, <1>2, <2>1, <2>2 DEF Lower
  <1>12. Half(lo, hi, I, F, sy, nx, low, q)
    BY <1>11, HalfLower DEF I
  <1>13. \A c \in F : ny[c] = nx[c] /\ ny[c] = h.hdr[c].next
    BY <1>1, <1>2, <1>6, <1>7, <1>9, <1>10, SMTT(60)
  <1>14. Half(lo, hi, I, F, sy, ny, low, q)
    <2>1. Ring(F, ny)
      BY <1>2, <1>13 DEF Ring
    <2>2. ny[q] = low
      BY <1>1, <1>2, <1>13
    <2> QED
      BY <1>12, <2>1, <2>2 DEF Half
  <1>15. \A d \in Cells \ {p} : l.hdr[d].magic = h.hdr[d].magic
    BY <1>6, <1>7, <1>9
  <1>16. Labels(l, r, I, F)
    <2>1. F \subseteq I
      BY <1>2 DEF I
    <2>2. \A c \in I : c \in Nat /\ lo <= c /\ c < hi
      BY <1>1 DEF I
    <2>3. ASSUME NEW c \in Nat, lo <= c, c < hi
          PROVE  (c \in I <=> l.hdr[c].magic # "none") /\ (c \in F <=> l.hdr[c].magic = "free")
      <3>1. /\ c \in Cells
            /\ c \in H <=> h.hdr[c].magic # "none"
            /\ c \in F <=> h.hdr[c].magic = "free"
        BY <1>3, <2>3, Parts DEF lo, hi, H, F
      <3>2. CASE c = p
        BY <1>2, <1>8, <1>9, <3>2 DEF I
      <3>3. CASE c # p
        BY <1>15, <3>1, <3>3 DEF I
      <3> QED
        BY <3>2, <3>3
    <2> QED
      BY <2>1, <2>2, <2>3 DEF Labels, lo, hi
  <1>17. Keeps(h, l, r, p)
    <2>1. \A d \in Cells : d \notin Inside(r) => l.hdr[d] = h.hdr[d]
      BY <1>6, <1>7, <1>9
    <2>2. l.hdr[p].magic # "alloc"
      BY <1>8, <1>9
    <2>3. h.hdr[low].magic = "free"
      BY <1>1, <1>2
    <2>4. \A d \in Cells \ {p} : h.hdr[d].magic = "alloc" => l.hdr[d].size = h.hdr[d].size
      BY <1>7, <1>9, <2>3
    <2> QED
      BY <1>3, <1>15, <2>1, <2>2, <2>4 DEF Keeps
  <1>18. Halfway(h, l, r, p, q, I, F)
    BY <1>2, <1>3, <1>4, <1>6, <1>9, <1>14, <1>16, <1>17 DEF Halfway, lo, hi, sy, ny, F
  <1>19. LastIs(l, q, s, F)
    <2>1. SUFFICES ASSUME q = low + sy[low] PROVE s \in F /\ s # q /\ ny[s] = q
      BY <1>4, <1>6, <1>10 DEF LastIs, ny
    <2>2. sy[low] = x /\ low \in Nat /\ h.hdr[p].size \in Nat /\ h.hdr[low].size \in Nat
      BY <1>1, <1>2, <1>6, <1>7, <1>9, <1>10, SMTT(60)
    <2>3. h.hdr[low].size > 0
      <3>1. sz[low] > 0 /\ sz[low] = h.hdr[low].size
        BY <1>1, <1>2, TilesEnd
      <3> QED
        BY <3>1
    <2>4. q # low
      <3> DEFINE a == h.hdr[low].size
                 b == h.hdr[p].size
      <3>1. q = low + (a + b) /\ low \in Nat /\ a \in Nat /\ b \in Nat /\ a > 0
        BY <2>1, <2>2, <2>3
      <3> HIDE DEF a, b
      <3> QED
        BY <3>1
    <2>5. s # q
      BY <1>1, <2>4
    <2> QED
      BY <1>1, <1>13, <2>5
  <1> QED
    BY <1>4, <1>18, <1>19 DEF l, I, H, F

LEMMA LinkedAlone ==
  ASSUME NEW h, NEW r, NEW p, NEW q, NEW s, Behind(h, r, p, q, s), NEW low,
         low = h.hdr[q].next, low + h.hdr[low].size # p
  PROVE  LET l == Linked(h, q, p) IN
         /\ l.at = p
         /\ Halfway(h, l, r, p, q, Headers(h, r), FreeIn(h, r) \cup {p})
         /\ LastIs(l, q, s, FreeIn(h, r) \cup {p})
  <1> DEFINE lo == r.at + 1
             hi == r.at + r.size + 1
             H == Headers(h, r)
             F == FreeIn(h, r)
             sz == Sizes(h)
             nx == Links(h)
             l == Linked(h, q, p)
             sy == Sizes(l)
             ny == Links(l)
             k1 == [h.hdr EXCEPT ![p].magic = "free"]
             k2 == [k1 EXCEPT ![p].next = low]
             E == F \cup {p}
  <1>1. /\ Freed(lo, hi, H, F, sz, nx, p, q) /\ s \in F /\ nx[s] = q /\ nx[q] = low /\ low \in F
        /\ \A c \in H : /\ c \in Cells /\ c \in Inside(r) /\ c \in Nat
                        /\ lo <= c /\ c < hi /\ h.hdr[c].size \in Nat
                        /\ sz[c] = h.hdr[c].size /\ nx[c] = h.hdr[c].next
                        /\ c \in F <=> h.hdr[c].magic = "free"
    BY BehindIs
  <1>2. /\ Tiling(lo, hi, H, sz) /\ F \subseteq H /\ q \in F /\ p \in H \ F /\ Ring(F, nx)
        /\ F \in SUBSET Nat
    BY <1>1 DEF Freed
  <1>3. InPlace(h, r) /\ h.hdr \in [Cells -> HeaderSet] /\ h.hdr[p].magic = "alloc"
    BY DEF Behind, InPlace
  <1>4. l.at = p /\ l.hdr = [k2 EXCEPT ![q].next = p]
    BY DEF Linked
  <1>5. MagicSet(h.hdr, k1, p, "free") /\ NextSet(k1, k2, p, low) /\ NextSet(k2, l.hdr, q, p)
    BY <1>4 DEF MagicSet, NextSet
  <1> HIDE DEF H, F, sz, nx, lo, hi, l, sy, ny, k1, k2, E
  <1>6. /\ low \in Cells /\ p \in Cells /\ q \in Cells /\ q # p
        /\ p \in Inside(r) /\ q \in Inside(r)
    BY <1>1, <1>2
  <1>7. /\ k1 \in [Cells -> HeaderSet] /\ \A d \in Cells \ {p} : k1[d] = h.hdr[d]
        /\ k1[p].size = h.hdr[p].size /\ k1[p].magic = "free"
    BY <1>3, <1>5, <1>6, MagicSetIs
  <1>8. /\ k2 \in [Cells -> HeaderSet] /\ \A d \in Cells \ {p} : k2[d] = k1[d]
        /\ k2[p].size = k1[p].size /\ k2[p].magic = k1[p].magic /\ k2[p].next = low
    BY <1>5, <1>6, <1>7, NextSetIs
  <1>9. /\ l.hdr \in [Cells -> HeaderSet] /\ \A d \in Cells \ {q} : l.hdr[d] = k2[d]
        /\ l.hdr[q].size = k2[q].size /\ l.hdr[q].magic = k2[q].magic /\ l.hdr[q].next = p
    BY <1>5, <1>6, <1>8, NextSetIs
  <1>10. \A c \in Cells : sy[c] = l.hdr[c].size /\ ny[c] = l.hdr[c].next
    BY DEF sy, ny, Sizes, Links
  <1>11. /\ l.hdr[p].magic = "free" /\ l.hdr[p].next = low
         /\ \A d \in Cells \ {p} : l.hdr[d].magic = h.hdr[d].magic
         /\ \A d \in Cells : l.hdr[d].size = h.hdr[d].size
         /\ \A d \in Cells \ {p, q} : l.hdr[d] = h.hdr[d]
    BY <1>6, <1>7, <1>8, <1>9
  <1>12. \A c \in H : sy[c] = sz[c]
    BY <1>1, <1>10, <1>11
  <1>13. Alone(lo, hi, H, F, sz, nx, p, q, ny)
    <2>1. nx[q] + sz[nx[q]] # p
      BY <1>1, <1>2
    <2>2. ny[p] = nx[q] /\ ny[q] = p
      BY <1>1, <1>6, <1>9, <1>10, <1>11
    <2>3. \A c \in F \ {q} : ny[c] = nx[c]
      BY <1>1, <1>2, <1>10, <1>11
    <2> QED
      BY <1>1, <2>1, <2>2, <2>3 DEF Alone
  <1>14. Half(lo, hi, H, E, sz, ny, p, q)
    BY <1>13, HalfAlone DEF E
  <1>15. Half(lo, hi, H, E, sy, ny, p, q)
    <2>1. Tiling(lo, hi, H, sy)
      BY <1>12, <1>14 DEF Half, Tiling, Tiles
    <2>2. \A c \in E : c + sy[c] \in E => c = p /\ c + sy[c] = q
      BY <1>12, <1>14 DEF Half
    <2> QED
      BY <1>14, <2>1, <2>2 DEF Half
  <1>16. Labels(l, r, H, E)
    <2>1. E \subseteq H
      BY <1>2 DEF E
    <2>2. \A c \in H : c \in Nat /\ lo <= c /\ c < hi
      BY <1>1
    <2>3. ASSUME NEW c \in Nat, lo <= c, c < hi
          PROVE  (c \in H <=> l.hdr[c].magic # "none") /\ (c \in E <=> l.hdr[c].magic = "free")
      <3>1. /\ c \in Cells
            /\ c \in H <=> h.hdr[c].magic # "none"
            /\ c \in F <=> h.hdr[c].magic = "free"
        BY <1>3, <2>3, Parts DEF lo, hi, H, F
      <3>2. CASE c = p
        BY <1>2, <1>11, <3>2 DEF E
      <3>3. CASE c # p
        BY <1>11, <3>1, <3>3 DEF E
      <3> QED
        BY <3>2, <3>3
    <2> QED
      BY <2>1, <2>2, <2>3 DEF Labels, lo, hi
  <1>17. Keeps(h, l, r, p)
    <2>1. \A d \in Cells : d \notin Inside(r) => l.hdr[d] = h.hdr[d]
      BY <1>6, <1>11
    <2> QED
      BY <1>3, <1>11, <2>1 DEF Keeps
  <1>18. Halfway(h, l, r, p, q, H, E)
    BY <1>2, <1>3, <1>4, <1>6, <1>9, <1>15, <1>16, <1>17 DEF Halfway, lo, hi, sy, ny, F
  <1>19. LastIs(l, q, s, E)
    <2>1. CASE q = s
      <3>1. ny[p] = q
        BY <1>1, <1>6, <1>10, <1>11, <2>1
      <3> QED
        BY <1>4, <1>6, <2>1, <3>1 DEF LastIs, ny, E
    <2>2. CASE q # s
      <3>1. ny[s] = q /\ s \in E
        BY <1>1, <1>2, <1>10, <1>11, <2>2 DEF E
      <3> QED
        BY <2>2, <3>1 DEF LastIs, ny
    <2> QED
      BY <2>1, <2>2
  <1> QED
    BY <1>4, <1>18, <1>19 DEF l, H, F, E

\* The block that is freed touches the one above it.
JoinsUpper(h, g, l, q, last, first) ==
    /\ q = l.at + l.hdr[l.at].size
    /\ g.hdr = [l.hdr EXCEPT ![l.at].size = @ + l.hdr[q].size, ![q] = NoHeader,
                             ![last].next = l.at]
    /\ first = last

LEMMA FreedUpper ==
  ASSUME NEW h, NEW l, NEW r, NEW p, NEW q, NEW I, NEW E, Halfway(h, l, r, p, q, I, E),
         NEW g, NEW last, JoinsUpper(h, g, l, q, last, g.first[r.at]),
         last \in E, last # q, Links(l)[last] = q
  PROVE  Takes(h, g, r, p)
  <1> DEFINE lo == r.at + 1
             hi == r.at + r.size + 1
             at == l.at
             sz == Sizes(l)
             nx == Links(l)
             sy == Sizes(g)
             ny == Links(g)
             x == l.hdr[at].size + l.hdr[q].size
             k1 == [l.hdr EXCEPT ![at].size = x]
             k2 == [k1 EXCEPT ![q] = NoHeader]
             J == I \ {q}
             D == E \ {q}
  <1>1. /\ InPlace(h, r) /\ q \in FreeIn(h, r) /\ p \in Cells /\ Keeps(h, l, r, p)
        /\ l.hdr \in [Cells -> HeaderSet]
        /\ Half(lo, hi, I, E, sz, nx, at, q) /\ Labels(l, r, I, E)
    BY DEF Halfway
  <1>2. /\ Tiling(lo, hi, I, sz) /\ E \subseteq I /\ E \in SUBSET Nat /\ Ring(E, nx)
        /\ q \in E /\ at \in E /\ nx[q] = at
    BY <1>1 DEF Half
  <1>3. r \in RegionSet /\ SpanOf(r) \subseteq Cells
    BY <1>1 DEF InPlace
  <1>4. \A c \in Nat : lo <= c /\ c < hi =>
           c \in Cells /\ c \in Inside(r)
    BY <1>1, Parts
  <1>5. /\ \A c \in I : c \in Nat /\ lo <= c /\ c < hi
        /\ \A c \in Nat : lo <= c /\ c < hi =>
             (c \in I <=> l.hdr[c].magic # "none") /\ (c \in E <=> l.hdr[c].magic = "free")
    BY <1>1 DEF Labels
  <1>6. q = at + l.hdr[at].size /\ g.first[r.at] = last
          /\ g.hdr = [k2 EXCEPT ![last].next = at]
    BY DEF JoinsUpper
  <1>7. SizeSet(l.hdr, k1, at, x) /\ NextSet(k2, g.hdr, last, at)
    BY <1>6 DEF SizeSet, NextSet
  <1>8. k2 = [k1 EXCEPT ![q] = NoHeader]
    OBVIOUS
  <1> HIDE DEF lo, hi, sz, nx, sy, ny, k1, k2, J, D
  <1>9. /\ at \in Cells /\ q \in Cells /\ last \in Cells /\ at \in Inside(r) /\ q \in Inside(r)
        /\ last \in Inside(r)
    BY <1>2, <1>4, <1>5
  <1>10. \A c \in Cells : l.hdr[c] \in HeaderSet /\ l.hdr[c].size \in Nat
    BY <1>1 DEF HeaderSet
  <1>11. x \in Nat
    BY <1>9, <1>10
  <1> HIDE DEF x
  <1>12. /\ k1 \in [Cells -> HeaderSet] /\ \A d \in Cells \ {at} : k1[d] = l.hdr[d]
         /\ k1[at].size = x /\ k1[at].magic = l.hdr[at].magic /\ k1[at].next = l.hdr[at].next
    BY <1>1, <1>7, <1>9, <1>11, SizeSetIs
  <1>13. NoHeader \in HeaderSet /\ NoHeader.magic = "none"
    BY DEF NoHeader, HeaderSet
  <1>14. /\ k2 \in [Cells -> HeaderSet] /\ k2[q] = NoHeader /\ \A d \in Cells \ {q} : k2[d] = k1[d]
    BY <1>8, <1>9, <1>12, <1>13
  <1>15. /\ g.hdr \in [Cells -> HeaderSet] /\ \A d \in Cells \ {last} : g.hdr[d] = k2[d]
         /\ g.hdr[last].size = k2[last].size /\ g.hdr[last].magic = k2[last].magic
         /\ g.hdr[last].next = at
    BY <1>7, <1>9, <1>14, NextSetIs
  <1>16. /\ \A c \in Cells : sy[c] = g.hdr[c].size /\ ny[c] = g.hdr[c].next
         /\ \A c \in Cells : sz[c] = l.hdr[c].size /\ nx[c] = l.hdr[c].next
    BY DEF sy, ny, sz, nx, Sizes, Links
  <1>17. /\ g.hdr[q] = NoHeader
         /\ \A d \in Cells \ {q} : g.hdr[d].magic = l.hdr[d].magic
         /\ \A d \in Cells \ {q, at} : g.hdr[d].size = l.hdr[d].size
         /\ \A d \in Cells \ {q, at, last} : g.hdr[d] = l.hdr[d]
    BY <1>9, <1>12, <1>14, <1>15
  <1>18. \A d \in Cells \ {q, last} : g.hdr[d].next = l.hdr[d].next
    BY <1>12, <1>14, <1>15
  <1>19. at # q
    <2>1. sz[at] > 0 /\ sz[at] = l.hdr[at].size
      BY <1>2, <1>9, <1>16, TilesEnd
    <2> DEFINE z == l.hdr[at].size
    <2>2. at \in Nat /\ z \in Nat /\ z > 0 /\ q = at + z
      BY <1>2, <1>6, <1>9, <1>10, <2>1
    <2> HIDE DEF z
    <2> QED
      BY <2>2
  <1>20. g.hdr[at].size = x
    BY <1>12, <1>14, <1>15, <1>19, <1>9
  <1>21. Upper(lo, hi, I, E, sz, nx, at, q, last, sy, ny)
    <2>1. q = at + sz[at]
      BY <1>6, <1>9, <1>16
    <2>2. sy[at] = sz[at] + sz[q]
      BY <1>9, <1>16, <1>20 DEF x
    <2>3. \A c \in I \ {at, q} : sy[c] = sz[c]
      BY <1>4, <1>5, <1>16, <1>17
    <2>4. ny[last] = at
      BY <1>9, <1>15, <1>16
    <2>5. \A c \in E \ {last, q} : ny[c] = nx[c]
      BY <1>2, <1>4, <1>5, <1>16, <1>18
    <2> QED
      BY <1>1, <2>1, <2>2, <2>3, <2>4, <2>5 DEF Upper, nx
  <1>22. Tiling(lo, hi, J, sy) /\ Loose(D, sy) /\ Ring(D, ny)
    <2>1. Tiling(lo, hi, I \ {q}, sy)
      BY <1>21, WholeUpper
    <2>2. Loose(E \ {q}, sy)
      BY <1>21, WholeUpper
    <2>3. Ring(E \ {q}, ny)
      BY <1>21, WholeUpper
    <2> QED
      BY <2>1, <2>2, <2>3 DEF J, D
  <1>23. Labels(g, r, J, D)
    <2>1. D \subseteq J /\ \A c \in J : c \in Nat /\ lo <= c /\ c < hi
      BY <1>2, <1>5 DEF D, J
    <2>2. ASSUME NEW c \in Nat, lo <= c, c < hi
          PROVE  (c \in J <=> g.hdr[c].magic # "none") /\ (c \in D <=> g.hdr[c].magic = "free")
      <3>1. CASE c = q
        BY <1>13, <1>17, <3>1 DEF D, J
      <3>2. CASE c # q
        BY <1>4, <1>5, <1>17, <2>2, <3>2 DEF D, J
      <3> QED
        BY <3>1, <3>2
    <2> QED
      BY <2>1, <2>2 DEF Labels, lo, hi
  <1>24. InPlace(g, r)
    <2>1. g.first[r.at] \in D
      BY <1>6 DEF D
    <2> QED
      BY <1>3, <1>15, <1>22, <1>23, <2>1, Rebuilt DEF lo, hi, sy, ny
  <1>25. Keeps(h, g, r, p)
    <2>1. /\ \A d \in Cells : d \notin Inside(r) => l.hdr[d] = h.hdr[d]
          /\ h.hdr[p].magic = "alloc" /\ l.hdr[p].magic # "alloc"
          /\ \A d \in Cells \ {p} : l.hdr[d].magic = "alloc" <=> h.hdr[d].magic = "alloc"
          /\ \A d \in Cells \ {p} : h.hdr[d].magic = "alloc" => l.hdr[d].size = h.hdr[d].size
      BY <1>1 DEF Keeps
    <2>2. \A d \in Cells : d \notin Inside(r) => g.hdr[d] = h.hdr[d]
      BY <1>9, <1>17, <2>1
    <2>3. l.hdr[at].magic = "free" /\ l.hdr[q].magic = "free"
      BY <1>2, <1>5
    <2>4. g.hdr[q].magic = "none" /\ \A d \in Cells \ {q} : g.hdr[d].magic = l.hdr[d].magic
      BY <1>13, <1>17
    <2>5. g.hdr[p].magic # "alloc"
      BY <1>1, <2>1, <2>4
    <2>6. \A d \in Cells \ {p} : g.hdr[d].magic = "alloc" <=> h.hdr[d].magic = "alloc"
      BY <2>1, <2>3, <2>4
    <2>7. ASSUME NEW d \in Cells \ {p}, h.hdr[d].magic = "alloc"
          PROVE  g.hdr[d].size = h.hdr[d].size
      <3>1. l.hdr[d].magic = "alloc" /\ l.hdr[d].size = h.hdr[d].size
        BY <2>1, <2>7
      <3>2. d # at /\ d # q
        BY <2>3, <3>1
      <3> QED
        BY <1>17, <3>1, <3>2
    <2> QED
      BY <2>1, <2>2, <2>5, <2>6, <2>7 DEF Keeps
  <1> QED
    BY <1>24, <1>25 DEF Takes

\* It does not.
LEMMA FreedApart ==
  ASSUME NEW h, NEW l, NEW r, NEW p, NEW q, NEW I, NEW E, Halfway(h, l, r, p, q, I, E),
         NEW g, g.hdr = l.hdr, g.first[r.at] = q, q # l.at + l.hdr[l.at].size
  PROVE  Takes(h, g, r, p)
  <1> DEFINE lo == r.at + 1
             hi == r.at + r.size + 1
             sz == Sizes(l)
             nx == Links(l)
  <1>1. /\ InPlace(h, r) /\ q \in FreeIn(h, r) /\ p \in Cells /\ Keeps(h, l, r, p)
        /\ l.hdr \in [Cells -> HeaderSet]
        /\ Half(lo, hi, I, E, sz, nx, l.at, q) /\ Labels(l, r, I, E)
    BY DEF Halfway
  <1>2. /\ Tiling(lo, hi, I, sz) /\ E \subseteq I /\ Ring(E, nx) /\ q \in E /\ l.at \in E
        /\ \A c \in E : c + sz[c] \in E => c = l.at /\ c + sz[c] = q
    BY <1>1 DEF Half
  <1>3. r \in RegionSet /\ SpanOf(r) \subseteq Cells
    BY <1>1 DEF InPlace
  <1>4. sz[l.at] = l.hdr[l.at].size
    <2>1. l.at \in Nat /\ lo <= l.at /\ l.at < hi
      BY <1>2 DEF Tiling
    <2>2. l.at \in Cells
      BY <1>1, <2>1, Parts
    <2> QED
      BY <2>2 DEF Sizes
  <1>5. Loose(E, sz)
    BY <1>2, <1>4 DEF Loose
  <1>6. Sizes(g) = sz /\ Links(g) = nx
    BY DEF Sizes, Links
  <1>7. Labels(g, r, I, E)
    BY <1>1 DEF Labels
  <1>8. InPlace(g, r)
    BY <1>1, <1>2, <1>3, <1>5, <1>6, <1>7, Rebuilt
  <1>9. Keeps(h, g, r, p)
    BY <1>1 DEF Keeps
  <1> QED
    BY <1>8, <1>9 DEF Takes

\* The first free block of a region that was full.
LEMMA FreedFirst ==
  ASSUME NEW h, NEW r, InPlace(h, r), FreeIn(h, r) = {}, NEW p \in Headers(h, r),
         NEW g, NEW k, MagicSet(h.hdr, k, p, "free"), NextSet(k, g.hdr, p, p),
         g.first[r.at] = p
  PROVE  Takes(h, g, r, p)
  <1> DEFINE lo == r.at + 1
             hi == r.at + r.size + 1
             H == Headers(h, r)
             sz == Sizes(h)
             sy == Sizes(g)
             ny == Links(g)
             E == {p}
  <1>1. /\ r \in RegionSet /\ h.hdr \in [Cells -> HeaderSet] /\ SpanOf(r) \subseteq Cells
        /\ Tiling(lo, hi, H, sz)
        /\ \A c \in Nat : lo <= c /\ c < hi =>
                /\ c \in Cells /\ c \in Inside(r) /\ sz[c] = h.hdr[c].size
                /\ c \in H <=> h.hdr[c].magic # "none"
                /\ h.hdr[c].magic # "free"
    BY Parts DEF InPlace
  <1>2. \A c \in H : c \in Nat /\ lo <= c /\ c < hi
    BY <1>1 DEF Tiling
  <1>3. p \in Cells /\ p \in Inside(r)
    BY <1>1, <1>2
  <1> HIDE DEF lo, hi, H, sz, sy, ny
  <1>4. /\ k \in [Cells -> HeaderSet] /\ \A d \in Cells \ {p} : k[d] = h.hdr[d]
        /\ k[p].size = h.hdr[p].size /\ k[p].magic = "free"
    BY <1>1, <1>3, MagicSetIs
  <1>5. /\ g.hdr \in [Cells -> HeaderSet] /\ \A d \in Cells \ {p} : g.hdr[d] = k[d]
        /\ g.hdr[p].size = k[p].size /\ g.hdr[p].magic = k[p].magic /\ g.hdr[p].next = p
    BY <1>3, <1>4, NextSetIs
  <1>6. \A c \in Cells : sy[c] = g.hdr[c].size /\ ny[c] = g.hdr[c].next
    BY DEF sy, ny, Sizes, Links
  <1>7. \A c \in H : sy[c] = sz[c]
    BY <1>1, <1>2, <1>4, <1>5, <1>6
  <1>8. Tiling(lo, hi, H, sy)
    BY <1>1, <1>7 DEF Tiling, Tiles
  <1>9. Loose(E, sy)
    <2>1. sy[p] > 0 /\ sy[p] \in Nat /\ p \in Nat
      BY <1>8, <1>2, TilesEnd DEF H, Tiling
    <2> DEFINE z == sy[p]
    <2> HIDE DEF z
    <2>2. p + z # p
      BY <2>1 DEF z
    <2> QED
      BY <2>2 DEF Loose, z
  <1>10. Ring(E, ny)
    BY <1>2, <1>3, <1>5, <1>6 DEF Ring, Gap, H
  <1>11. Labels(g, r, H, E)
    <2>1. ASSUME NEW c \in Nat, lo <= c, c < hi
          PROVE  (c \in H <=> g.hdr[c].magic # "none") /\ (c \in E <=> g.hdr[c].magic = "free")
      <3>1. CASE c = p
        BY <1>4, <1>5, <3>1 DEF H
      <3>2. CASE c # p
        BY <1>1, <1>4, <1>5, <2>1, <3>2
      <3> QED
        BY <3>1, <3>2
    <2> QED
      BY <1>2, <2>1 DEF Labels, lo, hi, H
  <1>12. InPlace(g, r)
    <2>1. g.first[r.at] \in E
      OBVIOUS
    <2> QED
      BY <1>1, <1>5, <1>8, <1>9, <1>10, <1>11, <2>1, Rebuilt DEF lo, hi, sy, ny
  <1>13. h.hdr[p].magic = "alloc"
    <2>1. h.hdr[p] \in HeaderSet
      BY <1>1, <1>3
    <2>2. h.hdr[p].magic # "none" /\ h.hdr[p].magic # "free"
      BY <1>1, <1>2 DEF H
    <2> QED
      BY <2>1, <2>2 DEF HeaderSet
  <1>14. Keeps(h, g, r, p)
    BY <1>3, <1>4, <1>5, <1>13 DEF Keeps
  <1> QED
    BY <1>12, <1>14 DEF Takes

\* What grub_free leaves behind.
LEMMA FreeTakes ==
  ASSUME NEW h, Shaped(h), NEW ptr \in Nat, InPlace(h, RegionOf(h, ptr)),
         RegionOf(h, ptr).at \in Starts(h), ptr - 1 \in Headers(h, RegionOf(h, ptr)),
         h.hdr[ptr - 1].magic = "alloc"
  PROVE  /\ Takes(h, Free(h, ptr), RegionOf(h, ptr), ptr - 1)
         /\ Touches(h, Free(h, ptr), RegionOf(h, ptr).at)
  <1> DEFINE p == ptr - 1
             r == RegionOf(h, ptr)
             s == Spot(h, r, p)
             q == h.hdr[s].next
             l == Linked(h, q, p)
             last == IF q = s THEN l.at ELSE s
             g == Free(h, ptr)
             first == [h EXCEPT !.hdr[p].magic = "free", !.hdr[p].next = p, !.first[r.at] = p]
             upper == [l.hdr EXCEPT ![l.at].size = @ + l.hdr[q].size, ![q] = NoHeader,
                                    ![last].next = l.at]
  <1>0. /\ InPlace(h, r) /\ r.at \in Starts(h) /\ p \in Headers(h, r)
        /\ h.hdr[p].magic = "alloc"
    OBVIOUS
  <1>2. h = [regions |-> h.regions, first |-> h.first, hdr |-> h.hdr]
        /\ h.hdr \in [Cells -> HeaderSet]
    BY DEF Shaped
  <1>3. g = IF Full(h, r.at) THEN first
            ELSE IF q = l.at + l.hdr[l.at].size
                 THEN [h EXCEPT !.hdr = upper, !.first[r.at] = last]
                 ELSE [h EXCEPT !.hdr = l.hdr, !.first[r.at] = q]
    BY DEF Free
  <1> HIDE DEF g, l, s, p, r
  <1>1. /\ p \in Nat /\ p \in Cells /\ r \in RegionSet
        /\ FreeIn(h, r) \subseteq Headers(h, r)
    BY <1>0, BlocksOf DEF InPlace
  <1>4. CASE FreeIn(h, r) = {}
    <2> DEFINE k == [h.hdr EXCEPT ![p].magic = "free"]
               k2 == [k EXCEPT ![p].next = p]
    <2>1. g = first
      BY <1>0, <1>3, <1>4, FullIs
    <2>2. first = [h EXCEPT !.hdr = k2, !.first[r.at] = p]
      BY <1>1, <1>2
    <2>3. Marked(g, h, k2, r.at, p)
      BY <2>1, <2>2 DEF Marked
    <2>4. MagicSet(h.hdr, k, p, "free") /\ NextSet(k, k2, p, p)
      BY DEF MagicSet, NextSet
    <2> HIDE DEF k, k2, first
    <2>5. g.hdr = k2 /\ g.first[r.at] = p /\ Touches(h, g, r.at)
      BY <1>0, <1>1, <2>3, MarkedIs
    <2>6. NextSet(k, g.hdr, p, p)
      BY <2>4, <2>5
    <2>7. Takes(h, g, r, p)
      BY <1>0, <1>4, <2>4, <2>5, <2>6, FreedFirst
    <2> QED
      BY <2>5, <2>7 DEF g, p, r
  <1>5. CASE FreeIn(h, r) # {}
    <2>1. p \notin FreeIn(h, r)
      BY <1>0 DEF FreeIn
    <2>2. s \in FreeIn(h, r) /\ Between(h, q, p)
      BY <1>0, <1>1, <1>5, <2>1, SpotFinds DEF s
    <2>3. Behind(h, r, p, q, s)
      BY <1>0, <2>2 DEF Behind
    <2>4. PICK I, E : Halfway(h, l, r, p, q, I, E) /\ LastIs(l, q, s, E)
      <3> DEFINE low == h.hdr[q].next
      <3>1. CASE low + h.hdr[low].size = p
        <4>1. /\ Halfway(h, l, r, p, q, Headers(h, r) \ {p}, FreeIn(h, r))
              /\ LastIs(l, q, s, FreeIn(h, r))
          <5> HIDE DEF low, q
          <5>1. low = h.hdr[q].next
            BY DEF low
          <5> QED
            BY <2>3, <3>1, <5>1, LinkedLower DEF l
        <4> QED
          BY <4>1
      <3>2. CASE low + h.hdr[low].size # p
        <4>1. /\ Halfway(h, l, r, p, q, Headers(h, r), FreeIn(h, r) \cup {p})
              /\ LastIs(l, q, s, FreeIn(h, r) \cup {p})
          <5> HIDE DEF low, q
          <5>1. low = h.hdr[q].next
            BY DEF low
          <5> QED
            BY <2>3, <3>2, <5>1, LinkedAlone DEF l
        <4> QED
          BY <4>1
      <3> QED
        BY <3>1, <3>2
    <2>5. ~Full(h, r.at)
      BY <1>0, <1>5, FullIs
    <2>6. q \in Cells /\ Half(r.at + 1, r.at + r.size + 1, I, E, Sizes(l), Links(l), l.at, q)
            /\ Labels(l, r, I, E) /\ \A c \in FreeIn(h, r) : c \in Cells
      <3>1. q \in FreeIn(h, r)
        BY <2>4 DEF Halfway
      <3> QED
        BY <1>0, <1>5, <2>4, <3>1, RingOf DEF Halfway
    <2>7. CASE q = l.at + l.hdr[l.at].size
      <3>1. last \in E /\ last # q /\ Links(l)[last] = q
        BY <2>4, <2>7 DEF LastIs
      <3>2. last \in Cells
        <4>1. last \in Nat /\ r.at + 1 <= last /\ last < r.at + r.size + 1
          BY <3>1, <2>6 DEF Labels
        <4> QED
          BY <1>0, <4>1, Parts
      <3>3. g = [h EXCEPT !.hdr = upper, !.first[r.at] = last]
        BY <1>3, <2>5, <2>7
      <3>4. Marked(g, h, upper, r.at, last)
        BY <3>3 DEF Marked
      <3>5. upper = [l.hdr EXCEPT ![l.at].size = @ + l.hdr[q].size, ![q] = NoHeader,
                                  ![last].next = l.at]
        OBVIOUS
      <3> HIDE DEF upper, last
      <3>6. g.hdr = upper /\ g.first[r.at] = last /\ Touches(h, g, r.at)
        BY <1>0, <3>2, <3>4, MarkedIs
      <3>7. JoinsUpper(h, g, l, q, last, g.first[r.at])
        BY <2>7, <3>5, <3>6 DEF JoinsUpper
      <3> HIDE DEF q
      <3>8. Takes(h, g, r, p)
        BY <2>4, <3>1, <3>7, FreedUpper
      <3> QED
        BY <3>6, <3>8 DEF g, p, r
    <2>8. CASE q # l.at + l.hdr[l.at].size
      <3>1. Marked(g, h, l.hdr, r.at, q)
        BY <1>3, <2>5, <2>8 DEF Marked
      <3>2. g.hdr = l.hdr /\ g.first[r.at] = q /\ Touches(h, g, r.at)
        BY <1>0, <2>6, <3>1, MarkedIs
      <3> HIDE DEF q
      <3>3. Takes(h, g, r, p)
        BY <2>4, <2>8, <3>2, FreedApart
      <3> QED
        BY <3>2, <3>3 DEF g, p, r
    <2> QED
      BY <2>7, <2>8
  <1> QED
    BY <1>4, <1>5

-----------------------------------------------------------------------------
(* The heap as a whole.                                                    *)

LEMMA GoodPlace ==
  ASSUME NEW h, Good(h), NEW i \in DOMAIN h.regions
  PROVE  /\ InPlace(h, h.regions[i]) /\ h.regions[i].at \in Starts(h)
         /\ \A c \in Inside(h.regions[i]) : c \in SpanOf(h.regions[i]) /\ c \in Cells /\ c + 1 \in Cells
  <1> DEFINE r == h.regions[i]
  <1>1. /\ h.regions \in Seq(RegionSet) /\ h.hdr \in [Cells -> HeaderSet]
        /\ \A c \in SpanOf(r) : {c, c + 1} \subseteq Cells
        /\ Tiled(h, r) /\ Ringed(h, r)
    BY DEF Good, Shaped, Apart, Sound
  <1>2. r \in RegionSet
    BY <1>1
  <1>3. \A c \in Inside(r) : c \in SpanOf(r)
    BY <1>2 DEF Inside, SpanOf, RegionSet
  <1>4. InPlace(h, r)
    BY <1>1, <1>2 DEF InPlace
  <1> QED
    BY <1>1, <1>3, <1>4 DEF Starts

LEMMA SameRegion ==
  ASSUME NEW h, NEW g, NEW r, InPlace(h, r), g.hdr \in [Cells -> HeaderSet],
         \A d \in Inside(r) : g.hdr[d] = h.hdr[d], g.first[r.at] = h.first[r.at]
  PROVE  InPlace(g, r) /\ Headers(g, r) = Headers(h, r)
  <1>1. r \in RegionSet /\ SpanOf(r) \subseteq Cells /\ Tiled(h, r) /\ Ringed(h, r)
    BY DEF InPlace
  <1>2. Headers(g, r) = Headers(h, r) /\ \A c \in Headers(h, r) : c \in Inside(r)
    BY <1>1 DEF Headers, Inside
  <1>3. FreeIn(g, r) = FreeIn(h, r)
    BY <1>2 DEF FreeIn
  <1>4. \A c \in Headers(h, r) : g.hdr[c] = h.hdr[c]
    BY <1>2
  <1>5. Tiled(g, r)
    BY <1>1, <1>2, <1>3, <1>4 DEF Tiled
  <1>6. \A c \in FreeIn(h, r) : g.hdr[c] = h.hdr[c]
    BY <1>4 DEF FreeIn
  <1>7. Ringed(g, r)
    BY <1>1, <1>2, <1>3, <1>6 DEF Ringed
  <1> QED
    BY <1>1, <1>2, <1>5, <1>7 DEF InPlace

\* A step that leaves one region in place, and the others alone, keeps the heap good.
LEMMA GoodTouched ==
  ASSUME NEW h, Good(h), NEW k \in DOMAIN h.regions, NEW g, NEW r, r = h.regions[k],
         InPlace(g, r), Touches(h, g, r.at),
         \A d \in Cells : d \notin Inside(r) => g.hdr[d] = h.hdr[d]
  PROVE  Good(g) /\ g.regions = h.regions
  <1>1. /\ g = [regions |-> h.regions, first |-> g.first, hdr |-> g.hdr]
        /\ g.first \in [Starts(h) -> Cells]
        /\ \A a \in Starts(h) \ {r.at} : g.first[a] = h.first[a]
    BY DEF Touches
  <1>2. g.regions = h.regions
    BY <1>1
  <1>3. Shaped(h) /\ Apart(h) /\ Covered(h)
    BY DEF Good
  <1>4. Shaped(g)
    <2>1. h.regions \in Seq(RegionSet) /\ g.hdr \in [Cells -> HeaderSet] /\ Starts(g) = Starts(h)
      BY <1>2, <1>3 DEF Shaped, InPlace, Starts
    <2> QED
      BY <1>1, <2>1 DEF Shaped
  <1>5. Apart(g)
    BY <1>2, <1>3 DEF Apart
  <1>6. ASSUME NEW i \in DOMAIN h.regions, i # k
        PROVE  /\ InPlace(g, h.regions[i]) /\ Headers(g, h.regions[i]) = Headers(h, h.regions[i])
               /\ \A c \in Inside(h.regions[i]) : c \notin Inside(r)
    <2> DEFINE s == h.regions[i]
    <2>1. SpanOf(s) \cap SpanOf(r) = {}
      BY <1>3, <1>6 DEF Apart
    <2>2. /\ InPlace(h, s) /\ InPlace(h, r) /\ s.at \in Starts(h)
          /\ \A c \in Inside(s) : c \in SpanOf(s) /\ c \in Cells
          /\ \A c \in Inside(r) : c \in SpanOf(r)
      BY <1>6, GoodPlace
    <2>3. s.at # r.at
      BY <2>1, <2>2 DEF InPlace, RegionSet, SpanOf
    <2>4. \A c \in Inside(s) : c \notin Inside(r)
      BY <2>1, <2>2
    <2>5. \A c \in Inside(s) : g.hdr[c] = h.hdr[c]
      BY <2>2, <2>4
    <2>6. g.first[s.at] = h.first[s.at]
      BY <1>1, <2>2, <2>3
    <2>7. g.hdr \in [Cells -> HeaderSet]
      BY DEF InPlace
    <2> HIDE DEF s
    <2>8. InPlace(g, s) /\ Headers(g, s) = Headers(h, s)
      BY <2>2, <2>5, <2>6, <2>7, SameRegion
    <2> QED
      BY <2>4, <2>8 DEF s
  <1>7. Sound(g)
    <2>1. \A i \in DOMAIN h.regions : InPlace(g, h.regions[i])
      BY <1>6
    <2> QED
      BY <1>2, <2>1 DEF Sound, InPlace
  <1>8. Covered(g)
    <2> SUFFICES ASSUME NEW c \in Cells, g.hdr[c].magic # "none"
                 PROVE  \E i \in DOMAIN h.regions : c \in Headers(g, h.regions[i])
      BY <1>2 DEF Covered
    <2>1. CASE c \in Inside(r)
      <3>1. c \in Headers(g, r)
        BY <2>1 DEF Headers, Inside
      <3> QED
        BY <3>1
    <2>2. CASE c \notin Inside(r)
      <3>1. PICK i \in DOMAIN h.regions : c \in Headers(h, h.regions[i])
        BY <1>3, <2>2 DEF Covered
      <3>2. i # k
        BY <2>2, <3>1 DEF Headers, Inside
      <3> QED
        BY <1>6, <3>1, <3>2
    <2> QED
      BY <2>1, <2>2
  <1> QED
    BY <1>2, <1>4, <1>5, <1>7, <1>8 DEF Good

LEMMA PointersAre ==
  ASSUME NEW h, NEW p
  PROVE  p \in Pointers(h) <=>
             p \in Nat /\ p - 1 \in Cells /\ h.hdr[p - 1].magic = "alloc"
  <1>1. \A c \in Cells : c \in Nat /\ (c + 1) - 1 = c /\ c + 1 \in Nat
    BY CellsNat
  <1>2. ASSUME p \in Nat, p - 1 \in Cells PROVE (p - 1) + 1 = p
    BY <1>2
  <1> QED
    BY <1>1, <1>2 DEF Pointers

\* The region of a pointer is the one that its block lies in.
LEMMA PointerPlace ==
  ASSUME NEW h, Good(h), NEW p \in Pointers(h)
  PROVE  /\ \E k \in DOMAIN h.regions : RegionOf(h, p) = h.regions[k]
         /\ p - 1 \in Headers(h, RegionOf(h, p))
  <1> DEFINE c == p - 1
  <1>1. c \in Cells /\ h.hdr[c].magic # "none"
    BY PointersAre
  <1>2. PICK i \in DOMAIN h.regions : c \in Headers(h, h.regions[i])
    BY <1>1 DEF Good, Covered
  <1>3. /\ h.regions[i] \in ToSet(h.regions)
        /\ c \in h.regions[i].at + 1 .. h.regions[i].at + h.regions[i].size
    BY <1>2 DEF ToSet, Headers
  <1> DEFINE r == CHOOSE r \in ToSet(h.regions) : c \in r.at + 1 .. r.at + r.size
  <1>4. r \in ToSet(h.regions) /\ c \in r.at + 1 .. r.at + r.size
    BY <1>3
  <1>5. RegionOf(h, p) = r
    BY DEF RegionOf
  <1> HIDE DEF r
  <1>6. c \in Headers(h, r)
    BY <1>1, <1>4 DEF Headers
  <1> QED
    BY <1>4, <1>5, <1>6 DEF ToSet

\* ptr has been taken back, and nothing else has changed for the users of the heap.
TookBack(h, g, ptr) ==
    /\ Good(g) /\ g.regions = h.regions
    /\ Pointers(g) = Pointers(h) \ {ptr}
    /\ \A p \in Pointers(g) : g.hdr[p - 1].size = h.hdr[p - 1].size

LEMMA FreeGood ==
  ASSUME NEW h, Good(h), NEW ptr \in Pointers(h)
  PROVE  TookBack(h, Free(h, ptr), ptr)
  <1> DEFINE r == RegionOf(h, ptr)
             g == Free(h, ptr)
             c == ptr - 1
  <1>1. PICK k \in DOMAIN h.regions : r = h.regions[k]
    BY PointerPlace
  <1>2. ptr \in Nat /\ c \in Cells /\ h.hdr[c].magic = "alloc" /\ c \in Headers(h, r)
    BY PointersAre, PointerPlace
  <1>3. InPlace(h, r) /\ r.at \in Starts(h) /\ Shaped(h)
    BY <1>1, GoodPlace DEF Good
  <1>4. Takes(h, g, r, c) /\ Touches(h, g, r.at)
    BY <1>2, <1>3, FreeTakes
  <1> HIDE DEF g, r
  <1>5. /\ InPlace(g, r)
        /\ \A d \in Cells : d \notin Inside(r) => g.hdr[d] = h.hdr[d]
        /\ g.hdr[c].magic # "alloc"
        /\ \A d \in Cells \ {c} : g.hdr[d].magic = "alloc" <=> h.hdr[d].magic = "alloc"
        /\ \A d \in Cells \ {c} : h.hdr[d].magic = "alloc" => g.hdr[d].size = h.hdr[d].size
    BY <1>4 DEF Takes, Keeps
  <1>6. Good(g) /\ g.regions = h.regions
    BY <1>1, <1>4, <1>5, GoodTouched
  <1>7. ASSUME NEW p PROVE p \in Pointers(g) <=> p \in Pointers(h) \ {ptr}
    <2>1. CASE p = ptr
      BY <1>5, <2>1, PointersAre
    <2>2. CASE p # ptr /\ p \in Nat
      <3>1. p - 1 # c
        BY <1>2, <2>2
      <3> QED
        BY <1>5, <2>2, <3>1, PointersAre
    <2>3. CASE p # ptr /\ p \notin Nat
      BY <2>3, PointersAre
    <2> QED
      BY <2>1, <2>2, <2>3
  <1>8. ASSUME NEW p \in Pointers(g) PROVE g.hdr[p - 1].size = h.hdr[p - 1].size
    <2>1. p \in Pointers(h) /\ p # ptr /\ p \in Nat /\ p - 1 \in Cells
            /\ h.hdr[p - 1].magic = "alloc"
      BY <1>7, PointersAre
    <2>2. p - 1 # c
      BY <1>2, <2>1
    <2> QED
      BY <1>5, <2>1, <2>2
  <1>9. Pointers(g) = Pointers(h) \ {ptr}
    BY <1>7
  <1> QED
    BY <1>6, <1>8, <1>9 DEF TookBack, g

\* new.ptr has been given out, and nothing else has changed for the users of the heap.
GaveOut(h, new, n, align) ==
    /\ new = [heap |-> new.heap, ptr |-> new.ptr]
    /\ Good(new.heap) /\ new.heap.regions = h.regions
    /\ new.ptr \in Cells /\ new.ptr # NULL /\ new.ptr \notin Pointers(h)
    /\ Pointers(new.heap) = Pointers(h) \cup {new.ptr}
    /\ \A p \in Pointers(h) : new.heap.hdr[p - 1].size = h.hdr[p - 1].size
    /\ new.heap.hdr[new.ptr - 1].size = n /\ new.ptr % align = 0

LEMMA GivenOut ==
  ASSUME NEW h, Good(h), NEW k \in DOMAIN h.regions, NEW r, r = h.regions[k], NEW new, NEW n,
         NEW align, Given(h, new, r, n, align)
  PROVE  GaveOut(h, new, n, align)
  <1> DEFINE g == new.heap
             c == new.ptr - 1
  <1>1. /\ new = [heap |-> new.heap, ptr |-> new.ptr]
        /\ new.ptr \in Nat /\ c \in Cells /\ c \in Inside(r)
        /\ Gives(h, g, r, c, n) /\ Touches(h, g, r.at) /\ new.ptr % align = 0
    BY DEF Given
  <1> HIDE DEF g
  <1>2. /\ InPlace(g, r)
        /\ \A d \in Cells : d \notin Inside(r) => g.hdr[d] = h.hdr[d]
        /\ g.hdr[c].magic = "alloc" /\ g.hdr[c].size = n /\ h.hdr[c].magic # "alloc"
        /\ \A d \in Cells \ {c} : g.hdr[d].magic = "alloc" <=> h.hdr[d].magic = "alloc"
        /\ \A d \in Cells \ {c} : h.hdr[d].magic = "alloc" => g.hdr[d].size = h.hdr[d].size
    BY <1>1 DEF Gives
  <1>3. Good(g) /\ g.regions = h.regions
    BY <1>1, <1>2, GoodTouched
  <1>4. new.ptr \in Cells /\ new.ptr # NULL
    <2>1. c \in Nat /\ c + 1 = new.ptr
      BY <1>1, CellsNat
    <2>2. c + 1 \in Cells
      BY <1>1, GoodPlace
    <2> QED
      BY <2>1, <2>2, CellsNat DEF NULL
  <1>5. new.ptr \notin Pointers(h)
    BY <1>2, PointersAre
  <1>6. ASSUME NEW p PROVE p \in Pointers(g) <=> p \in Pointers(h) \cup {new.ptr}
    <2>1. CASE p = new.ptr
      BY <1>1, <1>2, <2>1, PointersAre
    <2>2. CASE p # new.ptr /\ p \in Nat
      <3>1. p - 1 # c
        BY <1>1, <2>2
      <3> QED
        BY <1>2, <2>2, <3>1, PointersAre
    <2>3. CASE p # new.ptr /\ p \notin Nat
      BY <2>3, PointersAre
    <2> QED
      BY <2>1, <2>2, <2>3
  <1>7. ASSUME NEW p \in Pointers(h) PROVE g.hdr[p - 1].size = h.hdr[p - 1].size
    <2>1. p \in Nat /\ p - 1 \in Cells /\ h.hdr[p - 1].magic = "alloc" /\ p # new.ptr
      BY <1>5, PointersAre
    <2>2. p - 1 # c
      BY <1>1, <2>1
    <2> QED
      BY <1>2, <2>1, <2>2
  <1>8. Pointers(g) = Pointers(h) \cup {new.ptr}
    BY <1>6
  <1> QED
    BY <1>1, <1>2, <1>3, <1>4, <1>5, <1>7, <1>8 DEF GaveOut, g

\* A free block that does not fit has no room at an aligned pointer.
LEMMA NoRoom ==
  ASSUME NEW h, NEW c \in Nat, h.hdr[c].size \in Nat, NEW n \in Nat, NEW align \in Nat \ {0},
         ~Fits(h, c, n, align), NEW a \in c .. c + h.hdr[c].size, (a + 1) % align = 0
  PROVE  ~(a + n <= c + h.hdr[c].size)
  <1> DEFINE E == Extra(c, align)
             s == h.hdr[c].size
  <1>1. E \in Nat /\ a \in Nat /\ a >= c /\ s \in Nat
    BY ExtraIs
  <1>2. c + E <= a
    BY <1>1, ExtraIs
  <1>3. ~(s >= n + E)
    BY DEF Fits
  <1> HIDE DEF E, s
  <1>4. ~(a + n <= c + s)
    BY <1>1, <1>2, <1>3
  <1> QED
    BY <1>4 DEF s

LEMMA RealMallocIs ==
  ASSUME NEW h, Good(h), NEW n \in Nat \ {0}, NEW align \in Nat \ {0}
  PROVE  \/ /\ RealMalloc(h, n, align) = [heap |-> h, ptr |-> NULL] /\ ~Room(h, n, align)
         \/ GaveOut(h, RealMalloc(h, n, align), n, align)
  <1> DEFINE find(i) == Search(h, h.regions[i], n, align)
             good == {i \in DOMAIN h.regions : find(i) # NULL}
             new == RealMalloc(h, n, align)
  <1>1. \A i \in DOMAIN h.regions :
            \/ /\ find(i) \in FreeIn(h, h.regions[i])
               /\ Fits(h, h.hdr[find(i)].next, n, align)
            \/ /\ find(i) = NULL
               /\ \A c \in FreeIn(h, h.regions[i]) : ~Fits(h, c, n, align)
    BY GoodPlace, SearchFinds
  <1>2. CASE good = {}
    <2>1. new = [heap |-> h, ptr |-> NULL]
      BY <1>2 DEF RealMalloc
    <2>2. ASSUME NEW i \in DOMAIN h.regions, NEW c \in FreeIn(h, h.regions[i]),
                 NEW a \in c .. c + h.hdr[c].size, (a + 1) % align = 0,
                 a + n <= c + h.hdr[c].size
          PROVE  FALSE
      <3>1. ~Fits(h, c, n, align)
        <4>1. find(i) \notin FreeIn(h, h.regions[i])
          <5>1. InPlace(h, h.regions[i])
            BY GoodPlace
          <5>2. find(i) = NULL /\ \A d \in FreeIn(h, h.regions[i]) : d \in Cells
            BY <1>2, <5>1, RingOf
          <5> QED
            BY <5>2, CellsNat DEF NULL
        <4> QED
          BY <1>1, <4>1
      <3>2. c \in Cells /\ c \in Nat /\ h.hdr \in [Cells -> HeaderSet]
        BY GoodPlace, RingOf, CellsNat DEF Good, Shaped
      <3>3. h.hdr[c].size \in Nat
        BY <3>2 DEF HeaderSet
      <3> QED
        BY <2>2, <3>1, <3>2, <3>3, NoRoom
    <2>3. ~Room(h, n, align)
      BY <2>2 DEF Room
    <2> QED
      BY <2>1, <2>3
  <1>3. CASE good # {}
    <2> DEFINE i == CHOOSE i \in good : \A j \in good : i <= j
               r == h.regions[i]
    <2>1. good \in SUBSET Nat
      BY DEF Good, Shaped
    <2>2. i \in good
      <3> HIDE DEF good
      <3> QED
        BY <1>3, <2>1, LeastElement
    <2>3. new = Cut(h, r.at, find(i), n, align)
      BY <1>3 DEF RealMalloc
    <2> HIDE DEF i
    <2>4. /\ find(i) \in FreeIn(h, r) /\ Fits(h, h.hdr[find(i)].next, n, align)
          /\ InPlace(h, r) /\ r.at \in Starts(h) /\ i \in DOMAIN h.regions
      BY <1>1, <2>2, GoodPlace
    <2> DEFINE q == find(i)
    <2> HIDE DEF q, r, new
    <2>5. Given(h, Cut(h, r.at, q, n, align), r, n, align)
      BY <2>4, CutGives DEF Good, q
    <2>6. Given(h, new, r, n, align)
      BY <2>3, <2>5 DEF q
    <2>7. GaveOut(h, new, n, align)
      BY <2>4, <2>6, GivenOut DEF r
    <2> QED
      BY <2>7 DEF new
  <1> QED
    BY <1>2, <1>3

-----------------------------------------------------------------------------
(* grub_mm_init_region.                                                    *)

LEMMA InsertAtIs ==
  ASSUME NEW S, NEW s \in Seq(S), NEW i \in 1 .. Len(s) + 1, NEW e \in S
  PROVE  /\ InsertAt(s, i, e) \in Seq(S) /\ Len(InsertAt(s, i, e)) = Len(s) + 1
         /\ \A j \in 1 .. Len(s) + 1 :
                InsertAt(s, i, e)[j] = IF j < i THEN s[j] ELSE IF j = i THEN e ELSE s[j - 1]
  <1> DEFINE n == Len(s)
             a == SubSeq(s, 1, i - 1)
             b == <<e>>
             c == SubSeq(s, i, n)
             ab == a \o b
             t == ab \o c
  <1>1. n \in Nat /\ \A j \in 1 .. n : s[j] \in S
    BY LenProperties, ElementOfSeq
  <1>2. /\ a \in Seq(S) /\ Len(a) = i - 1
        /\ \A j \in 1 .. i - 1 : a[j] = s[j]
    <2>1. 1 \in Int /\ i - 1 \in Int /\ \A j \in 1 .. i - 1 : s[j] \in S
      BY <1>1
    <2>2. /\ a \in Seq(S) /\ Len(a) = IF 1 <= i - 1 THEN (i - 1) - 1 + 1 ELSE 0
          /\ \A j \in 1 .. (i - 1) - 1 + 1 : a[j] = s[1 + j - 1]
      BY <2>1, SubSeqProperties
    <2>3. \A j \in 1 .. i - 1 : 1 + j - 1 = j /\ j \in 1 .. (i - 1) - 1 + 1
      BY <1>1
    <2> HIDE DEF a
    <2> QED
      BY <1>1, <2>2, <2>3
  <1>3. /\ c \in Seq(S) /\ Len(c) = n - i + 1
        /\ \A j \in 1 .. n - i + 1 : c[j] = s[i + j - 1]
    <2>1. i \in Int /\ n \in Int /\ \A j \in i .. n : s[j] \in S
      BY <1>1
    <2>2. /\ c \in Seq(S) /\ Len(c) = IF i <= n THEN n - i + 1 ELSE 0
          /\ \A j \in 1 .. n - i + 1 : c[j] = s[i + j - 1]
      BY <2>1, SubSeqProperties
    <2> HIDE DEF c
    <2> QED
      BY <1>1, <2>2
  <1>4. b \in Seq(S) /\ Len(b) = 1 /\ b[1] = e
    OBVIOUS
  <1> HIDE DEF a, b, c
  <1>5. /\ ab \in Seq(S) /\ Len(ab) = Len(a) + Len(b)
        /\ \A j \in 1 .. Len(a) + Len(b) : ab[j] = IF j <= Len(a) THEN a[j] ELSE b[j - Len(a)]
    BY <1>2, <1>4, ConcatProperties
  <1>6. /\ ab \in Seq(S) /\ Len(ab) = i
        /\ \A j \in 1 .. i : ab[j] = IF j < i THEN s[j] ELSE e
    <2>1. Len(a) = i - 1 /\ Len(b) = 1 /\ (i - 1) + 1 = i
      BY <1>2, <1>4
    <2>2. ASSUME NEW j \in 1 .. i PROVE ab[j] = IF j < i THEN s[j] ELSE e
      <3>1. j \in 1 .. Len(a) + Len(b)
        BY <2>1
      <3>2. CASE j < i
        BY <1>2, <1>5, <2>1, <3>1, <3>2
      <3>3. CASE j = i
        <4>1. j - Len(a) = 1 /\ ~(j <= Len(a))
          BY <2>1, <3>3
        <4> QED
          BY <1>4, <1>5, <3>1, <3>3, <4>1
      <3>4. j < i \/ j = i
        BY <1>1
      <3> HIDE DEF ab
      <3> QED
        BY <3>2, <3>3, <3>4
    <2> HIDE DEF ab
    <2> QED
      BY <1>5, <2>1, <2>2
  <1> HIDE DEF ab
  <1>7. /\ t \in Seq(S) /\ Len(t) = Len(ab) + Len(c)
        /\ \A j \in 1 .. Len(ab) + Len(c) :
               t[j] = IF j <= Len(ab) THEN ab[j] ELSE c[j - Len(ab)]
    BY <1>3, <1>6, ConcatProperties
  <1> HIDE DEF t
  <1>8. Len(ab) + Len(c) = n + 1
    BY <1>1, <1>3, <1>6
  <1>9. ASSUME NEW j \in 1 .. n + 1
        PROVE  t[j] = IF j < i THEN s[j] ELSE IF j = i THEN e ELSE s[j - 1]
    <2>1. t[j] = IF j <= i THEN ab[j] ELSE c[j - i]
      BY <1>6, <1>7, <1>8
    <2>2. CASE j <= i
      BY <1>1, <1>6, <2>1, <2>2
    <2>3. CASE j > i
      <3>1. j - i \in 1 .. n - i + 1 /\ i + (j - i) - 1 = j - 1
        BY <1>1, <2>3
      <3> QED
        BY <1>1, <1>3, <2>1, <2>3, <3>1
    <2> QED
      BY <1>1, <2>2, <2>3
  <1>10. InsertAt(s, i, e) = t
    BY DEF InsertAt, t, ab, a, b, c
  <1> QED
    BY <1>7, <1>8, <1>9, <1>10

LEMMA AreaIs ==
  ASSUME NEW area \in [addr : Nat, size : Nat], ~(SizeLeft(area) < Align), NEW r,
         r = [at |-> HeaderCell(area), size |-> SizeLeft(area) \div Align]
  PROVE  r \in RegionSet /\ AreaCells(area) = SpanOf(r)
  <1> DEFINE at == HeaderCell(area)
             left == SizeLeft(area)
             d == left \div Align
  <1>1. at \in Nat
    <2> DEFINE x == area.addr + Align - 1
    <2>1. x \in Nat
      BY CellsNat
    <2> HIDE DEF x
    <2>2. x \div Align \in Nat
      BY <2>1, CellsNat, Divides
    <2> QED
      BY <2>2 DEF HeaderCell, x
  <1>2. left \in Int
    <2> HIDE DEF at
    <2>1. at * Align \in Int /\ area.size \in Nat /\ area.addr \in Nat /\ Align \in Nat
      BY <1>1, CellsNat
    <2> DEFINE y == at * Align
    <2> HIDE DEF y
    <2>2. area.size - (y - area.addr + Align) \in Int
      BY <2>1 DEF y
    <2> QED
      BY <2>2 DEF SizeLeft, y, at
  <1> HIDE DEF left
  <1>3. left \in Nat /\ left >= Align
    BY <1>2, CellsNat DEF left
  <1>4. d \in Nat \ {0}
    <2>1. d \in Nat /\ left % Align \in 0 .. Align - 1 /\ left = Align * d + (left % Align)
      BY <1>3, CellsNat, Divides
    <2> DEFINE m == left % Align
    <2> HIDE DEF d, m
    <2>2. d # 0
      <3> SUFFICES ASSUME d = 0 PROVE FALSE
        OBVIOUS
      <3>1. Align * d = 0
        BY CellsNat
      <3>2. left = m /\ m < Align /\ m \in Nat
        BY <2>1, <3>1, CellsNat DEF m
      <3> QED
        BY <1>3, <3>2, CellsNat
    <2> QED
      BY <2>1, <2>2
  <1>5. r = [at |-> at, size |-> d]
    BY DEF left
  <1>6. r \in RegionSet /\ r.at = at /\ r.size = d
    BY <1>1, <1>4, <1>5 DEF RegionSet
  <1>7. AreaCells(area) = at .. at + d
    BY DEF AreaCells, left
  <1> QED
    BY <1>6, <1>7 DEF SpanOf

\* The area lies apart from the regions.
Clear(h, area) ==
    /\ area \in [addr : Nat, size : Nat]
    /\ \A c \in AreaCells(area) : {c, c + 1} \subseteq Cells
    /\ \A j \in DOMAIN h.regions : AreaCells(area) \cap SpanOf(h.regions[j]) = {}

\* g has r beside the regions of h, with one free block.
NewRegion(h, g, r, hd) ==
    /\ \E place \in 1 .. Len(h.regions) + 1 : g.regions = InsertAt(h.regions, place, r)
    /\ g = [regions |-> g.regions, first |-> g.first, hdr |-> g.hdr]
    /\ g.first = [at \in DOMAIN h.first \cup {r.at} |->
                      IF at = r.at THEN r.at + 1 ELSE h.first[at]]
    /\ hd = [magic |-> "free", size |-> r.size, next |-> r.at + 1]
    /\ g.hdr = [h.hdr EXCEPT ![r.at + 1] = hd]

LEMMA RegionsWith ==
  ASSUME NEW h, Good(h), NEW g, NEW r \in RegionSet, NEW hd, NewRegion(h, g, r, hd),
         \A j \in DOMAIN h.regions : SpanOf(r) \cap SpanOf(h.regions[j]) = {}
  PROVE  /\ g.regions \in Seq(RegionSet)
         /\ \E i \in DOMAIN g.regions : g.regions[i] = r
         /\ \A k \in DOMAIN h.regions : \E i \in DOMAIN g.regions : g.regions[i] = h.regions[k]
         /\ \A i \in DOMAIN g.regions :
                g.regions[i] = r \/ \E k \in DOMAIN h.regions : g.regions[i] = h.regions[k]
         /\ \A i, j \in DOMAIN g.regions :
                i = j \/ SpanOf(g.regions[i]) \cap SpanOf(g.regions[j]) = {}
  <1> DEFINE s == h.regions
             t == g.regions
             n == Len(s)
  <1>1. s \in Seq(RegionSet)
        /\ \A i, j \in DOMAIN s : i = j \/ SpanOf(s[i]) \cap SpanOf(s[j]) = {}
    BY DEF Good, Shaped, Apart
  <1>2. PICK p \in 1 .. n + 1 : t = InsertAt(s, p, r)
    BY DEF NewRegion
  <1>3. n \in Nat /\ DOMAIN s = 1 .. n
    BY <1>1, LenProperties
  <1>4. /\ t \in Seq(RegionSet) /\ Len(t) = n + 1
        /\ \A j \in 1 .. n + 1 : t[j] = IF j < p THEN s[j] ELSE IF j = p THEN r ELSE s[j - 1]
    <2> HIDE DEF s
    <2>1. /\ InsertAt(s, p, r) \in Seq(RegionSet) /\ Len(InsertAt(s, p, r)) = Len(s) + 1
          /\ \A j \in 1 .. Len(s) + 1 :
                 InsertAt(s, p, r)[j] = IF j < p THEN s[j] ELSE IF j = p THEN r ELSE s[j - 1]
      BY <1>1, InsertAtIs
    <2> QED
      BY <1>2, <2>1
  <1>5. DOMAIN t = 1 .. n + 1
    BY <1>4, LenProperties
  <1> DEFINE o(j) == IF j < p THEN j ELSE j - 1
  <1> HIDE DEF s, t, n
  <1>6. \A j \in 1 .. n + 1 : j # p => o(j) \in 1 .. n /\ t[j] = s[o(j)]
    BY <1>3, <1>4
  <1>7. \A i, j \in 1 .. n + 1 : i # p /\ j # p /\ i # j => o(i) # o(j)
    BY <1>3
  <1>8. t[p] = r
    BY <1>3, <1>4
  <1> HIDE DEF o
  <1>9. ASSUME NEW k \in DOMAIN s PROVE \E i \in DOMAIN t : t[i] = s[k]
    <2>1. CASE k < p
      <3>1. k \in 1 .. n + 1 /\ t[k] = s[k]
        BY <1>3, <1>4, <2>1
      <3> QED
        BY <1>5, <3>1
    <2>2. CASE k >= p
      <3>1. k + 1 \in 1 .. n + 1 /\ ~(k + 1 < p) /\ k + 1 # p /\ (k + 1) - 1 = k
        BY <1>3, <2>2
      <3>2. t[k + 1] = s[k]
        BY <1>4, <3>1
      <3> QED
        BY <1>5, <3>1, <3>2
    <2> QED
      BY <1>3, <2>1, <2>2
  <1>10. ASSUME NEW i \in DOMAIN t PROVE t[i] = r \/ \E k \in DOMAIN s : t[i] = s[k]
    BY <1>3, <1>5, <1>6, <1>8
  <1>11. \A j \in DOMAIN s : SpanOf(r) \cap SpanOf(s[j]) = {}
    BY DEF s
  <1>12. ASSUME NEW i \in DOMAIN t, NEW j \in DOMAIN t, i # j
         PROVE  SpanOf(t[i]) \cap SpanOf(t[j]) = {}
    <2>1. CASE i = p
      BY <1>3, <1>5, <1>6, <1>8, <1>11, <1>12, <2>1
    <2>2. CASE j = p
      BY <1>3, <1>5, <1>6, <1>8, <1>11, <1>12, <2>2
    <2>3. CASE i # p /\ j # p
      <3>1. o(i) \in DOMAIN s /\ o(j) \in DOMAIN s /\ o(i) # o(j) /\ t[i] = s[o(i)] /\ t[j] = s[o(j)]
        BY <1>3, <1>5, <1>6, <1>7, <1>12, <2>3
      <3> QED
        BY <1>1, <3>1
    <2> QED
      BY <2>1, <2>2, <2>3
  <1>13. p \in DOMAIN t
    BY <1>5
  <1> QED
    BY <1>4, <1>8, <1>9, <1>10, <1>12, <1>13 DEF s, t

\* A region of one free block.
LEMMA FirstBlock ==
  ASSUME NEW h, NEW g, NEW r \in RegionSet, SpanOf(r) \subseteq Cells, NEW hd,
         h.hdr \in [Cells -> HeaderSet], g.hdr = [h.hdr EXCEPT ![r.at + 1] = hd],
         hd = [magic |-> "free", size |-> r.size, next |-> r.at + 1],
         \A c \in Inside(r) : h.hdr[c].magic = "none",
         g.first[r.at] = r.at + 1
  PROVE  InPlace(g, r) /\ Headers(g, r) = {r.at + 1} /\ hd \in HeaderSet /\ r.at + 1 \in Inside(r)
  <1> DEFINE b == r.at + 1
             lo == b
             hi == r.at + r.size + 1
             I == {b}
             sz == Sizes(g)
             nx == Links(g)
  <1>1. r.at \in Nat /\ r.size \in Nat \ {0}
    BY DEF RegionSet
  <1>2. b \in Inside(r) /\ b \in Cells /\ b \in Nat /\ lo <= b /\ b < hi /\ b + r.size = hi
          /\ b + r.size # b /\ b + r.size > b /\ hi \in Nat
    BY <1>1 DEF Inside, SpanOf
  <1>3. /\ hd \in HeaderSet /\ hd.magic = "free" /\ hd.size = r.size /\ hd.next = b
    BY <1>1, <1>2 DEF HeaderSet
  <1> HIDE DEF sz, nx
  <1>4. /\ g.hdr \in [Cells -> HeaderSet] /\ g.hdr[b] = hd
        /\ \A c \in Cells \ {b} : g.hdr[c] = h.hdr[c]
    BY <1>2, <1>3
  <1>5. sz[b] = r.size /\ nx[b] = b
    BY <1>2, <1>3, <1>4 DEF sz, nx, Sizes, Links
  <1>6. Tiling(lo, hi, I, sz)
    BY <1>1, <1>2, <1>5 DEF Tiling, Tiles
  <1>7. Loose(I, sz)
    BY <1>2, <1>5 DEF Loose
  <1>8. Ring(I, nx)
    BY <1>2, <1>5 DEF Ring, Gap
  <1>9. Labels(g, r, I, I)
    <2>1. ASSUME NEW c \in Nat, lo <= c, c < hi
          PROVE  (c \in I <=> g.hdr[c].magic # "none") /\ (c \in I <=> g.hdr[c].magic = "free")
      <3>1. CASE c = b
        BY <1>3, <1>4, <3>1
      <3>2. CASE c # b
        <4>1. c \in Inside(r) /\ c \in Cells
          BY <1>1, <2>1 DEF Inside, SpanOf
        <4>2. h.hdr[c].magic = "none" /\ g.hdr[c] = h.hdr[c]
          BY <1>4, <3>2, <4>1
        <4> QED
          BY <3>2, <4>2
      <3> QED
        BY <3>1, <3>2
    <2> QED
      BY <1>2, <2>1 DEF Labels
  <1>10. InPlace(g, r) /\ Headers(g, r) = I
    BY <1>4, <1>6, <1>7, <1>8, <1>9, Rebuilt DEF sz, nx
  <1> QED
    BY <1>2, <1>3, <1>10

LEMMA InitIs ==
  ASSUME NEW h, Good(h), NEW area, ~(SizeLeft(area) < Align)
  PROVE  \E r, hd : /\ r = [at |-> HeaderCell(area), size |-> SizeLeft(area) \div Align]
                    /\ NewRegion(h, InitRegion(h, area), r, hd)
  <1> DEFINE r == [at |-> HeaderCell(area), size |-> SizeLeft(area) \div Align]
             larger == {i \in DOMAIN h.regions : h.regions[i].size > r.size}
             place == Min(larger \cup {Len(h.regions) + 1})
             hd == [magic |-> "free", size |-> r.size, next |-> r.at + 1]
             g == InitRegion(h, area)
  <1>1. g = [regions |-> InsertAt(h.regions, place, r),
             first |-> [at \in DOMAIN h.first \cup {r.at} |->
                            IF at = r.at THEN r.at + 1 ELSE h.first[at]],
             hdr |-> [h.hdr EXCEPT ![r.at + 1] = hd]]
    BY DEF InitRegion
  <1>2. place \in 1 .. Len(h.regions) + 1
    <2> DEFINE n == Len(h.regions)
               S == larger \cup {n + 1}
    <2>1. n \in Nat /\ DOMAIN h.regions = 1 .. n
      <3>1. h.regions \in Seq(RegionSet)
        BY DEF Good, Shaped
      <3> QED
        BY <3>1, LenProperties
    <2>2. S \in SUBSET Nat /\ S # {} /\ S \subseteq 1 .. n + 1
      BY <2>1
    <2>3. place = CHOOSE x \in S : \A y \in S : x <= y
      BY DEF Min
    <2> HIDE DEF S
    <2>4. place \in S
      BY <2>2, <2>3, LeastElement
    <2> QED
      BY <2>2, <2>4
  <1> HIDE DEF place, r, hd, g
  <1>3. g.regions = InsertAt(h.regions, place, r)
    BY <1>1
  <1>4. g.first = [at \in DOMAIN h.first \cup {r.at} |->
                            IF at = r.at THEN r.at + 1 ELSE h.first[at]]
    BY <1>1
  <1>5. g.hdr = [h.hdr EXCEPT ![r.at + 1] = hd]
    BY <1>1
  <1>6. g = [regions |-> g.regions, first |-> g.first, hdr |-> g.hdr]
    BY <1>1, <1>3, <1>4, <1>5
  <1>7. hd = [magic |-> "free", size |-> r.size, next |-> r.at + 1]
    BY DEF hd
  <1>8. NewRegion(h, g, r, hd)
    BY <1>2, <1>3, <1>4, <1>5, <1>6, <1>7 DEF NewRegion
  <1>9. r = [at |-> HeaderCell(area), size |-> SizeLeft(area) \div Align]
    BY DEF r
  <1> QED
    BY <1>8, <1>9 DEF g

LEMMA NewRegionGood ==
  ASSUME NEW h, Good(h), NEW g, NEW r \in RegionSet, NEW hd, NewRegion(h, g, r, hd),
         \A c \in SpanOf(r) : {c, c + 1} \subseteq Cells,
         \A j \in DOMAIN h.regions : SpanOf(r) \cap SpanOf(h.regions[j]) = {}
  PROVE  /\ Good(g) /\ Pointers(g) = Pointers(h)
         /\ \A p \in Pointers(h) : g.hdr[p - 1].size = h.hdr[p - 1].size
  <1> DEFINE b == r.at + 1
  <1>1. Shaped(h) /\ Apart(h) /\ Covered(h)
    BY DEF Good
  <1>2. /\ g = [regions |-> g.regions, first |-> g.first, hdr |-> g.hdr]
        /\ g.first = [at \in DOMAIN h.first \cup {r.at} |->
                          IF at = r.at THEN b ELSE h.first[at]]
        /\ hd = [magic |-> "free", size |-> r.size, next |-> b]
        /\ g.hdr = [h.hdr EXCEPT ![b] = hd]
    BY DEF NewRegion
  <1>3. /\ g.regions \in Seq(RegionSet)
        /\ \E i \in DOMAIN g.regions : g.regions[i] = r
        /\ \A k \in DOMAIN h.regions : \E i \in DOMAIN g.regions : g.regions[i] = h.regions[k]
        /\ \A i \in DOMAIN g.regions :
               g.regions[i] = r \/ \E k \in DOMAIN h.regions : g.regions[i] = h.regions[k]
        /\ \A i, j \in DOMAIN g.regions :
               i = j \/ SpanOf(g.regions[i]) \cap SpanOf(g.regions[j]) = {}
    BY RegionsWith
  <1>4. h.first \in [Starts(h) -> Cells] /\ h.hdr \in [Cells -> HeaderSet]
    BY <1>1 DEF Shaped
  <1>5. Starts(g) = Starts(h) \cup {r.at}
    BY <1>3 DEF Starts
  <1>6. r.at \in SpanOf(r) /\ \A c \in Inside(r) : c \in SpanOf(r)
    BY DEF Inside, SpanOf, RegionSet
  <1>7. ASSUME NEW c \in SpanOf(r) PROVE h.hdr[c].magic = "none"
    <2> SUFFICES ASSUME h.hdr[c].magic # "none" PROVE FALSE
      OBVIOUS
    <2>1. PICK i \in DOMAIN h.regions : c \in Headers(h, h.regions[i])
      BY <1>1, <1>7 DEF Covered
    <2>2. c \in SpanOf(h.regions[i])
      <3>1. h.regions[i] \in RegionSet
        BY GoodPlace DEF InPlace
      <3> QED
        BY <2>1, <3>1, BlocksOf
    <2> QED
      BY <2>2
  <1>8. g.first \in [Starts(g) -> Cells] /\ g.first[r.at] = b
    <2>1. b \in Cells
      BY <1>6
    <2> QED
      BY <1>2, <1>4, <1>5, <2>1
  <1>9. SpanOf(r) \subseteq Cells /\ \A c \in Inside(r) : h.hdr[c].magic = "none"
    BY <1>6, <1>7
  <1>10. InPlace(g, r) /\ Headers(g, r) = {b} /\ hd \in HeaderSet /\ b \in Inside(r)
    BY <1>2, <1>4, <1>8, <1>9, FirstBlock
  <1>11. /\ g.hdr \in [Cells -> HeaderSet] /\ g.hdr[b] = hd /\ hd.magic = "free"
         /\ \A c \in Cells \ {b} : g.hdr[c] = h.hdr[c]
         /\ b \in SpanOf(r) /\ b \in Cells /\ h.hdr[b].magic = "none"
    BY <1>2, <1>4, <1>6, <1>7, <1>9, <1>10
  <1>12. Shaped(g)
    BY <1>2, <1>3, <1>8, <1>11 DEF Shaped
  <1>13. Apart(g)
    <2>1. ASSUME NEW i \in DOMAIN g.regions, NEW c \in SpanOf(g.regions[i])
          PROVE  {c, c + 1} \subseteq Cells
      BY <1>1, <1>3 DEF Apart
    <2> QED
      BY <1>3, <2>1 DEF Apart
  <1>14. ASSUME NEW k \in DOMAIN h.regions
         PROVE  /\ InPlace(g, h.regions[k])
                /\ Headers(g, h.regions[k]) = Headers(h, h.regions[k])
    <2> DEFINE s == h.regions[k]
    <2>1. /\ InPlace(h, s) /\ s.at \in Starts(h)
          /\ \A c \in Inside(s) : c \in SpanOf(s) /\ c \in Cells
      BY GoodPlace
    <2>2. SpanOf(r) \cap SpanOf(s) = {}
      OBVIOUS
    <2>3. s.at \in SpanOf(s)
      BY <2>1 DEF InPlace, RegionSet, SpanOf
    <2> HIDE DEF s
    <2>4. \A c \in Inside(s) : g.hdr[c] = h.hdr[c]
      BY <1>11, <2>1, <2>2
    <2>5. s.at # r.at
      BY <1>6, <2>2, <2>3
    <2>6. g.first[s.at] = h.first[s.at]
      BY <1>2, <1>4, <2>1, <2>5
    <2>7. InPlace(g, s) /\ Headers(g, s) = Headers(h, s)
      BY <1>11, <2>1, <2>4, <2>6, SameRegion
    <2> QED
      BY <2>7 DEF s
  <1>15. Sound(g)
    <2>1. \A i \in DOMAIN g.regions : InPlace(g, g.regions[i])
      BY <1>3, <1>10, <1>14
    <2> QED
      BY <2>1 DEF Sound, InPlace
  <1>16. Covered(g)
    <2> SUFFICES ASSUME NEW c \in Cells, g.hdr[c].magic # "none"
                 PROVE  \E i \in DOMAIN g.regions : c \in Headers(g, g.regions[i])
      BY DEF Covered
    <2>1. CASE c = b
      BY <1>3, <1>10, <2>1
    <2>2. CASE c # b
      <3>1. PICK k \in DOMAIN h.regions : c \in Headers(h, h.regions[k])
        BY <1>1, <1>11, <2>2 DEF Covered
      <3>2. c \in Headers(g, h.regions[k])
        BY <1>14, <3>1
      <3> QED
        BY <1>3, <3>2
    <2> QED
      BY <2>1, <2>2
  <1>17. Good(g)
    BY <1>12, <1>13, <1>15, <1>16 DEF Good
  <1>18. \A c \in Cells : g.hdr[c].magic = "alloc" <=> h.hdr[c].magic = "alloc"
    BY <1>11
  <1>19. \A p : p \in Pointers(g) <=> p \in Pointers(h)
    BY <1>18, PointersAre
  <1>20. ASSUME NEW p \in Pointers(h) PROVE g.hdr[p - 1].size = h.hdr[p - 1].size
    <2>1. p - 1 \in Cells /\ h.hdr[p - 1].magic = "alloc"
      BY PointersAre
    <2> QED
      BY <1>11, <2>1
  <1>21. Pointers(g) = Pointers(h)
    BY <1>19
  <1> QED
    BY <1>17, <1>20, <1>21

LEMMA InitGood ==
  ASSUME NEW h, Good(h), NEW area, Clear(h, area)
  PROVE  LET g == InitRegion(h, area) IN
         /\ Good(g) /\ Pointers(g) = Pointers(h)
         /\ \A p \in Pointers(h) : g.hdr[p - 1].size = h.hdr[p - 1].size
         /\ \A i \in DOMAIN g.regions :
                \/ SpanOf(g.regions[i]) = AreaCells(area)
                \/ \E k \in DOMAIN h.regions : g.regions[i] = h.regions[k]
  <1> DEFINE g == InitRegion(h, area)
  <1>1. CASE SizeLeft(area) < Align
    <2>1. g = h
      BY <1>1 DEF InitRegion
    <2> QED
      BY <2>1
  <1>2. CASE ~(SizeLeft(area) < Align)
    <2>1. PICK r, hd : /\ r = [at |-> HeaderCell(area), size |-> SizeLeft(area) \div Align]
                       /\ NewRegion(h, g, r, hd)
      BY <1>2, InitIs
    <2>2. area \in [addr : Nat, size : Nat]
      BY DEF Clear
    <2>3. r \in RegionSet /\ AreaCells(area) = SpanOf(r)
      BY <1>2, <2>1, <2>2, AreaIs
    <2>4. /\ \A c \in SpanOf(r) : {c, c + 1} \subseteq Cells
          /\ \A j \in DOMAIN h.regions : SpanOf(r) \cap SpanOf(h.regions[j]) = {}
      BY <2>3 DEF Clear
    <2> HIDE DEF g
    <2>5. /\ Good(g) /\ Pointers(g) = Pointers(h)
          /\ \A p \in Pointers(h) : g.hdr[p - 1].size = h.hdr[p - 1].size
      BY <2>1, <2>3, <2>4, NewRegionGood
    <2>6. \A i \in DOMAIN g.regions :
              g.regions[i] = r \/ \E k \in DOMAIN h.regions : g.regions[i] = h.regions[k]
      BY <2>1, <2>3, <2>4, RegionsWith
    <2> QED
      BY <2>3, <2>5, <2>6 DEF g
  <1> QED
    BY <1>1, <1>2

-----------------------------------------------------------------------------
(* The cache and the heap together.                                        *)

\* The blocks that the cache has, with what it says they hold.
Shown(cs) == {<<cs[s].id, cs[s].value>> : s \in {s \in 1 .. Slots : cs[s].data # NULL}}

\* The blocks of the owners of O have kept their sizes.
Left(h, g, O) == \A p \in O : g.hdr[p - 1].size = h.hdr[p - 1].size

\* w is m but for cached blocks that have gone, and for locks.
Loses(m, w, O) ==
    MemOK(w, O) /\ Left(m.heap, w.heap, O) /\ Shown(w.cache) \subseteq Shown(m.cache)

LEMMA SlotsNat == Slots \in Nat \ {0} /\ IndexOf \in [Blocks -> 1 .. Slots] /\ None \notin Blocks
  BY DiskAssumption

LEMMA LosesSame ==
  ASSUME NEW m, NEW O, MemOK(m, O) PROVE Loses(m, m, O)
  BY DEF Loses, Left

LEMMA LosesMore ==
  ASSUME NEW m, NEW v, NEW w, NEW O, Loses(m, v, O), Loses(v, w, O)
  PROVE  Loses(m, w, O)
  <1>1. \A p \in O : w.heap.hdr[p - 1].size = m.heap.hdr[p - 1].size
    BY DEF Loses, Left
  <1>2. MemOK(w, O) /\ Shown(w.cache) \subseteq Shown(m.cache)
    BY DEF Loses
  <1> QED
    BY <1>1, <1>2 DEF Loses, Left

LEMMA ShownNone ==
  ASSUME NEW cs PROVE DataOf(cs) = {} <=> Shown(cs) = {}
  BY DEF DataOf, Shown

LEMMA ShownIs ==
  ASSUME NEW m, EntriesOK(m.cache), NEW b \in Blocks, NEW v
  PROVE  <<b, v>> \in Shown(m.cache) <=> Cached(m, b) /\ v = m.cache[IndexOf[b]].value
  <1>1. IndexOf[b] \in 1 .. Slots
    BY SlotsNat
  <1>2. ASSUME <<b, v>> \in Shown(m.cache)
        PROVE  Cached(m, b) /\ v = m.cache[IndexOf[b]].value
    <2>1. PICK s \in 1 .. Slots : m.cache[s].data # NULL /\ m.cache[s].id = b /\ m.cache[s].value = v
      BY <1>2 DEF Shown
    <2>2. IndexOf[b] = s
      BY <2>1 DEF EntriesOK
    <2> QED
      BY <2>1, <2>2 DEF Cached, Holds
  <1>3. ASSUME Cached(m, b), v = m.cache[IndexOf[b]].value
        PROVE  <<b, v>> \in Shown(m.cache)
    BY <1>1, <1>3 DEF Cached, Holds, Shown
  <1> QED
    BY <1>2, <1>3

\* What a cached block can be.
LEMMA ShownType ==
  ASSUME NEW cs, EntriesOK(cs), NEW e \in Shown(cs)
  PROVE  e[1] \in Blocks /\ e[2] \in {0, 1} /\ e = <<e[1], e[2]>>
  <1>1. PICK s \in 1 .. Slots : cs[s].data # NULL /\ e = <<cs[s].id, cs[s].value>>
    BY DEF Shown
  <1>2. cs[s] \in Entry /\ cs[s].id \in Blocks
    BY <1>1 DEF EntriesOK
  <1>3. cs[s].value \in {0, 1}
    BY <1>2 DEF Entry
  <1> QED
    BY <1>1, <1>2, <1>3

\* Locks come and go, and entries without data get and lose their ids.
LEMMA Relocked ==
  ASSUME NEW m, NEW O, MemOK(m, O), NEW cs, cs \in [1 .. Slots -> Entry],
         \A s \in 1 .. Slots : cs[s].data = m.cache[s].data,
         \A s \in 1 .. Slots : cs[s].data # NULL =>
             cs[s].id = m.cache[s].id /\ cs[s].value = m.cache[s].value /\ ~cs[s].lock
  PROVE  Loses(m, [heap |-> m.heap, cache |-> cs], O) /\ Shown(cs) = Shown(m.cache)
  <1> DEFINE w == [heap |-> m.heap, cache |-> cs]
  <1>1. w.heap = m.heap /\ w.cache = cs /\ w = [heap |-> w.heap, cache |-> w.cache]
    OBVIOUS
  <1>2. Good(m.heap) /\ EntriesOK(m.cache) /\ Pointers(m.heap) = O \cup DataOf(m.cache)
          /\ O \cap DataOf(m.cache) = {}
    BY DEF MemOK
  <1>3. EntriesOK(cs)
    BY <1>2 DEF EntriesOK
  <1>4. DataOf(cs) = DataOf(m.cache)
    BY DEF DataOf
  <1>5. Shown(cs) = Shown(m.cache)
    <2>1. \A s \in 1 .. Slots : cs[s].data # NULL <=> m.cache[s].data # NULL
      OBVIOUS
    <2>2. Shown(cs) \subseteq Shown(m.cache)
      BY DEF Shown
    <2>3. Shown(m.cache) \subseteq Shown(cs)
      BY <2>1 DEF Shown
    <2> QED
      BY <2>2, <2>3
  <1> HIDE DEF w
  <1>6. MemOK(w, O)
    BY <1>1, <1>2, <1>3, <1>4 DEF MemOK
  <1>7. Loses(m, w, O)
    BY <1>1, <1>5, <1>6 DEF Loses, Left
  <1> QED
    BY <1>5, <1>7 DEF w

LEMMA DroppedIs ==
  ASSUME NEW m, NEW O, MemOK(m, O), NEW s \in 1 .. Slots
  PROVE  /\ Loses(m, Dropped(m, s), O)
         /\ Dropped(m, s).cache[s].data = NULL
         /\ \A t \in 1 .. Slots : t # s => Dropped(m, s).cache[t] = m.cache[t]
  <1> DEFINE w == Dropped(m, s)
             d == m.cache[s].data
             cs == [m.cache EXCEPT ![s].data = NULL]
  <1>1. Good(m.heap) /\ EntriesOK(m.cache) /\ Pointers(m.heap) = O \cup DataOf(m.cache)
          /\ O \cap DataOf(m.cache) = {}
    BY DEF MemOK
  <1>2. CASE d = NULL
    <2>1. w = m
      BY <1>2 DEF Dropped
    <2> QED
      BY <1>2, <2>1, LosesSame
  <1>3. CASE d # NULL
    <2>1. w = [heap |-> Free(m.heap, d), cache |-> cs]
      BY <1>3 DEF Dropped
    <2> DEFINE g == Free(m.heap, d)
    <2>2. d \in DataOf(m.cache)
      BY <1>3 DEF DataOf
    <2>3. d \in Pointers(m.heap) /\ d \notin O
      BY <1>1, <2>2
    <2>4. TookBack(m.heap, g, d)
      BY <1>1, <2>3, FreeGood
    <2> HIDE DEF g, w
    <2>5. m.cache \in [1 .. Slots -> Entry]
      BY <1>1 DEF EntriesOK
    <2>6. /\ \A t \in 1 .. Slots : t # s => cs[t] = m.cache[t]
          /\ cs[s] = [m.cache[s] EXCEPT !.data = NULL] /\ m.cache[s] \in Entry
      BY <2>5
    <2>7. cs[s] \in Entry /\ cs[s].data = NULL
      BY <2>6 DEF Entry
    <2>8. cs \in [1 .. Slots -> Entry]
      BY <2>5, <2>7 DEF Entry
    <2> HIDE DEF cs
    <2>9. EntriesOK(cs)
      BY <1>1, <2>6, <2>7, <2>8, ZenonT(60) DEF EntriesOK
    <2>10. DataOf(cs) = DataOf(m.cache) \ {d}
      <3>1. \A t \in 1 .. Slots : t # s => m.cache[t].data # d
        BY <1>1, <1>3 DEF EntriesOK
      <3>2. ASSUME NEW x PROVE x \in DataOf(cs) <=> x \in DataOf(m.cache) /\ x # d
        <4>1. x \in DataOf(cs) <=> x # NULL /\ \E t \in 1 .. Slots : cs[t].data = x
          BY DEF DataOf
        <4>2. x \in DataOf(m.cache) <=> x # NULL /\ \E t \in 1 .. Slots : m.cache[t].data = x
          BY DEF DataOf
        <4> HIDE DEF d
        <4>3. m.cache[s].data = d
          BY DEF d
        <4> QED
          BY <2>6, <2>7, <3>1, <4>1, <4>2, <4>3
      <3> QED
        BY <3>2
    <2>11. Shown(cs) \subseteq Shown(m.cache)
      BY <2>6, <2>7 DEF Shown
    <2>12. w.heap = g /\ w.cache = cs /\ w = [heap |-> w.heap, cache |-> w.cache]
      BY <2>1 DEF g
    <2>13. Good(g) /\ Pointers(g) = Pointers(m.heap) \ {d}
             /\ \A p \in Pointers(g) : g.hdr[p - 1].size = m.heap.hdr[p - 1].size
      BY <2>4 DEF TookBack
    <2>14. Pointers(g) = O \cup DataOf(cs) /\ O \cap DataOf(cs) = {}
      BY <1>1, <2>3, <2>10, <2>13
    <2>15. MemOK(w, O)
      BY <2>9, <2>12, <2>13, <2>14 DEF MemOK
    <2>16. Left(m.heap, g, O)
      BY <2>13, <2>14 DEF Left
    <2>17. Loses(m, w, O)
      BY <2>11, <2>12, <2>15, <2>16 DEF Loses
    <2> QED
      BY <2>6, <2>7, <2>12, <2>17 DEF w
  <1> QED
    BY <1>2, <1>3

\* One step of grub_disk_cache_invalidate_all.
DropUnlocked(m, s) == IF m.cache[s].lock THEN m ELSE Dropped(m, s)

LEMMA DropUnlockedIs ==
  ASSUME NEW m, NEW O, MemOK(m, O), NEW s \in 1 .. Slots
  PROVE  /\ Loses(m, DropUnlocked(m, s), O)
         /\ DropUnlocked(m, s).cache[s].data = NULL
         /\ \A t \in 1 .. Slots : t # s => DropUnlocked(m, s).cache[t] = m.cache[t]
  <1>1. CASE m.cache[s].lock
    <2>1. DropUnlocked(m, s) = m
      BY <1>1 DEF DropUnlocked
    <2>2. m.cache[s].data = NULL
      BY <1>1 DEF MemOK, EntriesOK
    <2> QED
      BY <2>1, <2>2, LosesSame
  <1>2. CASE ~m.cache[s].lock
    <2>1. DropUnlocked(m, s) = Dropped(m, s)
      BY <1>2 DEF DropUnlocked
    <2> QED
      BY <2>1, DroppedIs
  <1> QED
    BY <1>1, <1>2

LEMMA DropsExist ==
  ASSUME NEW m, NEW n \in Nat
  PROVE  \E g : g = [s \in 0 .. n |-> IF s = 0 THEN m ELSE DropUnlocked(g[s - 1], s)]
  <1> DEFINE S == {k \in Nat : \E g : g = [s \in 0 .. k |->
                       IF s = 0 THEN m ELSE DropUnlocked(g[s - 1], s)]}
  <1>1. 0 \in S
    <2> DEFINE g == [s \in 0 .. 0 |-> m]
    <2>1. g = [s \in 0 .. 0 |-> IF s = 0 THEN m ELSE DropUnlocked(g[s - 1], s)]
      OBVIOUS
    <2> QED
      BY <2>1
  <1>2. ASSUME NEW k \in Nat, k \in S PROVE k + 1 \in S
    <2>1. PICK g : g = [s \in 0 .. k |-> IF s = 0 THEN m ELSE DropUnlocked(g[s - 1], s)]
      BY <1>2
    <2> DEFINE f == [s \in 0 .. k + 1 |-> IF s <= k THEN g[s] ELSE DropUnlocked(g[k], s)]
    <2>2. ASSUME NEW s \in 0 .. k + 1
          PROVE  f[s] = IF s = 0 THEN m ELSE DropUnlocked(f[s - 1], s)
      <3>1. CASE s = 0
        BY <2>1, <3>1
      <3>2. CASE s # 0 /\ s <= k
        <4>1. s \in 0 .. k /\ s - 1 \in 0 .. k /\ s - 1 <= k /\ s - 1 \in 0 .. k + 1
          BY <3>2
        <4>2. g[s] = DropUnlocked(g[s - 1], s)
          BY <2>1, <3>2, <4>1
        <4> QED
          BY <3>2, <4>1, <4>2
      <3>3. CASE s = k + 1
        <4>1. s # 0 /\ s - 1 = k /\ ~(s <= k) /\ k \in 0 .. k + 1 /\ k <= k
          BY <3>3
        <4>2. f[k] = g[k]
          BY <4>1
        <4> QED
          BY <4>1, <4>2
      <3> QED
        BY <3>1, <3>2, <3>3
    <2>3. f = [s \in 0 .. k + 1 |-> IF s = 0 THEN m ELSE DropUnlocked(f[s - 1], s)]
      BY <2>2
    <2> HIDE DEF f
    <2> QED
      BY <2>3
  <1> HIDE DEF S
  <1>3. n \in S
    BY <1>1, <1>2, NatInd
  <1> QED
    BY <1>3 DEF S

LEMMA InvalidateAllIs ==
  ASSUME NEW m, NEW O, MemOK(m, O)
  PROVE  Loses(m, InvalidateAll(m), O) /\ DataOf(InvalidateAll(m).cache) = {}
  <1> DEFINE f == CHOOSE g : g = [s \in 0 .. Slots |->
                       IF s = 0 THEN m ELSE DropUnlocked(g[s - 1], s)]
  <1>1. f = [s \in 0 .. Slots |-> IF s = 0 THEN m ELSE DropUnlocked(f[s - 1], s)]
    BY SlotsNat, DropsExist
  <1>2. InvalidateAll(m) = f[Slots]
    BY DEF InvalidateAll, DropUnlocked
  <1> HIDE DEF f
  <1> DEFINE S == {k \in Nat : k <= Slots =>
                     /\ Loses(m, f[k], O)
                     /\ \A t \in 1 .. k : f[k].cache[t].data = NULL}
  <1>3. 0 \in S
    <2>1. f[0] = m
      BY <1>1, SlotsNat
    <2> QED
      BY <2>1, LosesSame
  <1>4. ASSUME NEW k \in Nat, k \in S PROVE k + 1 \in S
    <2> SUFFICES ASSUME k + 1 <= Slots
                 PROVE  /\ Loses(m, f[k + 1], O)
                        /\ \A t \in 1 .. k + 1 : f[k + 1].cache[t].data = NULL
      OBVIOUS
    <2> DEFINE v == f[k]
    <2>1. f[k + 1] = DropUnlocked(v, k + 1) /\ k + 1 \in 1 .. Slots
          /\ \A t \in 1 .. k + 1 : t \in 1 .. Slots /\ (t = k + 1 \/ t \in 1 .. k)
      BY <1>1, SlotsNat
    <2>2. Loses(m, v, O) /\ \A t \in 1 .. k : v.cache[t].data = NULL
      BY <1>4, SlotsNat
    <2> HIDE DEF v
    <2>3. MemOK(v, O)
      BY <2>2 DEF Loses
    <2>4. /\ Loses(v, DropUnlocked(v, k + 1), O)
          /\ DropUnlocked(v, k + 1).cache[k + 1].data = NULL
          /\ \A t \in 1 .. Slots : t # k + 1 => DropUnlocked(v, k + 1).cache[t] = v.cache[t]
      BY <2>1, <2>3, DropUnlockedIs
    <2>5. Loses(m, DropUnlocked(v, k + 1), O)
      BY <2>2, <2>4, LosesMore
    <2>6. ASSUME NEW t \in 1 .. k + 1 PROVE DropUnlocked(v, k + 1).cache[t].data = NULL
      BY <2>1, <2>2, <2>4
    <2> QED
      BY <2>1, <2>5, <2>6
  <1> HIDE DEF S
  <1>5. Slots \in S
    BY <1>3, <1>4, SlotsNat, NatInd
  <1> QED
    BY <1>2, <1>5, SlotsNat DEF S, DataOf

\* The owner of new.ptr has come, with n cells there.
Gained(m, new, O, n, align) ==
    /\ new.ptr \in Cells /\ new.ptr # NULL /\ new.ptr \notin O
    /\ MemOK(new.memory, O \cup {new.ptr}) /\ Left(m.heap, new.memory.heap, O)
    /\ Shown(new.memory.cache) \subseteq Shown(m.cache)
    /\ new.memory.heap.hdr[new.ptr - 1].size = n /\ new.ptr % align = 0

\* There is no room, not even without the cache.
Exhausted(m, new, O, n, align) ==
    /\ new.ptr = NULL /\ Loses(m, new.memory, O)
    /\ DataOf(new.memory.cache) = {} /\ ~Room(new.memory.heap, n, align)

LEMMA FromRegionsIs ==
  ASSUME NEW m, NEW O, MemOK(m, O), NEW n \in Nat \ {0}, NEW align \in Nat \ {0}
  PROVE  LET new == FromRegions(m, n, align) IN
         /\ new = [memory |-> new.memory, ptr |-> new.ptr]
         /\ \/ new.ptr = NULL /\ new.memory = m /\ ~Room(m.heap, n, align)
            \/ Gained(m, new, O, n, align)
  <1> DEFINE r == RealMalloc(m.heap, n, align)
             new == FromRegions(m, n, align)
             w == [m EXCEPT !.heap = r.heap]
  <1>1. /\ m = [heap |-> m.heap, cache |-> m.cache]
        /\ Good(m.heap) /\ EntriesOK(m.cache) /\ Pointers(m.heap) = O \cup DataOf(m.cache)
        /\ O \cap DataOf(m.cache) = {}
    BY DEF MemOK
  <1>2. \/ r = [heap |-> m.heap, ptr |-> NULL] /\ ~Room(m.heap, n, align)
        \/ GaveOut(m.heap, r, n, align)
    BY <1>1, RealMallocIs
  <1>3. new = [memory |-> w, ptr |-> r.ptr]
    BY DEF FromRegions, OnHeap
  <1>4. w = [heap |-> r.heap, cache |-> m.cache]
    BY <1>1
  <1> HIDE DEF r, new, w
  <1>5. new.memory = w /\ new.ptr = r.ptr /\ w.heap = r.heap /\ w.cache = m.cache
          /\ new = [memory |-> new.memory, ptr |-> new.ptr]
          /\ w = [heap |-> w.heap, cache |-> w.cache]
    BY <1>3, <1>4
  <1>6. CASE r = [heap |-> m.heap, ptr |-> NULL] /\ ~Room(m.heap, n, align)
    <2>1. r.heap = m.heap /\ r.ptr = NULL
      BY <1>6
    <2>2. w = m
      BY <1>1, <1>4, <2>1
    <2> QED
      BY <1>5, <1>6, <2>1, <2>2 DEF new
  <1>7. CASE GaveOut(m.heap, r, n, align)
    <2>1. /\ Good(r.heap)
          /\ r.ptr \in Cells /\ r.ptr # NULL /\ r.ptr \notin Pointers(m.heap)
          /\ Pointers(r.heap) = Pointers(m.heap) \cup {r.ptr}
          /\ \A p \in Pointers(m.heap) : r.heap.hdr[p - 1].size = m.heap.hdr[p - 1].size
          /\ r.heap.hdr[r.ptr - 1].size = n /\ r.ptr % align = 0
      BY <1>7 DEF GaveOut
    <2>2. r.ptr \notin O /\ r.ptr \notin DataOf(m.cache)
      BY <1>1, <2>1
    <2>3. Pointers(r.heap) = (O \cup {r.ptr}) \cup DataOf(m.cache)
            /\ (O \cup {r.ptr}) \cap DataOf(m.cache) = {}
      BY <1>1, <2>1, <2>2
    <2>4. MemOK(w, O \cup {r.ptr})
      BY <1>1, <1>5, <2>1, <2>3 DEF MemOK
    <2>5. Left(m.heap, r.heap, O)
      BY <1>1, <2>1 DEF Left
    <2>6. Gained(m, new, O, n, align)
      BY <1>5, <2>1, <2>2, <2>4, <2>5 DEF Gained
    <2> QED
      BY <1>5, <2>6 DEF new
  <1> QED
    BY <1>2, <1>6, <1>7

LEMMA GainedMore ==
  ASSUME NEW m, NEW v, NEW new, NEW O, NEW n, NEW align, Loses(m, v, O),
         Gained(v, new, O, n, align)
  PROVE  Gained(m, new, O, n, align)
  <1>1. Left(m.heap, new.memory.heap, O)
    BY DEF Loses, Gained, Left
  <1> QED
    BY <1>1 DEF Loses, Gained

LEMMA MemalignIs ==
  ASSUME NEW m, NEW O, MemOK(m, O), NEW n \in Nat \ {0}, NEW align \in Nat \ {0}
  PROVE  LET new == Memalign(m, n, align) IN
         /\ new = [memory |-> new.memory, ptr |-> new.ptr]
         /\ Exhausted(m, new, O, n, align) \/ Gained(m, new, O, n, align)
  <1> DEFINE new == FromRegions(m, n, align)
             v == InvalidateAll(m)
             rest == FromRegions(v, n, align)
             it == Memalign(m, n, align)
  <1>1. /\ new = [memory |-> new.memory, ptr |-> new.ptr]
        /\ new.ptr = NULL \/ Gained(m, new, O, n, align)
    BY FromRegionsIs
  <1>2. Loses(m, v, O) /\ DataOf(v.cache) = {} /\ MemOK(v, O)
    BY InvalidateAllIs DEF Loses
  <1>3. /\ rest = [memory |-> rest.memory, ptr |-> rest.ptr]
        /\ \/ rest.ptr = NULL /\ rest.memory = v /\ ~Room(v.heap, n, align)
           \/ Gained(v, rest, O, n, align)
    <2> HIDE DEF v
    <2> QED
      BY <1>2, FromRegionsIs
  <1>4. it = IF new.ptr # NULL THEN new ELSE rest
    BY DEF Memalign
  <1> HIDE DEF it, new, rest, v
  <1>5. CASE new.ptr # NULL
    <2>1. it = new
      BY <1>4, <1>5
    <2> QED
      BY <1>1, <1>5, <2>1 DEF it
  <1>6. CASE new.ptr = NULL
    <2>1. it = rest
      BY <1>4, <1>6
    <2>2. CASE rest.ptr = NULL /\ rest.memory = v /\ ~Room(v.heap, n, align)
      <3>1. Exhausted(m, rest, O, n, align)
        BY <1>2, <2>2 DEF Exhausted
      <3> QED
        BY <1>3, <2>1, <3>1 DEF it
    <2>3. CASE Gained(v, rest, O, n, align)
      <3>1. Gained(m, rest, O, n, align)
        BY <1>2, <2>3, GainedMore
      <3> QED
        BY <1>3, <2>1, <3>1 DEF it
    <2> QED
      BY <1>3, <2>2, <2>3
  <1> QED
    BY <1>5, <1>6

\* An owner gives its block back.
LEMMA GivenBack ==
  ASSUME NEW m, NEW O, MemOK(m, O), NEW p \in O
  PROVE  LET w == [m EXCEPT !.heap = Free(@, p)] IN
         MemOK(w, O \ {p}) /\ Left(m.heap, w.heap, O \ {p}) /\ w.cache = m.cache
  <1> DEFINE w == [m EXCEPT !.heap = Free(@, p)]
             g == Free(m.heap, p)
  <1>1. /\ m = [heap |-> m.heap, cache |-> m.cache]
        /\ Good(m.heap) /\ EntriesOK(m.cache) /\ Pointers(m.heap) = O \cup DataOf(m.cache)
        /\ O \cap DataOf(m.cache) = {}
    BY DEF MemOK
  <1>2. w = [heap |-> g, cache |-> m.cache]
    BY <1>1
  <1>3. p \in Pointers(m.heap) /\ p \notin DataOf(m.cache)
    BY <1>1
  <1>4. TookBack(m.heap, g, p)
    BY <1>1, <1>3, FreeGood
  <1> HIDE DEF g, w
  <1>5. w.heap = g /\ w.cache = m.cache /\ w = [heap |-> w.heap, cache |-> w.cache]
    BY <1>2
  <1>6. Good(g) /\ Pointers(g) = Pointers(m.heap) \ {p}
          /\ \A q \in Pointers(g) : g.hdr[q - 1].size = m.heap.hdr[q - 1].size
    BY <1>4 DEF TookBack
  <1>7. Pointers(g) = (O \ {p}) \cup DataOf(m.cache) /\ (O \ {p}) \cap DataOf(m.cache) = {}
    BY <1>1, <1>3, <1>6
  <1>8. MemOK(w, O \ {p})
    BY <1>1, <1>5, <1>6, <1>7 DEF MemOK
  <1>9. Left(m.heap, g, O \ {p})
    BY <1>6, <1>7 DEF Left
  <1> QED
    BY <1>5, <1>8, <1>9 DEF w

LEMMA FetchedIs ==
  ASSUME NEW m, NEW O, MemOK(m, O), NEW b \in Blocks
  PROVE  Loses(m, Fetched(m, b), O) /\ Shown(Fetched(m, b).cache) = Shown(m.cache)
  <1> DEFINE s == IndexOf[b]
             k == ~Cached(m, b)
             cs == [m.cache EXCEPT ![s].lock = k]
  <1>1. m = [heap |-> m.heap, cache |-> m.cache] /\ EntriesOK(m.cache)
          /\ m.cache \in [1 .. Slots -> Entry] /\ s \in 1 .. Slots
    BY SlotsNat DEF MemOK, EntriesOK
  <1>2. CASE ~Holds(m, b)
    <2>1. Fetched(m, b) = m
      BY <1>2 DEF Fetched
    <2> QED
      BY <2>1, LosesSame
  <1>3. CASE Holds(m, b)
    <2>1. Fetched(m, b) = [heap |-> m.heap, cache |-> cs]
      <3>1. Fetched(m, b) = [m EXCEPT !.cache[s].lock = k]
        BY <1>3 DEF Fetched
      <3> HIDE DEF k, s
      <3> QED
        BY <1>1, <3>1
    <2>2. k \in BOOLEAN /\ (m.cache[s].data # NULL => ~k)
      BY <1>3 DEF Cached
    <2> HIDE DEF k, s
    <2>3. /\ \A t \in 1 .. Slots : t # s => cs[t] = m.cache[t]
          /\ cs[s] = [m.cache[s] EXCEPT !.lock = k] /\ m.cache[s] \in Entry
      BY <1>1
    <2>4. /\ cs[s].id = m.cache[s].id /\ cs[s].data = m.cache[s].data
          /\ cs[s].value = m.cache[s].value /\ cs[s].lock = k /\ cs[s] \in Entry
      BY <2>2, <2>3 DEF Entry
    <2>5. cs \in [1 .. Slots -> Entry]
      BY <1>1, <2>4
    <2> HIDE DEF cs
    <2>6. \A t \in 1 .. Slots : cs[t].data = m.cache[t].data
      BY <2>3, <2>4
    <2>7. \A t \in 1 .. Slots : cs[t].data # NULL =>
              cs[t].id = m.cache[t].id /\ cs[t].value = m.cache[t].value /\ ~cs[t].lock
      BY <1>1, <2>2, <2>3, <2>4 DEF EntriesOK
    <2>8. Loses(m, [heap |-> m.heap, cache |-> cs], O) /\ Shown(cs) = Shown(m.cache)
      BY <2>5, <2>6, <2>7, Relocked
    <2> QED
      BY <2>1, <2>8
  <1> QED
    BY <1>2, <1>3

\* An entry is cleared and unlocked.
Cleared(m, s) == [Dropped(m, s) EXCEPT !.cache[s].lock = FALSE]

LEMMA ClearedIs ==
  ASSUME NEW m, NEW O, MemOK(m, O), NEW s \in 1 .. Slots
  PROVE  Loses(m, Cleared(m, s), O) /\ Cleared(m, s).cache[s].data = NULL
  <1> DEFINE d == Dropped(m, s)
             cs == [d.cache EXCEPT ![s].lock = FALSE]
             w == Cleared(m, s)
  <1>1. w = [d EXCEPT !.cache[s].lock = FALSE]
    BY DEF Cleared
  <1>2. Loses(m, d, O) /\ d.cache[s].data = NULL
    BY DroppedIs
  <1> HIDE DEF d, w
  <1>3. MemOK(d, O) /\ d = [heap |-> d.heap, cache |-> d.cache] /\ EntriesOK(d.cache)
          /\ d.cache \in [1 .. Slots -> Entry]
    BY <1>2 DEF Loses, MemOK, EntriesOK
  <1>4. w = [heap |-> d.heap, cache |-> cs]
    BY <1>1, <1>3
  <1>5. /\ \A t \in 1 .. Slots : t # s => cs[t] = d.cache[t]
        /\ cs[s] = [d.cache[s] EXCEPT !.lock = FALSE] /\ d.cache[s] \in Entry
    BY <1>3
  <1>6. cs[s].data = NULL /\ cs[s] \in Entry
    <2> DEFINE e == d.cache[s]
    <2>1. cs[s] = [e EXCEPT !.lock = FALSE] /\ e \in Entry /\ e.data = NULL
      BY <1>2, <1>5
    <2> HIDE DEF e
    <2>2. cs[s].data = NULL
      BY <2>1 DEF Entry
    <2>3. cs[s] \in Entry
      BY <2>1, ZenonT(60) DEF Entry
    <2> QED
      BY <2>2, <2>3
  <1>7. cs \in [1 .. Slots -> Entry]
    BY <1>3, <1>6
  <1> HIDE DEF cs
  <1>8. \A t \in 1 .. Slots : cs[t].data = d.cache[t].data
    BY <1>2, <1>5, <1>6
  <1>9. \A t \in 1 .. Slots : cs[t].data # NULL =>
            cs[t].id = d.cache[t].id /\ cs[t].value = d.cache[t].value /\ ~cs[t].lock
    BY <1>3, <1>5, <1>6 DEF EntriesOK
  <1>10. Loses(d, w, O)
    BY <1>3, <1>4, <1>7, <1>8, <1>9, Relocked
  <1> QED
    BY <1>2, <1>4, <1>6, <1>10, LosesMore DEF w

LEMMA InvalidateIs ==
  ASSUME NEW m, NEW O, MemOK(m, O), NEW b \in Blocks
  PROVE  Loses(m, Invalidate(m, b), O) /\ \A v : <<b, v>> \notin Shown(Invalidate(m, b).cache)
  <1> DEFINE s == IndexOf[b]
             w == Invalidate(m, b)
  <1>1. EntriesOK(m.cache) /\ s \in 1 .. Slots
    BY SlotsNat DEF MemOK
  <1>2. CASE ~Cached(m, b)
    <2>1. w = m
      BY <1>2 DEF Invalidate
    <2>2. \A v : <<b, v>> \notin Shown(m.cache)
      BY <1>1, <1>2, ShownIs
    <2> QED
      BY <2>1, <2>2, LosesSame
  <1>3. CASE Cached(m, b)
    <2>1. w = Cleared(m, s)
      BY <1>3 DEF Invalidate, Cleared
    <2> HIDE DEF s, w
    <2>2. Loses(m, w, O) /\ w.cache[s].data = NULL
      BY <1>1, <2>1, ClearedIs
    <2>3. EntriesOK(w.cache) /\ ~Cached(w, b)
      BY <2>2 DEF Loses, MemOK, Cached, s
    <2>4. \A v : <<b, v>> \notin Shown(w.cache)
      BY <2>3, ShownIs
    <2> QED
      BY <2>2, <2>4 DEF w
  <1> QED
    BY <1>2, <1>3

FetchesTo(g, m, bs, n) ==
    g = [s \in 0 .. n |-> IF s = 0 THEN m ELSE Fetched(g[s - 1], bs[s])]

LEMMA FetchesExist ==
  ASSUME NEW m, NEW bs, NEW n \in Nat
  PROVE  \E g : FetchesTo(g, m, bs, n)
  <1> DEFINE S == {k \in Nat : \E g : g = [s \in 0 .. k |->
                       IF s = 0 THEN m ELSE Fetched(g[s - 1], bs[s])]}
  <1>1. 0 \in S
    <2> DEFINE g == [s \in 0 .. 0 |-> m]
    <2>1. g = [s \in 0 .. 0 |-> IF s = 0 THEN m ELSE Fetched(g[s - 1], bs[s])]
      OBVIOUS
    <2> QED
      BY <2>1
  <1>2. ASSUME NEW k \in Nat, k \in S PROVE k + 1 \in S
    <2>1. PICK g : g = [s \in 0 .. k |-> IF s = 0 THEN m ELSE Fetched(g[s - 1], bs[s])]
      BY <1>2
    <2> DEFINE f == [s \in 0 .. k + 1 |-> IF s <= k THEN g[s] ELSE Fetched(g[k], bs[s])]
    <2>2. ASSUME NEW s \in 0 .. k + 1
          PROVE  f[s] = IF s = 0 THEN m ELSE Fetched(f[s - 1], bs[s])
      <3>1. CASE s = 0
        BY <2>1, <3>1
      <3>2. CASE s # 0 /\ s <= k
        <4>1. s \in 0 .. k /\ s - 1 \in 0 .. k /\ s - 1 <= k /\ s - 1 \in 0 .. k + 1
          BY <3>2
        <4>2. g[s] = Fetched(g[s - 1], bs[s])
          BY <2>1, <3>2, <4>1
        <4> QED
          BY <3>2, <4>1, <4>2
      <3>3. CASE s = k + 1
        <4>1. s # 0 /\ s - 1 = k /\ ~(s <= k) /\ k \in 0 .. k + 1 /\ k <= k
          BY <3>3
        <4>2. f[k] = g[k]
          BY <4>1
        <4> QED
          BY <4>1, <4>2
      <3> QED
        BY <3>1, <3>2, <3>3
    <2>3. f = [s \in 0 .. k + 1 |-> IF s = 0 THEN m ELSE Fetched(f[s - 1], bs[s])]
      BY <2>2
    <2> HIDE DEF f
    <2> QED
      BY <2>3
  <1> HIDE DEF S
  <1>3. n \in S
    BY <1>1, <1>2, NatInd
  <1> QED
    BY <1>3 DEF S, FetchesTo

LEMMA FetchedAllIs ==
  ASSUME NEW m, NEW O, MemOK(m, O), NEW bs \in Seq(Blocks)
  PROVE  Loses(m, FetchedAll(m, bs), O) /\ Shown(FetchedAll(m, bs).cache) = Shown(m.cache)
  <1> DEFINE n == Len(bs)
  <1>1. n \in Nat /\ \A i \in 1 .. n : bs[i] \in Blocks
    BY LenProperties, ElementOfSeq
  <1> HIDE DEF n
  <1>0. \E g : FetchesTo(g, m, bs, n)
    BY <1>1, FetchesExist
  <1> DEFINE f == CHOOSE g : g = [s \in 0 .. n |-> IF s = 0 THEN m ELSE Fetched(g[s - 1], bs[s])]
  <1>2. f = [s \in 0 .. n |-> IF s = 0 THEN m ELSE Fetched(f[s - 1], bs[s])]
    BY <1>0 DEF FetchesTo
  <1>3. FetchedAll(m, bs) = f[n]
    BY DEF FetchedAll, n
  <1> HIDE DEF f
  <1> DEFINE S == {k \in Nat : k <= n => Loses(m, f[k], O) /\ Shown(f[k].cache) = Shown(m.cache)}
  <1>4. 0 \in S
    <2>1. f[0] = m
      BY <1>1, <1>2
    <2> QED
      BY <2>1, LosesSame
  <1>5. ASSUME NEW k \in Nat, k \in S PROVE k + 1 \in S
    <2> SUFFICES ASSUME k + 1 <= n
                 PROVE  Loses(m, f[k + 1], O) /\ Shown(f[k + 1].cache) = Shown(m.cache)
      OBVIOUS
    <2> DEFINE v == f[k]
    <2>1. f[k + 1] = Fetched(v, bs[k + 1]) /\ k + 1 \in 1 .. n
      BY <1>1, <1>2
    <2>2. Loses(m, v, O) /\ Shown(v.cache) = Shown(m.cache)
      BY <1>1, <1>5
    <2> HIDE DEF v
    <2>3. MemOK(v, O)
      BY <2>2 DEF Loses
    <2>4. /\ Loses(v, Fetched(v, bs[k + 1]), O)
          /\ Shown(Fetched(v, bs[k + 1]).cache) = Shown(v.cache)
      BY <1>1, <2>1, <2>3, FetchedIs
    <2> QED
      BY <2>1, <2>2, <2>4, LosesMore
  <1> HIDE DEF S
  <1>6. n \in S
    BY <1>1, <1>4, <1>5, NatInd
  <1> QED
    BY <1>1, <1>3, <1>6 DEF S

InvalidatesTo(g, m, bs, n) ==
    g = [s \in 0 .. n |-> IF s = 0 THEN m ELSE Invalidate(g[s - 1], bs[s])]

LEMMA InvalidatesExist ==
  ASSUME NEW m, NEW bs, NEW n \in Nat
  PROVE  \E g : InvalidatesTo(g, m, bs, n)
  <1> DEFINE S == {k \in Nat : \E g : g = [s \in 0 .. k |->
                       IF s = 0 THEN m ELSE Invalidate(g[s - 1], bs[s])]}
  <1>1. 0 \in S
    <2> DEFINE g == [s \in 0 .. 0 |-> m]
    <2>1. g = [s \in 0 .. 0 |-> IF s = 0 THEN m ELSE Invalidate(g[s - 1], bs[s])]
      OBVIOUS
    <2> QED
      BY <2>1
  <1>2. ASSUME NEW k \in Nat, k \in S PROVE k + 1 \in S
    <2>1. PICK g : g = [s \in 0 .. k |-> IF s = 0 THEN m ELSE Invalidate(g[s - 1], bs[s])]
      BY <1>2
    <2> DEFINE f == [s \in 0 .. k + 1 |-> IF s <= k THEN g[s] ELSE Invalidate(g[k], bs[s])]
    <2>2. ASSUME NEW s \in 0 .. k + 1
          PROVE  f[s] = IF s = 0 THEN m ELSE Invalidate(f[s - 1], bs[s])
      <3>1. CASE s = 0
        BY <2>1, <3>1
      <3>2. CASE s # 0 /\ s <= k
        <4>1. s \in 0 .. k /\ s - 1 \in 0 .. k /\ s - 1 <= k /\ s - 1 \in 0 .. k + 1
          BY <3>2
        <4>2. g[s] = Invalidate(g[s - 1], bs[s])
          BY <2>1, <3>2, <4>1
        <4> QED
          BY <3>2, <4>1, <4>2
      <3>3. CASE s = k + 1
        <4>1. s # 0 /\ s - 1 = k /\ ~(s <= k) /\ k \in 0 .. k + 1 /\ k <= k
          BY <3>3
        <4>2. f[k] = g[k]
          BY <4>1
        <4> QED
          BY <4>1, <4>2
      <3> QED
        BY <3>1, <3>2, <3>3
    <2>3. f = [s \in 0 .. k + 1 |-> IF s = 0 THEN m ELSE Invalidate(f[s - 1], bs[s])]
      BY <2>2
    <2> HIDE DEF f
    <2> QED
      BY <2>3
  <1> HIDE DEF S
  <1>3. n \in S
    BY <1>1, <1>2, NatInd
  <1> QED
    BY <1>3 DEF S, InvalidatesTo

LEMMA InvalidatedAllIs ==
  ASSUME NEW m, NEW O, MemOK(m, O), NEW bs \in Seq(Blocks)
  PROVE  /\ Loses(m, InvalidatedAll(m, bs), O)
         /\ \A e \in Shown(InvalidatedAll(m, bs).cache) : e[1] \notin ToSet(bs)
  <1> DEFINE n == Len(bs)
  <1>1. n \in Nat /\ DOMAIN bs = 1 .. n /\ \A i \in 1 .. n : bs[i] \in Blocks
    BY LenProperties, ElementOfSeq
  <1> HIDE DEF n
  <1>0. \E g : InvalidatesTo(g, m, bs, n)
    BY <1>1, InvalidatesExist
  <1> DEFINE f == CHOOSE g : g = [s \in 0 .. n |-> IF s = 0 THEN m ELSE Invalidate(g[s - 1], bs[s])]
  <1>2. f = [s \in 0 .. n |-> IF s = 0 THEN m ELSE Invalidate(f[s - 1], bs[s])]
    BY <1>0 DEF InvalidatesTo
  <1>3. InvalidatedAll(m, bs) = f[n]
    BY DEF InvalidatedAll, n
  <1> HIDE DEF f
  <1> DEFINE S == {k \in Nat : k <= n =>
                     /\ Loses(m, f[k], O)
                     /\ \A e \in Shown(f[k].cache) : \A i \in 1 .. k : e[1] # bs[i]}
  <1>4. 0 \in S
    <2>1. f[0] = m
      BY <1>1, <1>2
    <2> QED
      BY <2>1, LosesSame
  <1>5. ASSUME NEW k \in Nat, k \in S PROVE k + 1 \in S
    <2> SUFFICES ASSUME k + 1 <= n
                 PROVE  /\ Loses(m, f[k + 1], O)
                        /\ \A e \in Shown(f[k + 1].cache) : \A i \in 1 .. k + 1 : e[1] # bs[i]
      OBVIOUS
    <2> DEFINE v == f[k]
               b == bs[k + 1]
               w == Invalidate(v, b)
    <2>1. f[k + 1] = w /\ k + 1 \in 1 .. n /\ b \in Blocks
      BY <1>1, <1>2
    <2>2. Loses(m, v, O) /\ \A e \in Shown(v.cache) : \A i \in 1 .. k : e[1] # bs[i]
      BY <1>1, <1>5
    <2> HIDE DEF v, b
    <2>3. MemOK(v, O)
      BY <2>2 DEF Loses
    <2>4. Loses(v, w, O) /\ \A x : <<b, x>> \notin Shown(w.cache)
      BY <2>1, <2>3, InvalidateIs
    <2> HIDE DEF w
    <2>5. Loses(m, w, O) /\ Shown(w.cache) \subseteq Shown(v.cache) /\ EntriesOK(w.cache)
      BY <2>2, <2>4, LosesMore DEF Loses, MemOK
    <2>6. ASSUME NEW e \in Shown(w.cache), NEW i \in 1 .. k + 1 PROVE e[1] # bs[i]
      <3>1. e = <<e[1], e[2]>>
        BY <2>5, ShownType
      <3>2. e[1] # b
        BY <2>4, <3>1
      <3>3. i = k + 1 \/ i \in 1 .. k
        OBVIOUS
      <3> QED
        BY <2>2, <2>5, <3>2, <3>3 DEF b
    <2> QED
      BY <2>1, <2>5, <2>6
  <1> HIDE DEF S
  <1>6. n \in S
    BY <1>1, <1>4, <1>5, NatInd
  <1>7. Loses(m, f[n], O) /\ \A e \in Shown(f[n].cache) : \A i \in 1 .. n : e[1] # bs[i]
    BY <1>1, <1>6 DEF S
  <1> QED
    BY <1>1, <1>3, <1>7 DEF ToSet

\* What a cache that only loses blocks has no data for.
LEMMA SlotStays ==
  ASSUME NEW cs, NEW ds, EntriesOK(cs), EntriesOK(ds), Shown(ds) \subseteq Shown(cs),
         NEW s \in 1 .. Slots, cs[s].data = NULL
  PROVE  ds[s].data = NULL
  <1> SUFFICES ASSUME ds[s].data # NULL PROVE FALSE
    OBVIOUS
  <1>1. <<ds[s].id, ds[s].value>> \in Shown(ds) /\ IndexOf[ds[s].id] = s
    BY DEF Shown, EntriesOK
  <1>2. PICK t \in 1 .. Slots : cs[t].data # NULL /\ cs[t].id = ds[s].id
    <2>1. <<ds[s].id, ds[s].value>> \in Shown(cs)
      BY <1>1
    <2> QED
      BY <2>1 DEF Shown
  <1>3. IndexOf[cs[t].id] = t
    BY <1>2 DEF EntriesOK
  <1> QED
    BY <1>1, <1>2, <1>3

\* Besides some that have gone, w has the blocks of X.
Enters(m, w, O, X) ==
    MemOK(w, O) /\ Left(m.heap, w.heap, O) /\ Shown(w.cache) \subseteq Shown(m.cache) \cup X

LEMMA EnteredIs ==
  ASSUME NEW m, NEW new, NEW O, NEW n, NEW align, EntriesOK(m.cache),
         Gained(m, new, O, n, align), NEW b \in Blocks, NEW v \in {0, 1},
         m.cache[IndexOf[b]].data = NULL
  PROVE  Enters(m, Entered(new, b, v).memory, O, {<<b, v>>})
  <1> DEFINE s == IndexOf[b]
             u == new.memory
             e == [id |-> b, data |-> new.ptr, lock |-> FALSE, value |-> v]
             cs == [u.cache EXCEPT ![s] = e]
             w == Entered(new, b, v).memory
  <1>1. /\ new.ptr \in Cells /\ new.ptr # NULL /\ new.ptr \notin O
        /\ MemOK(u, O \cup {new.ptr}) /\ Left(m.heap, u.heap, O)
        /\ Shown(u.cache) \subseteq Shown(m.cache)
    BY DEF Gained
  <1>2. /\ u = [heap |-> u.heap, cache |-> u.cache]
        /\ Good(u.heap) /\ EntriesOK(u.cache)
        /\ Pointers(u.heap) = (O \cup {new.ptr}) \cup DataOf(u.cache)
        /\ (O \cup {new.ptr}) \cap DataOf(u.cache) = {}
    BY <1>1 DEF MemOK
  <1>3. s \in 1 .. Slots
    BY SlotsNat
  <1>4. u.cache[s].data = NULL
    BY <1>1, <1>2, <1>3, SlotStays
  <1>5. w = [u EXCEPT !.cache[s] = e]
    BY <1>1 DEF Entered
  <1>6. e \in Entry /\ e.id = b /\ e.data = new.ptr /\ ~e.lock /\ e.value = v
    BY <1>1 DEF Entry
  <1> HIDE DEF e, u, w
  <1>7. w = [heap |-> u.heap, cache |-> cs]
    BY <1>2, <1>5
  <1>8. u.cache \in [1 .. Slots -> Entry]
    BY <1>2 DEF EntriesOK
  <1>9. /\ \A t \in 1 .. Slots : t # s => cs[t] = u.cache[t]
        /\ cs[s] = e /\ cs \in [1 .. Slots -> Entry]
    BY <1>3, <1>6, <1>8
  <1> HIDE DEF cs
  <1>10. \A t \in 1 .. Slots : u.cache[t].data # new.ptr
    BY <1>1, <1>2 DEF DataOf
  <1>11. EntriesOK(cs)
    <2>1. IndexOf[e.id] = s /\ e.id \in Blocks /\ ~e.lock /\ e.data = new.ptr
      BY <1>6 DEF s
    <2> HIDE DEF s
    <2>2. ASSUME NEW t \in 1 .. Slots, cs[t].data # NULL
          PROVE  /\ ~cs[t].lock
                 /\ cs[t].id \in Blocks /\ IndexOf[cs[t].id] = t
                 /\ \A r \in 1 .. Slots : cs[r].data = cs[t].data => r = t
      <3>1. CASE t = s
        BY <1>9, <1>10, <2>1, <3>1
      <3>2. CASE t # s
        <4>1. cs[t] = u.cache[t]
          BY <1>9, <3>2
        <4>2. /\ ~cs[t].lock
              /\ cs[t].id \in Blocks /\ IndexOf[cs[t].id] = t
              /\ \A r \in 1 .. Slots : u.cache[r].data = cs[t].data => r = t
          BY <1>2, <2>2, <4>1 DEF EntriesOK
        <4>3. cs[s].data # cs[t].data
          BY <1>9, <1>10, <2>1, <4>1
        <4> QED
          BY <1>9, <4>2, <4>3
      <3> QED
        BY <3>1, <3>2
    <2> QED
      BY <1>9, <2>2 DEF EntriesOK
  <1>12. DataOf(cs) = DataOf(u.cache) \cup {new.ptr}
    <2>1. ASSUME NEW x PROVE x \in DataOf(cs) <=> x \in DataOf(u.cache) \/ x = new.ptr
      <3>1. x \in DataOf(cs) <=> x # NULL /\ \E t \in 1 .. Slots : cs[t].data = x
        BY DEF DataOf
      <3>2. x \in DataOf(u.cache) <=> x # NULL /\ \E t \in 1 .. Slots : u.cache[t].data = x
        BY DEF DataOf
      <3> HIDE DEF s
      <3> QED
        BY <1>1, <1>3, <1>4, <1>6, <1>9, <3>1, <3>2
    <2> QED
      BY <2>1
  <1>13. Shown(cs) \subseteq Shown(u.cache) \cup {<<b, v>>}
    <2> HIDE DEF s
    <2>1. ASSUME NEW t \in 1 .. Slots, cs[t].data # NULL
          PROVE  <<cs[t].id, cs[t].value>> \in Shown(u.cache) \cup {<<b, v>>}
      BY <1>6, <1>9, <2>1 DEF Shown
    <2> QED
      BY <2>1 DEF Shown
  <1>14. w.heap = u.heap /\ w.cache = cs /\ w = [heap |-> w.heap, cache |-> w.cache]
    BY <1>7
  <1>15. Pointers(u.heap) = O \cup DataOf(cs) /\ O \cap DataOf(cs) = {}
    BY <1>1, <1>2, <1>12
  <1>16. MemOK(w, O)
    BY <1>2, <1>11, <1>14, <1>15 DEF MemOK
  <1>17. Left(m.heap, w.heap, O)
    BY <1>1, <1>14 DEF Left, u
  <1>18. Shown(w.cache) \subseteq Shown(m.cache) \cup {<<b, v>>}
    BY <1>1, <1>13, <1>14
  <1> QED
    BY <1>16, <1>17, <1>18 DEF Enters, w

LEMMA StoreIs ==
  ASSUME NEW m, NEW O, MemOK(m, O), NEW b \in Blocks, NEW v \in {0, 1}
  PROVE  Enters(m, Store(m, b, v).memory, O, {<<b, v>>}) /\ Store(m, b, v).failed \in BOOLEAN
  <1> DEFINE s == IndexOf[b]
             c == Cleared(m, s)
             new == Memalign(c, UnitCells, 1)
             it == Store(m, b, v)
  <1>1. it = Entered(new, b, v)
    BY DEF Store, Cleared
  <1>2. s \in 1 .. Slots /\ UnitCells \in Nat \ {0}
    BY SlotsNat, CallAssumption
  <1>3. Loses(m, c, O) /\ c.cache[s].data = NULL
    BY <1>2, ClearedIs
  <1> HIDE DEF c
  <1>4. MemOK(c, O) /\ EntriesOK(c.cache)
    BY <1>3 DEF Loses, MemOK
  <1>5. Exhausted(c, new, O, UnitCells, 1) \/ Gained(c, new, O, UnitCells, 1)
    BY <1>2, <1>4, MemalignIs
  <1> HIDE DEF new, it
  <1>6. it.failed \in BOOLEAN
    BY <1>1 DEF Entered
  <1>7. CASE Exhausted(c, new, O, UnitCells, 1)
    <2>1. it.memory = new.memory /\ Loses(c, new.memory, O)
      BY <1>1, <1>7 DEF Entered, Exhausted
    <2>2. Loses(m, it.memory, O)
      BY <1>3, <2>1, LosesMore
    <2>3. Enters(m, it.memory, O, {<<b, v>>})
      BY <2>2 DEF Loses, Enters
    <2> QED
      BY <1>6, <2>3 DEF it
  <1>8. CASE Gained(c, new, O, UnitCells, 1)
    <2>1. Enters(c, it.memory, O, {<<b, v>>})
      BY <1>1, <1>3, <1>4, <1>8, EnteredIs
    <2>2. Left(m.heap, it.memory.heap, O)
      BY <1>3, <2>1 DEF Loses, Enters, Left
    <2>3. Enters(m, it.memory, O, {<<b, v>>})
      BY <1>3, <2>1, <2>2 DEF Loses, Enters
    <2> QED
      BY <1>6, <2>3 DEF it
  <1> QED
    BY <1>5, <1>7, <1>8

LEMMA EntersMore ==
  ASSUME NEW m, NEW v, NEW w, NEW O, NEW X, NEW Y, NEW Z, Enters(m, v, O, X), Enters(v, w, O, Y),
         X \subseteq Z, Y \subseteq Z
  PROVE  Enters(m, w, O, Z)
  <1>1. Left(m.heap, w.heap, O)
    BY DEF Enters, Left
  <1> QED
    BY <1>1 DEF Enters

\* One step of the loop around grub_disk_cache_store.
StoreNext(acc, b, v) ==
    LET new == Store(acc.memory, b, v) IN
    [memory |-> new.memory, failed |-> acc.failed \/ new.failed]

StoresTo(g, m, bs, vs, n) ==
    g = [s \in 0 .. n |-> IF s = 0 THEN [memory |-> m, failed |-> FALSE]
                          ELSE StoreNext(g[s - 1], bs[s], vs[s])]

LEMMA StoresExist ==
  ASSUME NEW m, NEW bs, NEW vs, NEW n \in Nat
  PROVE  \E g : StoresTo(g, m, bs, vs, n)
  <1> DEFINE start == [memory |-> m, failed |-> FALSE]
             S == {k \in Nat : \E g : g = [s \in 0 .. k |->
                       IF s = 0 THEN start ELSE StoreNext(g[s - 1], bs[s], vs[s])]}
  <1> HIDE DEF start
  <1>1. 0 \in S
    <2> DEFINE g == [s \in 0 .. 0 |-> start]
    <2>1. g = [s \in 0 .. 0 |-> IF s = 0 THEN start ELSE StoreNext(g[s - 1], bs[s], vs[s])]
      OBVIOUS
    <2> QED
      BY <2>1
  <1>2. ASSUME NEW k \in Nat, k \in S PROVE k + 1 \in S
    <2>1. PICK g : g = [s \in 0 .. k |->
                          IF s = 0 THEN start ELSE StoreNext(g[s - 1], bs[s], vs[s])]
      BY <1>2
    <2> DEFINE f == [s \in 0 .. k + 1 |->
                       IF s <= k THEN g[s] ELSE StoreNext(g[k], bs[s], vs[s])]
    <2>2. ASSUME NEW s \in 0 .. k + 1
          PROVE  f[s] = IF s = 0 THEN start ELSE StoreNext(f[s - 1], bs[s], vs[s])
      <3>1. CASE s = 0
        BY <2>1, <3>1
      <3>2. CASE s # 0 /\ s <= k
        <4>1. s \in 0 .. k /\ s - 1 \in 0 .. k /\ s - 1 <= k /\ s - 1 \in 0 .. k + 1
          BY <3>2
        <4>2. g[s] = StoreNext(g[s - 1], bs[s], vs[s])
          BY <2>1, <3>2, <4>1
        <4> QED
          BY <3>2, <4>1, <4>2
      <3>3. CASE s = k + 1
        <4>1. s # 0 /\ s - 1 = k /\ ~(s <= k) /\ k \in 0 .. k + 1 /\ k <= k
          BY <3>3
        <4>2. f[k] = g[k]
          BY <4>1
        <4> QED
          BY <4>1, <4>2
      <3> QED
        BY <3>1, <3>2, <3>3
    <2>3. f = [s \in 0 .. k + 1 |-> IF s = 0 THEN start ELSE StoreNext(f[s - 1], bs[s], vs[s])]
      BY <2>2
    <2> HIDE DEF f
    <2> QED
      BY <2>3
  <1> HIDE DEF S
  <1>3. n \in S
    BY <1>1, <1>2, NatInd
  <1> QED
    BY <1>3 DEF S, StoresTo, start

LEMMA StoreAllIs ==
  ASSUME NEW m, NEW O, MemOK(m, O), NEW bs \in Seq(Blocks), NEW vs \in Seq({0, 1}),
         Len(vs) = Len(bs)
  PROVE  /\ StoreAll(m, bs, vs).failed \in BOOLEAN
         /\ Enters(m, StoreAll(m, bs, vs).memory, O, {<<bs[i], vs[i]>> : i \in DOMAIN bs})
  <1> DEFINE n == Len(vs)
             X == {<<bs[i], vs[i]>> : i \in DOMAIN bs}
  <1>1. n \in Nat /\ DOMAIN bs = 1 .. n /\ \A i \in 1 .. n : bs[i] \in Blocks /\ vs[i] \in {0, 1}
    BY LenProperties, ElementOfSeq
  <1> HIDE DEF n
  <1>0. \E g : StoresTo(g, m, bs, vs, n)
    BY <1>1, StoresExist
  <1> DEFINE f == CHOOSE g : g = [s \in 0 .. n |-> IF s = 0 THEN [memory |-> m, failed |-> FALSE]
                                                ELSE StoreNext(g[s - 1], bs[s], vs[s])]
  <1>2. f = [s \in 0 .. n |-> IF s = 0 THEN [memory |-> m, failed |-> FALSE]
                              ELSE StoreNext(f[s - 1], bs[s], vs[s])]
    BY <1>0 DEF StoresTo
  <1>3. StoreAll(m, bs, vs) = f[n]
    BY DEF StoreAll, StoreNext, n
  <1> HIDE DEF f
  <1>7. \A i \in 1 .. n : <<bs[i], vs[i]>> \in X
    BY <1>1
  <1> DEFINE S == {k \in Nat : k <= n => f[k].failed \in BOOLEAN /\ Enters(m, f[k].memory, O, X)}
  <1> HIDE DEF X
  <1>4. 0 \in S
    <2>1. f[0] = [memory |-> m, failed |-> FALSE]
      BY <1>1, <1>2
    <2>2. Enters(m, m, O, X)
      BY DEF Enters, Left
    <2>3. f[0].memory = m /\ f[0].failed = FALSE
      BY <2>1
    <2> QED
      BY <2>2, <2>3
  <1>5. ASSUME NEW k \in Nat, k \in S PROVE k + 1 \in S
    <2> SUFFICES ASSUME k + 1 <= n
                 PROVE  f[k + 1].failed \in BOOLEAN /\ Enters(m, f[k + 1].memory, O, X)
      OBVIOUS
    <2> DEFINE acc == f[k]
               b == bs[k + 1]
               v == vs[k + 1]
               new == Store(acc.memory, b, v)
    <2>1. f[k + 1] = StoreNext(acc, b, v)
      <3>1. k + 1 \in 0 .. n /\ k + 1 # 0 /\ (k + 1) - 1 = k
        BY <1>1
      <3> DEFINE j == k + 1
      <3>2. f[j] = StoreNext(f[j - 1], bs[j], vs[j])
        <4> HIDE DEF j
        <4> QED
          BY <1>2, <3>1 DEF j
      <3> QED
        BY <3>1, <3>2
    <2>2. b \in Blocks /\ v \in {0, 1} /\ <<b, v>> \in X
      BY <1>1, <1>7
    <2>3. acc.failed \in BOOLEAN /\ Enters(m, acc.memory, O, X)
      BY <1>1, <1>5
    <2> HIDE DEF b, v, acc
    <2>4. MemOK(acc.memory, O)
      BY <2>3 DEF Enters
    <2>5. Enters(acc.memory, new.memory, O, {<<b, v>>}) /\ new.failed \in BOOLEAN
      BY <2>2, <2>4, StoreIs
    <2>6. f[k + 1] = [memory |-> new.memory, failed |-> acc.failed \/ new.failed]
      BY <2>1 DEF StoreNext
    <2> HIDE DEF new
    <2>7. Enters(m, new.memory, O, X)
      <3>1. {<<b, v>>} \subseteq X /\ X \subseteq X
        BY <2>2
      <3> QED
        BY <2>3, <2>5, <3>1, EntersMore
    <2> QED
      BY <2>6, <2>7
  <1> HIDE DEF S
  <1>6. n \in S
    BY <1>1, <1>4, <1>5, NatInd
  <1> QED
    BY <1>1, <1>3, <1>6 DEF S, X

-----------------------------------------------------------------------------
(* The inductive invariant.                                                *)

AreasOK ==
    /\ areas \in Seq([addr : Nat, size : Nat])
    /\ \A i \in DOMAIN areas : \A c \in AreaCells(areas[i]) : {c, c + 1} \subseteq Cells
    /\ \A i, j \in DOMAIN areas :
           i = j \/ AreaCells(areas[i]) \cap AreaCells(areas[j]) = {}
    /\ \A i \in DOMAIN areas : \A j \in DOMAIN heap.regions :
           AreaCells(areas[i]) \cap SpanOf(heap.regions[j]) = {}
    /\ areas # << >> => stack = << >>

\* The buffers of the calls of st, one each.
BuffersOf(st) == {st[i].tmp : i \in DOMAIN st} \ {NULL}
OneEach(st) == \A i, j \in DOMAIN st : st[i].tmp = st[j].tmp /\ st[i].tmp # NULL => i = j

HeapOK ==
    /\ MemOK(Memory, DOMAIN users \cup BuffersOf(stack))
    /\ DOMAIN users \cap BuffersOf(stack) = {} /\ OneEach(stack)

UsersOK ==
    /\ users \in [DOMAIN users -> [n : Nat \ {0}, align : Nat \ {0}]]
    /\ IsFiniteSet(DOMAIN users)
    /\ \A p \in DOMAIN users :
           heap.hdr[p - 1].size >= users[p].n /\ p % users[p].align = 0

FrameSet ==
    [op : Reads \cup Writes \cup {"modify"}, blocks : Seq(Blocks),
     value : Seq({0, 1}), tmp : Cells \cup {NULL}, count : Nat, hit : Seq({0, 1})]

FrameOK(f) ==
    /\ f \in FrameSet /\ f.blocks # << >>
    /\ f.tmp # NULL <=> f.op \in {"small", "again"}
    /\ f.op \in {"small", "again", "modify", "put"} => Len(f.blocks) = 1
    /\ f.op # "many" => f.value = << >> /\ f.hit = << >> /\ f.count = Len(f.blocks)
    /\ f.op = "many" => /\ f.count > 0 /\ Len(f.hit) <= 1
                        /\ Len(f.value) + f.count + Len(f.hit) <= Len(f.blocks)

\* A call for blocks that the driver of f, or the write f itself, makes.
Calls(f, op, blocks) ==
    \/ f.op = "modify" /\ op \in {"small", "again"} /\ blocks = f.blocks
    \/ /\ f.op \in Reads /\ op \in Reads /\ blocks = Below(Asked(f))
       /\ ToSet(Asked(f)) \cap Physical = {}
    \/ /\ f.op \in Writes /\ op = "write" /\ blocks = Below(f.blocks)
       /\ ToSet(f.blocks) \cap Physical = {}

\* Whether a call for blocks can have the calls of st from k on below it.
Stands(op, blocks, st, k) ==
    /\ k > Len(st) /\ op \in Writes \cup {"modify"} =>
           \A i \in DOMAIN blocks : Outermost(blocks[i])
    /\ k <= Len(st) => /\ Calls(st[k], op, blocks)
                       /\ st[k].op # "modify" => ToSet(blocks) \subseteq Physical
    /\ k + 1 <= Len(st) => st[k + 1].op = "modify"
    /\ k + 2 > Len(st)

StackGood(st) ==
    /\ st \in Seq(FrameSet)
    /\ \A i \in DOMAIN st : FrameOK(st[i]) /\ Stands(st[i].op, st[i].blocks, st, i + 1)

StackOK == StackGood(stack)

\* What the blocks hold, or may hold since a write has failed.
Holding(ct, tn) ==
    {e \in Blocks \X {0, 1} : e[2] = ct[Base(e[1])] \/ Base(e[1]) \in tn}
OnDisk == Holding(content, torn)

\* A write that has succeeded below makes the block stale until it is invalidated.
Pending(b) ==
    reply.ok /\ \E i \in DOMAIN stack : stack[i].op = "write" /\ b \in ToSet(stack[i].blocks)

CacheTrue == \A e \in Shown(cache) : e \in OnDisk \/ Pending(e[1])

FrameTrue(f, true) ==
    f.op = "many" =>
        /\ \A k \in DOMAIN f.value : <<f.blocks[k], f.value[k]>> \in true
        /\ f.hit # << >> => <<f.blocks[Len(f.value) + f.count + 1], f.hit[1]>> \in true

FramesTrue == \A i \in DOMAIN stack : FrameTrue(stack[i], OnDisk)

ReplySet == [done : BOOLEAN, ok : BOOLEAN, blocks : Seq(Blocks), value : Seq({0, 1})]

Delivers(bs, vs, true) ==
    /\ bs \in Seq(Blocks) /\ vs \in Seq({0, 1}) /\ Len(vs) = Len(bs)
    /\ \A i \in DOMAIN bs : <<bs[i], vs[i]>> \in true

\* What the call on top of st has asked for, perhaps by the names below.
Answers(bs, st) ==
    st # << >> /\ st[1].op \in Reads =>
        /\ Len(bs) = Len(Asked(st[1]))
        /\ \A i \in DOMAIN bs : Base(bs[i]) = Base(Asked(st[1])[i])

ReplyTrue ==
    /\ reply \in ReplySet
    /\ reply.ok => /\ reply.done /\ Delivers(reply.blocks, reply.value, OnDisk)
                   /\ Answers(reply.blocks, stack)

\* Nothing is cached behind the back of a write.
PutsClean(st, shown) ==
    \A i \in DOMAIN st : st[i].op = "put" => \A e \in shown : e[1] # st[i].blocks[1]

WriteOK ==
    /\ PutsClean(stack, Shown(cache))
    /\ stack # << >> =>
        /\ stack[1].op = "modify" /\ reply.ok => ~errno
        /\ stack[1].op \in Writes /\ errno /\ (reply.done => reply.ok) => Shown(cache) = {}

ValuesOK == content \in [Physical -> {0, 1}] /\ torn \subseteq Blocks /\ errno \in BOOLEAN

IInv ==
    /\ AreasOK /\ HeapOK /\ UsersOK /\ StackOK /\ ValuesOK
    /\ CacheTrue /\ FramesTrue /\ ReplyTrue /\ WriteOK

-----------------------------------------------------------------------------
(* The stack of calls.                                                     *)

\* u is st with f on top.
Tops(u, f, st) ==
    /\ Len(st) \in Nat /\ DOMAIN st = 1 .. Len(st)
    /\ Len(u) = Len(st) + 1 /\ DOMAIN u = 1 .. Len(st) + 1
    /\ u[1] = f /\ \A i \in 1 .. Len(st) : u[i + 1] = st[i]

LEMMA PushTops ==
  ASSUME NEW F, NEW st \in Seq(F), NEW f \in F
  PROVE  << f >> \o st \in Seq(F) /\ Tops(<< f >> \o st, f, st) /\ << f >> \o st # << >>
  <1> DEFINE s == << f >>
             u == s \o st
             n == Len(st)
  <1>1. s \in Seq(F) /\ Len(s) = 1 /\ s[1] = f
    OBVIOUS
  <1>2. n \in Nat /\ DOMAIN st = 1 .. n
    BY LenProperties
  <1> HIDE DEF s
  <1>3. /\ u \in Seq(F) /\ Len(u) = Len(s) + Len(st)
        /\ \A i \in 1 .. Len(s) + Len(st) : u[i] = IF i <= Len(s) THEN s[i] ELSE st[i - Len(s)]
    BY <1>1, ConcatProperties
  <1> HIDE DEF n
  <1>4. u \in Seq(F) /\ Len(u) = n + 1 /\ \A i \in 1 .. n + 1 : u[i] = IF i <= 1 THEN s[i] ELSE st[i - 1]
    BY <1>1, <1>2, <1>3 DEF n
  <1> HIDE DEF u
  <1>5. DOMAIN u = 1 .. n + 1
    BY <1>4, LenProperties
  <1>6. u[1] = f
    BY <1>1, <1>2, <1>4
  <1>7. ASSUME NEW i \in 1 .. n PROVE u[i + 1] = st[i]
    <2>1. i + 1 \in 1 .. n + 1 /\ ~(i + 1 <= 1) /\ (i + 1) - 1 = i
      BY <1>2
    <2> QED
      BY <1>4, <2>1
  <1>8. u # << >>
    BY <1>2, <1>5
  <1> QED
    BY <1>2, <1>4, <1>5, <1>6, <1>7, <1>8 DEF Tops, n, u, s

LEMMA PopTops ==
  ASSUME NEW F, NEW st \in Seq(F), st # << >>
  PROVE  /\ Tail(st) \in Seq(F) /\ Tops(st, st[1], Tail(st)) /\ Head(st) = st[1]
         /\ st[1] \in F /\ 1 \in DOMAIN st
  <1> DEFINE u == Tail(st)
  <1>1. /\ Head(st) = st[1] /\ u \in Seq(F) /\ Len(u) = Len(st) - 1
        /\ \A i \in 1 .. Len(u) : u[i] = st[i + 1]
    BY HeadTailProperties
  <1>2. Len(st) \in Nat /\ Len(st) # 0 /\ DOMAIN st = 1 .. Len(st)
    BY LenProperties, EmptySeq
  <1>3. DOMAIN u = 1 .. Len(u)
    BY <1>1, LenProperties
  <1> HIDE DEF u
  <1>4. Len(u) \in Nat /\ Len(st) = Len(u) + 1
    BY <1>1, <1>2
  <1>5. st[1] \in F
    BY <1>2, ElementOfSeq
  <1> QED
    BY <1>1, <1>2, <1>3, <1>4, <1>5 DEF Tops, u

LEMMA StandsDeeper ==
  ASSUME NEW u, NEW f, NEW st, Tops(u, f, st), NEW op, NEW bs, NEW k \in Nat \ {0}
  PROVE  Stands(op, bs, u, k + 1) <=> Stands(op, bs, st, k)
  <1>1. Len(st) \in Nat /\ Len(u) = Len(st) + 1 /\ \A i \in 1 .. Len(st) : u[i + 1] = st[i]
    BY DEF Tops
  <1>2. /\ k + 1 > Len(u) <=> k > Len(st)
        /\ k + 1 <= Len(u) <=> k <= Len(st)
        /\ (k + 1) + 1 <= Len(u) <=> k + 1 <= Len(st)
        /\ (k + 1) + 2 > Len(u) <=> k + 2 > Len(st)
    BY <1>1
  <1>3. k <= Len(st) => u[k + 1] = st[k]
    BY <1>1
  <1>4. k + 1 <= Len(st) => u[(k + 1) + 1] = st[k + 1]
    BY <1>1
  <1> QED
    BY <1>2, <1>3, <1>4 DEF Stands

LEMMA TopsGood ==
  ASSUME NEW u \in Seq(FrameSet), NEW f, NEW st \in Seq(FrameSet), Tops(u, f, st)
  PROVE  StackGood(u) <=> StackGood(st) /\ FrameOK(f) /\ Stands(f.op, f.blocks, st, 1)
  <1> DEFINE OK(s, i) == FrameOK(s[i]) /\ Stands(s[i].op, s[i].blocks, s, i + 1)
             n == Len(st)
  <1>1. /\ n \in Nat /\ DOMAIN st = 1 .. n /\ DOMAIN u = 1 .. n + 1
        /\ u[1] = f /\ \A i \in 1 .. n : u[i + 1] = st[i]
    BY DEF Tops
  <1>2. \A i \in 1 .. n : OK(u, i + 1) <=> OK(st, i)
    <2> SUFFICES ASSUME NEW i \in 1 .. n PROVE OK(u, i + 1) <=> OK(st, i)
      OBVIOUS
    <2>1. Stands(st[i].op, st[i].blocks, u, (i + 1) + 1) <=> Stands(st[i].op, st[i].blocks, st, i + 1)
      <3>1. i + 1 \in Nat \ {0}
        OBVIOUS
      <3> QED
        BY <3>1, StandsDeeper
    <2> QED
      BY <1>1, <2>1
  <1>3. OK(u, 1) <=> FrameOK(f) /\ Stands(f.op, f.blocks, st, 1)
    <2>1. Stands(f.op, f.blocks, u, 1 + 1) <=> Stands(f.op, f.blocks, st, 1)
      <3>1. 1 \in Nat \ {0}
        OBVIOUS
      <3> QED
        BY <3>1, StandsDeeper
    <2> QED
      BY <1>1, <2>1
  <1>4. StackGood(u) <=> \A i \in 1 .. n + 1 : OK(u, i)
    BY <1>1 DEF StackGood
  <1>5. StackGood(st) <=> \A i \in 1 .. n : OK(st, i)
    BY <1>1 DEF StackGood
  <1> HIDE DEF OK, n
  <1>6. (\A i \in 1 .. n + 1 : OK(u, i)) <=> OK(u, 1) /\ \A i \in 1 .. n : OK(u, i + 1)
    <2>1. 1 \in 1 .. n + 1 /\ \A i \in 1 .. n : i + 1 \in 1 .. n + 1
      BY <1>1
    <2>2. ASSUME OK(u, 1), \A i \in 1 .. n : OK(u, i + 1), NEW i \in 1 .. n + 1 PROVE OK(u, i)
      <3>1. CASE i = 1
        BY <2>2, <3>1
      <3>2. CASE i # 1
        <4>1. i - 1 \in 1 .. n /\ (i - 1) + 1 = i
          BY <1>1, <3>2
        <4> QED
          BY <2>2, <4>1
      <3> QED
        BY <3>1, <3>2
    <2> QED
      BY <2>1, <2>2
  <1> QED
    BY <1>2, <1>3, <1>4, <1>5, <1>6

LEMMA TopsBuffers ==
  ASSUME NEW u, NEW f, NEW st, Tops(u, f, st)
  PROVE  /\ BuffersOf(u) = BuffersOf(st) \cup ({f.tmp} \ {NULL})
         /\ OneEach(u) <=> OneEach(st) /\ f.tmp \notin BuffersOf(st)
  <1> DEFINE n == Len(st)
  <1>1. /\ n \in Nat /\ DOMAIN st = 1 .. n /\ DOMAIN u = 1 .. n + 1
        /\ u[1] = f /\ \A i \in 1 .. n : u[i + 1] = st[i]
    BY DEF Tops
  <1> HIDE DEF n
  <1>2. ASSUME NEW i \in 1 .. n + 1 PROVE i = 1 \/ (i - 1 \in 1 .. n /\ u[i] = st[i - 1])
    <2>1. CASE i # 1
      <3>1. i - 1 \in 1 .. n /\ (i - 1) + 1 = i
        BY <1>1, <2>1
      <3> QED
        BY <1>1, <3>1
    <2> QED
      BY <2>1
  <1>3. 1 \in 1 .. n + 1 /\ \A i \in 1 .. n : i + 1 \in 1 .. n + 1 /\ i + 1 # 1
    BY <1>1
  <1>4. ASSUME NEW x PROVE x \in BuffersOf(u) <=> x \in BuffersOf(st) \/ (x = f.tmp /\ x # NULL)
    <2>1. x \in BuffersOf(u) <=> x # NULL /\ \E i \in 1 .. n + 1 : u[i].tmp = x
      BY <1>1 DEF BuffersOf
    <2>2. x \in BuffersOf(st) <=> x # NULL /\ \E i \in 1 .. n : st[i].tmp = x
      BY <1>1 DEF BuffersOf
    <2> QED
      BY <1>1, <1>2, <1>3, <2>1, <2>2
  <1>5. ASSUME OneEach(u) PROVE OneEach(st) /\ f.tmp \notin BuffersOf(st)
    <2>1. \A i, j \in 1 .. n + 1 : u[i].tmp = u[j].tmp /\ u[i].tmp # NULL => i = j
      BY <1>1, <1>5 DEF OneEach
    <2>2. ASSUME NEW i \in 1 .. n, NEW j \in 1 .. n, st[i].tmp = st[j].tmp, st[i].tmp # NULL
          PROVE  i = j
      <3>1. i + 1 = j + 1
        BY <1>1, <1>3, <2>1, <2>2
      <3> QED
        BY <3>1
    <2>3. ASSUME NEW i \in 1 .. n, st[i].tmp = f.tmp, f.tmp # NULL PROVE FALSE
      BY <1>1, <1>3, <2>1, <2>3
    <2>4. OneEach(st)
      BY <1>1, <2>2 DEF OneEach
    <2> QED
      BY <1>1, <2>3, <2>4 DEF BuffersOf
  <1>6. ASSUME OneEach(st), f.tmp \notin BuffersOf(st) PROVE OneEach(u)
    <2>1. \A i, j \in 1 .. n : st[i].tmp = st[j].tmp /\ st[i].tmp # NULL => i = j
      BY <1>1, <1>6 DEF OneEach
    <2>2. \A i \in 1 .. n : st[i].tmp = f.tmp => f.tmp = NULL
      BY <1>1, <1>6 DEF BuffersOf
    <2>3. ASSUME NEW i \in 1 .. n + 1, NEW j \in 1 .. n + 1, u[i].tmp = u[j].tmp, u[i].tmp # NULL
          PROVE  i = j
      <3>1. CASE i = 1 /\ j = 1
        BY <3>1
      <3>2. CASE i = 1 /\ j # 1
        BY <1>1, <1>2, <2>2, <2>3, <3>2
      <3>3. CASE i # 1 /\ j = 1
        BY <1>1, <1>2, <2>2, <2>3, <3>3
      <3>4. CASE i # 1 /\ j # 1
        <4>1. i - 1 = j - 1
          BY <1>2, <2>1, <2>3, <3>4
        <4> QED
          BY <1>1, <4>1
      <3> QED
        BY <3>1, <3>2, <3>3, <3>4
    <2> QED
      BY <1>1, <2>3 DEF OneEach
  <1>7. BuffersOf(u) = BuffersOf(st) \cup ({f.tmp} \ {NULL})
    BY <1>4
  <1> QED
    BY <1>5, <1>6, <1>7

LEMMA StackLength ==
  ASSUME NEW st, StackGood(st)
  PROVE  Len(st) \in Nat /\ Len(st) <= 3 /\ DOMAIN st = 1 .. Len(st)
  <1>1. Len(st) \in Nat /\ DOMAIN st = 1 .. Len(st)
    BY LenProperties DEF StackGood
  <1>2. Len(st) >= 1 => (1 + 1) + 2 > Len(st)
    BY <1>1 DEF StackGood, Stands
  <1> QED
    BY <1>1, <1>2

\* Who calls whom.
LEMMA CallerOf ==
  ASSUME NEW st, StackGood(st), NEW i \in DOMAIN st, i + 1 \in DOMAIN st
  PROVE  Calls(st[i + 1], st[i].op, st[i].blocks)
  <1>1. i + 1 <= Len(st)
    BY StackLength
  <1> QED
    BY <1>1 DEF StackGood, Stands

\* All calls of a stack are writes, or none is.
LEMMA AllWrites ==
  ASSUME NEW st, StackGood(st), NEW i \in DOMAIN st
  PROVE  st[i].op \in Writes <=> st[1].op \in Writes
  <1>1. Len(st) \in Nat /\ Len(st) <= 3 /\ DOMAIN st = 1 .. Len(st)
    BY StackLength
  <1>2. \A j \in DOMAIN st : st[j].op \in Reads \cup Writes \cup {"modify"}
    BY DEF StackGood, FrameOK, FrameSet
  <1>3. ASSUME NEW j \in DOMAIN st, j + 1 \in DOMAIN st
        PROVE  st[j + 1].op \in Writes <=> st[j].op \in Writes
    <2>1. Calls(st[j + 1], st[j].op, st[j].blocks)
      BY <1>3, CallerOf
    <2> QED
      BY <2>1 DEF Calls, Reads, Writes
  <1>4. 1 \in DOMAIN st
    BY <1>1
  <1>5. 2 \in DOMAIN st => (st[2].op \in Writes <=> st[1].op \in Writes)
    <2>1. 1 + 1 = 2
      OBVIOUS
    <2> QED
      BY <1>3, <1>4, <2>1
  <1>6. 3 \in DOMAIN st => 2 \in DOMAIN st /\ (st[3].op \in Writes <=> st[2].op \in Writes)
    <2>1. 2 + 1 = 3
      OBVIOUS
    <2>2. 3 \in DOMAIN st => 2 \in DOMAIN st
      BY <1>1
    <2> QED
      BY <1>3, <2>1, <2>2
  <1>7. i = 1 \/ i = 2 \/ i = 3
    BY <1>1
  <1> QED
    BY <1>5, <1>6, <1>7

\* A call that is no read or write has none below it.
LEMMA ModifyLast ==
  ASSUME NEW st, StackGood(st), NEW i \in DOMAIN st, st[i].op \in {"modify", "put"}
  PROVE  i = Len(st)
  <1>1. i \in 1 .. Len(st) /\ Len(st) \in Nat
    BY StackLength
  <1> SUFFICES ASSUME i < Len(st) PROVE FALSE
    BY <1>1
  <1>2. i + 1 \in DOMAIN st
    BY <1>1, StackLength
  <1>3. Calls(st[i + 1], st[i].op, st[i].blocks)
    BY <1>2, CallerOf
  <1> QED
    BY <1>3 DEF Calls, Reads, Writes

-----------------------------------------------------------------------------
(* Steps of the disk layer.                                                *)

\* heap and cache become m, and what has been read stays as good as it was.
NewMemory(m) ==
    /\ heap' = m.heap /\ cache' = m.cache /\ content' = content /\ torn' \subseteq torn
    /\ \A e \in OnDisk : stack # << >> \/ e \in Shown(m.cache) => e \in OnDisk'

LEMMA SetIsNew ==
  ASSUME NEW m, EntriesOK(m.cache), SetMemory(m), content' = content
  PROVE  NewMemory(m)
  <1>1. heap' = m.heap /\ cache' = m.cache /\ torn' = Remembered(m, torn)
    BY DEF SetMemory
  <1>2. torn' \subseteq torn
    BY <1>1 DEF Remembered
  <1>3. ASSUME NEW e \in OnDisk, stack # << >> \/ e \in Shown(m.cache) PROVE e \in OnDisk'
    <2>1. /\ e \in Blocks \X {0, 1}
          /\ e[2] = content[Base(e[1])] \/ Base(e[1]) \in torn
      BY DEF OnDisk, Holding
    <2>2. ASSUME Base(e[1]) \in torn PROVE Base(e[1]) \in torn'
      <3>1. CASE stack # << >>
        BY <1>1, <2>2, <3>1 DEF Remembered
      <3>2. CASE e \in Shown(m.cache)
        <4>1. e = <<e[1], e[2]>> /\ e[1] \in Blocks
          BY <2>1
        <4>2. Cached(m, e[1])
          BY <3>2, <4>1, ShownIs
        <4> QED
          BY <1>1, <2>2, <4>1, <4>2 DEF Remembered
      <3> QED
        BY <1>3, <3>1, <3>2
    <2> QED
      BY <2>1, <2>2 DEF OnDisk, Holding
  <1> QED
    BY <1>1, <1>2, <1>3 DEF NewMemory

LEMMA SameIsNew ==
  ASSUME UNCHANGED <<heap, cache, content, torn>>
  PROVE  NewMemory(Memory)
  <1>1. Memory.heap = heap /\ Memory.cache = cache
    BY DEF Memory
  <1>2. OnDisk' = OnDisk
    BY DEF OnDisk
  <1> QED
    BY <1>1, <1>2 DEF NewMemory

LEMMA AreasDone ==
  ASSUME areas = << >>, areas' = areas PROVE AreasOK'
  <1>1. areas' = << >> /\ DOMAIN areas' = {}
    OBVIOUS
  <1>2. areas' \in Seq([addr : Nat, size : Nat])
    BY <1>1
  <1> QED
    BY <1>1, <1>2 DEF AreasOK

LEMMA StepHeap ==
  ASSUME NEW m, heap' = m.heap, cache' = m.cache,
         MemOK(m, DOMAIN users' \cup BuffersOf(stack')),
         DOMAIN users' \cap BuffersOf(stack') = {}, OneEach(stack')
  PROVE  HeapOK'
  <1>1. m = [heap |-> m.heap, cache |-> m.cache]
    BY DEF MemOK
  <1>2. Memory' = m
    BY <1>1 DEF Memory
  <1> QED
    BY <1>2 DEF HeapOK

LEMMA StepUsers ==
  ASSUME UsersOK, users' = users, NEW m, heap' = m.heap, Left(heap, m.heap, DOMAIN users)
  PROVE  UsersOK'
  <1>1. \A p \in DOMAIN users : heap'.hdr[p - 1].size = heap.hdr[p - 1].size
    BY DEF Left
  <1> QED
    BY <1>1 DEF UsersOK

LEMMA StepValues ==
  ASSUME ValuesOK, NEW m, NewMemory(m), errno' \in BOOLEAN
  PROVE  ValuesOK'
  BY DEF ValuesOK, NewMemory

Clean == Shown(cache) \subseteq OnDisk

LEMMA CleanIs ==
  ASSUME IInv, stack = << >> \/ ~reply.ok \/ stack[1].op \notin Writes
  PROVE  Clean
  <1>1. CacheTrue /\ StackGood(stack)
    BY DEF IInv, StackOK
  <1>2. ASSUME NEW b PROVE ~Pending(b)
    <2> SUFFICES ASSUME reply.ok, NEW i \in DOMAIN stack, stack[i].op = "write" PROVE FALSE
      BY DEF Pending
    <2>1. stack[i].op \in Writes
      BY DEF Writes
    <2>2. stack[1].op \in Writes
      BY <1>1, <2>1, AllWrites
    <2>3. stack = << >>
      BY <2>2
    <2>4. DOMAIN stack = {}
      BY <2>3
    <2> QED
      BY <2>4
  <1> QED
    BY <1>1, <1>2 DEF CacheTrue, Clean

LEMMA CacheStays ==
  ASSUME NEW m, NewMemory(m), Shown(m.cache) \subseteq OnDisk
  PROVE  CacheTrue'
  <1>1. cache' = m.cache
    BY DEF NewMemory
  <1>2. Shown(cache)' = Shown(m.cache)
    BY <1>1 DEF Shown
  <1>3. \A e \in Shown(m.cache) : e \in OnDisk'
    BY DEF NewMemory
  <1> QED
    BY <1>2, <1>3 DEF CacheTrue

\* The calls that go on: all of them, or all but the one on top.
Rest(rest) == rest = stack \/ (stack # << >> /\ rest = Tail(stack))

LEMMA RestIs ==
  ASSUME IInv, NEW rest, Rest(rest)
  PROVE  /\ rest \in Seq(FrameSet) /\ StackGood(rest) /\ OneEach(rest)
         /\ BuffersOf(rest) \subseteq BuffersOf(stack)
         /\ rest # << >> => stack # << >>
         /\ \A i \in DOMAIN rest : \E j \in DOMAIN stack : rest[i] = stack[j]
  <1>1. StackGood(stack) /\ stack \in Seq(FrameSet) /\ OneEach(stack)
    BY DEF IInv, StackOK, HeapOK, StackGood
  <1>2. CASE rest = stack
    BY <1>1, <1>2
  <1>3. CASE stack # << >> /\ rest = Tail(stack)
    <2>1. rest \in Seq(FrameSet) /\ Tops(stack, stack[1], rest)
      BY <1>1, <1>3, PopTops
    <2>2. StackGood(rest)
      BY <1>1, <2>1, TopsGood
    <2>3. OneEach(rest) /\ BuffersOf(rest) \subseteq BuffersOf(stack)
      BY <1>1, <2>1, TopsBuffers
    <2>4. ASSUME NEW i \in DOMAIN rest PROVE \E j \in DOMAIN stack : rest[i] = stack[j]
      <3>1. /\ Len(rest) \in Nat /\ DOMAIN rest = 1 .. Len(rest)
            /\ DOMAIN stack = 1 .. Len(rest) + 1 /\ stack[i + 1] = rest[i]
        BY <2>1 DEF Tops
      <3>2. i + 1 \in DOMAIN stack
        BY <3>1
      <3> QED
        BY <3>1, <3>2
    <2> QED
      BY <1>3, <2>1, <2>2, <2>3, <2>4
  <1> QED
    BY <1>2, <1>3 DEF Rest

LEMMA RestTrue ==
  ASSUME IInv, NEW rest, Rest(rest), NEW m, NewMemory(m)
  PROVE  \A i \in DOMAIN rest : FrameTrue(rest[i], OnDisk')
  <1> SUFFICES ASSUME NEW i \in DOMAIN rest PROVE FrameTrue(rest[i], OnDisk')
    OBVIOUS
  <1>1. PICK j \in DOMAIN stack : rest[i] = stack[j]
    BY RestIs
  <1>2. FrameTrue(stack[j], OnDisk)
    BY DEF IInv, FramesTrue
  <1>3. stack # << >>
    <2>1. stack = << >> => DOMAIN stack = {}
      OBVIOUS
    <2> QED
      BY <2>1
  <1>4. \A e \in OnDisk : e \in OnDisk'
    BY <1>3 DEF NewMemory
  <1> DEFINE f == stack[j]
             old == OnDisk
             new == OnDisk'
  <1> HIDE DEF f, old, new
  <1>5. FrameTrue(f, old) /\ \A e \in old : e \in new
    BY <1>2, <1>4 DEF f, old, new
  <1>6. FrameTrue(f, new)
    BY <1>5 DEF FrameTrue
  <1> QED
    BY <1>1, <1>6 DEF f, new

\* A call of rest is over, with what it has to say.
Returns(m, rest, e, bs, vs) ==
    NewMemory(m) /\ stack' = rest /\ errno' = e /\ Answer(e, bs, vs)

LEMMA ReturnKeeps ==
  ASSUME IInv, areas = << >>, UNCHANGED <<areas, users>>, NEW m, NEW rest, Rest(rest),
         NEW e \in BOOLEAN, NEW bs, NEW vs, Returns(m, rest, e, bs, vs),
         MemOK(m, DOMAIN users \cup BuffersOf(rest)), Left(heap, m.heap, DOMAIN users),
         CacheTrue', PutsClean(rest, Shown(m.cache)),
         ~e => Delivers(bs, vs, OnDisk') /\ Answers(bs, rest)
  PROVE  IInv'
  <1>1. AreasOK' 
    BY AreasDone
  <1>2. /\ rest \in Seq(FrameSet) /\ StackGood(rest) /\ OneEach(rest)
        /\ BuffersOf(rest) \subseteq BuffersOf(stack)
    BY RestIs
  <1>3. NewMemory(m) /\ stack' = rest /\ errno' = e /\ Answer(e, bs, vs) /\ users' = users
    BY DEF Returns
  <1>4. heap' = m.heap /\ cache' = m.cache /\ Shown(cache)' = Shown(m.cache)
    BY <1>3 DEF NewMemory, Shown
  <1>5. HeapOK'
    <2>1. DOMAIN users \cap BuffersOf(rest) = {}
      BY <1>2 DEF IInv, HeapOK
    <2> QED
      BY <1>2, <1>3, <1>4, <2>1, StepHeap
  <1>6. UsersOK'
    BY <1>3, <1>4, StepUsers DEF IInv
  <1>7. StackOK'
    BY <1>2, <1>3 DEF StackOK
  <1>8. ValuesOK'
    BY <1>3, StepValues DEF IInv
  <1>9. FramesTrue'
    BY <1>3, RestTrue DEF FramesTrue
  <1>10. reply' = IF e THEN [NoReply EXCEPT !.done = TRUE]
                  ELSE [done |-> TRUE, ok |-> TRUE, blocks |-> bs, value |-> vs]
    BY <1>3 DEF Answer
  <1>11. reply' \in ReplySet /\ reply'.done /\ (reply'.ok => ~e)
         /\ (~e => reply'.blocks = bs /\ reply'.value = vs)
    <2>1. CASE e
      <3>1. reply' = [done |-> TRUE, ok |-> FALSE, blocks |-> << >>, value |-> << >>]
        BY <1>10, <2>1 DEF NoReply
      <3> QED
        BY <2>1, <3>1 DEF ReplySet
    <2>2. CASE ~e
      <3>1. reply' = [done |-> TRUE, ok |-> TRUE, blocks |-> bs, value |-> vs]
        BY <1>10, <2>2
      <3>2. bs \in Seq(Blocks) /\ vs \in Seq({0, 1})
        BY <2>2 DEF Delivers
      <3> QED
        BY <2>2, <3>1, <3>2 DEF ReplySet
    <2> QED
      BY <2>1, <2>2
  <1>12. ReplyTrue'
    BY <1>3, <1>11 DEF ReplyTrue
  <1>13. WriteOK'
    BY <1>3, <1>4, <1>11 DEF WriteOK
  <1> QED
    BY <1>1, <1>5, <1>6, <1>7, <1>8, <1>9, <1>12, <1>13 DEF IInv

\* A call waits for its driver, or for the read it needs.
Waits(m, f, rest, e) ==
    NewMemory(m) /\ stack' = << f >> \o rest /\ errno' = e /\ reply' = NoReply

LEMMA NoReplyIs == NoReply \in ReplySet /\ ~NoReply.done /\ ~NoReply.ok
  BY DEF NoReply, ReplySet

LEMMA WaitKeeps ==
  ASSUME IInv, areas = << >>, UNCHANGED <<areas, users>>, NEW m, NEW rest, Rest(rest),
         NEW e \in BOOLEAN, NEW f, Waits(m, f, rest, e),
         FrameOK(f), Stands(f.op, f.blocks, rest, 1),
         f.tmp \notin DOMAIN users \cup BuffersOf(rest),
         MemOK(m, DOMAIN users \cup BuffersOf(rest) \cup ({f.tmp} \ {NULL})),
         Left(heap, m.heap, DOMAIN users),
         CacheTrue', FrameTrue(f, OnDisk'),
         PutsClean(rest, Shown(m.cache)),
         f.op = "put" => \A x \in Shown(m.cache) : x[1] # f.blocks[1],
         f.op \in Writes /\ e => Shown(m.cache) = {}
  PROVE  IInv'
  <1> DEFINE u == << f >> \o rest
  <1>1. AreasOK' 
    BY AreasDone
  <1>2. /\ rest \in Seq(FrameSet) /\ StackGood(rest) /\ OneEach(rest)
        /\ BuffersOf(rest) \subseteq BuffersOf(stack)
    BY RestIs
  <1>3. NewMemory(m) /\ stack' = u /\ errno' = e /\ reply' = NoReply /\ users' = users
    BY DEF Waits
  <1>4. heap' = m.heap /\ cache' = m.cache /\ Shown(cache)' = Shown(m.cache)
    BY <1>3 DEF NewMemory, Shown
  <1>5. u \in Seq(FrameSet) /\ Tops(u, f, rest)
    <2>1. f \in FrameSet
      BY DEF FrameOK
    <2> QED
      BY <1>2, <2>1, PushTops
  <1> HIDE DEF u
  <1>6. StackGood(u)
    BY <1>2, <1>5, TopsGood
  <1>7. BuffersOf(u) = BuffersOf(rest) \cup ({f.tmp} \ {NULL}) /\ OneEach(u)
    BY <1>2, <1>5, TopsBuffers
  <1>8. HeapOK'
    <2>1. DOMAIN users \cap BuffersOf(u) = {}
      BY <1>2, <1>7 DEF IInv, HeapOK
    <2>2. DOMAIN users \cup BuffersOf(rest) \cup ({f.tmp} \ {NULL}) = DOMAIN users \cup BuffersOf(u)
      BY <1>7
    <2>3. MemOK(m, DOMAIN users' \cup BuffersOf(stack'))
      BY <1>3, <2>2
    <2> QED
      BY <1>3, <1>4, <1>7, <2>1, <2>3, StepHeap
  <1>9. UsersOK'
    BY <1>3, <1>4, StepUsers DEF IInv
  <1>10. StackOK'
    BY <1>3, <1>6 DEF StackOK
  <1>11. ValuesOK'
    BY <1>3, StepValues DEF IInv
  <1>12. ASSUME NEW i \in DOMAIN u PROVE i = 1 \/ (i - 1 \in DOMAIN rest /\ u[i] = rest[i - 1])
    <2>1. /\ Len(rest) \in Nat /\ DOMAIN rest = 1 .. Len(rest) /\ DOMAIN u = 1 .. Len(rest) + 1
          /\ \A k \in 1 .. Len(rest) : u[k + 1] = rest[k]
      BY <1>5 DEF Tops
    <2>2. CASE i # 1
      <3>1. i - 1 \in 1 .. Len(rest) /\ (i - 1) + 1 = i
        BY <2>1, <2>2
      <3> QED
        BY <2>1, <3>1
    <2> QED
      BY <2>2
  <1>13. u[1] = f
    BY <1>5 DEF Tops
  <1>14. FramesTrue'
    <2>1. \A i \in DOMAIN rest : FrameTrue(rest[i], OnDisk')
      BY <1>3, RestTrue
    <2>2. \A i \in DOMAIN u : FrameTrue(u[i], OnDisk')
      BY <1>12, <1>13, <2>1
    <2> QED
      BY <1>3, <2>2 DEF FramesTrue
  <1>15. ReplyTrue'
    BY <1>3, NoReplyIs DEF ReplyTrue
  <1>16. PutsClean(u, Shown(m.cache))
    BY <1>12, <1>13 DEF PutsClean
  <1>17. WriteOK'
    BY <1>3, <1>4, <1>13, <1>16, NoReplyIs DEF WriteOK
  <1> QED
    BY <1>1, <1>8, <1>9, <1>10, <1>11, <1>14, <1>15, <1>17 DEF IInv

\* Something happens on the heap while the calls wait.
LEMMA QuietKeeps ==
  ASSUME IInv, areas = << >>, areas' = areas, stack' = stack, reply' = NoReply,
         NEW m, NewMemory(m), errno' \in BOOLEAN,
         MemOK(m, DOMAIN users' \cup BuffersOf(stack)),
         DOMAIN users' \cap BuffersOf(stack) = {}, UsersOK',
         stack = << >> \/ ~reply.done,
         Shown(m.cache) \subseteq Shown(cache),
         errno' => errno \/ stack = << >> \/ Shown(m.cache) = {}
  PROVE  IInv'
  <1>1. AreasOK' 
    BY AreasDone
  <1>2. heap' = m.heap /\ cache' = m.cache /\ Shown(cache)' = Shown(m.cache)
    BY DEF NewMemory, Shown
  <1>3. HeapOK'
    <2>1. OneEach(stack)
      BY DEF IInv, HeapOK
    <2> QED
      BY <1>2, <2>1, StepHeap
  <1>4. StackOK' /\ ValuesOK'
    <2>1. ValuesOK'
      BY StepValues DEF IInv
    <2> QED
      BY <2>1 DEF IInv, StackOK
  <1>5. CacheTrue'
    <2>1. Clean
      BY CleanIs DEF IInv, ReplyTrue
    <2> QED
      BY <2>1, CacheStays DEF Clean
  <1>6. FramesTrue'
    <2>1. Rest(stack)
      BY DEF Rest
    <2> QED
      BY <2>1, RestTrue DEF FramesTrue
  <1>7. ReplyTrue'
    BY NoReplyIs DEF ReplyTrue
  <1>8. WriteOK'
    <2>1. WriteOK
      BY DEF IInv
    <2>2. PutsClean(stack, Shown(m.cache))
      BY <2>1 DEF WriteOK, PutsClean
    <2>3. ASSUME stack # << >>, stack[1].op \in Writes, errno' PROVE Shown(m.cache) = {}
      <3>1. CASE errno
        <4>1. Shown(cache) = {}
          BY <2>1, <2>3, <3>1 DEF WriteOK
        <4> QED
          BY <4>1
      <3> QED
        BY <2>3, <3>1
    <2> QED
      BY <1>2, <2>2, <2>3, NoReplyIs DEF WriteOK
  <1> QED
    BY <1>1, <1>3, <1>4, <1>5, <1>6, <1>7, <1>8 DEF IInv

-----------------------------------------------------------------------------
(* grub_disk_read.                                                         *)

LEMMA RestPuts ==
  ASSUME IInv, NEW rest, Rest(rest), NEW S, S \subseteq Shown(cache)
  PROVE  PutsClean(rest, S)
  <1>1. PutsClean(stack, Shown(cache))
    BY DEF IInv, WriteOK
  <1>2. \A i \in DOMAIN rest : \E j \in DOMAIN stack : rest[i] = stack[j]
    BY RestIs
  <1> QED
    BY <1>1, <1>2 DEF PutsClean

LEMMA NoPuts ==
  ASSUME IInv, NEW rest, Rest(rest), stack # << >>, stack[1].op \notin Writes, NEW S
  PROVE  PutsClean(rest, S)
  <1>1. \A i \in DOMAIN stack : stack[i].op \notin Writes
    BY AllWrites DEF IInv, StackOK
  <1>2. \A i \in DOMAIN rest : \E j \in DOMAIN stack : rest[i] = stack[j]
    BY RestIs
  <1> QED
    BY <1>1, <1>2 DEF PutsClean, Writes

LEMMA FrameIs ==
  ASSUME NEW op \in Reads \cup Writes \cup {"modify"}, NEW bs \in Seq(Blocks), bs # << >>,
         NEW tmp \in Cells \cup {NULL}, tmp # NULL <=> op \in {"small", "again"},
         op \in {"small", "again", "modify", "put"} => Len(bs) = 1
  PROVE  LET f == Frame(op, bs, tmp) IN
         FrameOK(f) /\ f.op = op /\ f.blocks = bs /\ f.tmp = tmp /\ \A S : FrameTrue(f, S)
  <1> DEFINE f == Frame(op, bs, tmp)
  <1>1. f = [op |-> op, blocks |-> bs, value |-> << >>, tmp |-> tmp,
             count |-> Len(bs), hit |-> << >>]
    BY DEF Frame
  <1>2. Len(bs) \in Nat /\ Len(bs) > 0
    BY LenProperties, EmptySeq
  <1> HIDE DEF f
  <1>3. /\ f.op = op /\ f.blocks = bs /\ f.tmp = tmp /\ f.value = << >>
        /\ f.hit = << >> /\ f.count = Len(bs)
    BY <1>1
  <1>4. f \in FrameSet
    BY <1>1, <1>2 DEF FrameSet
  <1>5. FrameOK(f)
    BY <1>2, <1>3, <1>4 DEF FrameOK
  <1>6. DOMAIN f.value = {}
    BY <1>3
  <1>7. \A S : FrameTrue(f, S)
    BY <1>3, <1>6 DEF FrameTrue
  <1> QED
    BY <1>3, <1>5, <1>7 DEF f

LEMMA OneBlock ==
  ASSUME NEW b \in Blocks
  PROVE  << b >> \in Seq(Blocks) /\ << b >> # << >> /\ Len(<< b >>) = 1 /\ << b >>[1] = b
         /\ DOMAIN << b >> = 1 .. 1
  OBVIOUS

\* A buffer for one block has been allocated, or not.
LEMMA BufferKeeps ==
  ASSUME IInv, areas = << >>, UNCHANGED <<areas, users>>, NEW rest, Rest(rest),
         NEW e \in BOOLEAN, NEW op \in {"small", "again"}, NEW b \in Blocks,
         NEW m, MemOK(m, DOMAIN users \cup BuffersOf(rest)), Left(heap, m.heap, DOMAIN users),
         Shown(m.cache) \subseteq Shown(cache), Clean,
         Stands(op, << b >>, rest, 1),
         NEW new, NEW n, Exhausted(m, new, DOMAIN users \cup BuffersOf(rest), n, 1)
                         \/ Gained(m, new, DOMAIN users \cup BuffersOf(rest), n, 1),
         IF new.ptr = NULL THEN Returns(new.memory, rest, TRUE, << >>, << >>)
         ELSE Waits(new.memory, Frame(op, << b >>, new.ptr), rest, e)
  PROVE  IInv'
  <1> DEFINE O == DOMAIN users \cup BuffersOf(rest)
  <1>1. CASE Exhausted(m, new, O, n, 1)
    <2>1. new.ptr = NULL /\ Loses(m, new.memory, O)
      BY <1>1 DEF Exhausted
    <2>2. MemOK(new.memory, O) /\ Left(m.heap, new.memory.heap, O)
            /\ Shown(new.memory.cache) \subseteq Shown(cache)
      BY <2>1 DEF Loses
    <2>3. Left(heap, new.memory.heap, DOMAIN users)
      BY <2>2 DEF Left
    <2>4. Returns(new.memory, rest, TRUE, << >>, << >>)
      BY <2>1
    <2>5. CacheTrue'
      BY <2>2, <2>4, CacheStays DEF Clean, Returns
    <2>6. PutsClean(rest, Shown(new.memory.cache))
      BY <2>2, RestPuts
    <2> QED
      BY <2>2, <2>3, <2>4, <2>5, <2>6, ReturnKeeps
  <1>2. CASE Gained(m, new, O, n, 1)
    <2>1. /\ new.ptr \in Cells /\ new.ptr # NULL /\ new.ptr \notin O
          /\ MemOK(new.memory, O \cup {new.ptr}) /\ Left(m.heap, new.memory.heap, O)
          /\ Shown(new.memory.cache) \subseteq Shown(cache)
      BY <1>2 DEF Gained
    <2> DEFINE f == Frame(op, << b >>, new.ptr)
    <2>2. Waits(new.memory, f, rest, e)
      BY <2>1
    <2>3. FrameOK(f) /\ f.op = op /\ f.blocks = << b >> /\ f.tmp = new.ptr
            /\ \A S : FrameTrue(f, S)
      <3>1. op \in Reads \cup Writes \cup {"modify"}
        BY DEF Reads
      <3> QED
        BY <2>1, <3>1, OneBlock, FrameIs
    <2> HIDE DEF f
    <2>4. Left(heap, new.memory.heap, DOMAIN users)
      BY <2>1 DEF Left
    <2>5. CacheTrue'
      BY <2>1, <2>2, CacheStays DEF Clean, Waits
    <2>6. PutsClean(rest, Shown(new.memory.cache))
      BY <2>1, RestPuts
    <2>7. MemOK(new.memory, O \cup ({f.tmp} \ {NULL}))
      <3>1. {f.tmp} \ {NULL} = {new.ptr}
        BY <2>1, <2>3
      <3> QED
        BY <2>1, <3>1
    <2>8. f.op \notin Writes
      BY <2>3 DEF Writes
    <2>9. f.op # "put"
      BY <2>8 DEF Writes
    <2>10. FrameTrue(f, OnDisk')
      BY <2>3
    <2>11. Stands(f.op, f.blocks, rest, 1) /\ f.tmp \notin O
      BY <2>1, <2>3
    <2> QED
      BY <2>2, <2>3, <2>4, <2>5, <2>6, <2>7, <2>8, <2>9, <2>10, <2>11, WaitKeeps
  <1> QED
    BY <1>1, <1>2

\* The second half of grub_disk_read_small.
LEMMA FallbackKeeps ==
  ASSUME IInv, areas = << >>, UNCHANGED <<areas, users, content>>, NEW rest, Rest(rest),
         NEW b \in Blocks,
         NEW m, MemOK(m, DOMAIN users \cup BuffersOf(rest)), Left(heap, m.heap, DOMAIN users),
         Shown(m.cache) \subseteq Shown(cache), Clean,
         Stands("again", << b >>, rest, 1), Fallback(m, b, rest)
  PROVE  IInv'
  <1> DEFINE new == Memalign(m, PartCells, 1)
             O == DOMAIN users \cup BuffersOf(rest)
  <1>1. Exhausted(m, new, O, PartCells, 1) \/ Gained(m, new, O, PartCells, 1)
    BY CallAssumption, MemalignIs
  <1>2. PartBuffer(new, b, rest)
    BY DEF Fallback
  <1> HIDE DEF new
  <1>3. EntriesOK(new.memory.cache)
    BY <1>1 DEF Exhausted, Gained, Loses, MemOK
  <1>4. NewMemory(new.memory)
    BY <1>2, <1>3, SetIsNew DEF PartBuffer
  <1>5. IF new.ptr = NULL THEN Returns(new.memory, rest, TRUE, << >>, << >>)
        ELSE Waits(new.memory, Frame("again", << b >>, new.ptr), rest, FALSE)
    BY <1>2, <1>4 DEF PartBuffer, Returns, Waits
  <1> QED
    BY <1>1, <1>5, BufferKeeps

LEMMA NullNoPointer ==
  ASSUME NEW h PROVE NULL \notin Pointers(h)
  <1> SUFFICES ASSUME NULL \in Pointers(h) PROVE FALSE
    OBVIOUS
  <1>1. PICK c \in Cells : c + 1 = NULL
    BY DEF Pointers
  <1>2. c \in Nat
    BY CellsNat
  <1> QED
    BY <1>1, <1>2 DEF NULL

LEMMA MemoryOK ==
  ASSUME IInv
  PROVE  /\ MemOK(Memory, DOMAIN users \cup BuffersOf(stack))
         /\ Memory.heap = heap /\ Memory.cache = cache /\ EntriesOK(cache)
         /\ Rest(stack) /\ StackGood(stack)
         /\ \A O : Left(heap, Memory.heap, O)
  <1>1. MemOK(Memory, DOMAIN users \cup BuffersOf(stack)) /\ StackGood(stack)
    BY DEF IInv, HeapOK, StackOK
  <1>2. Memory.heap = heap /\ Memory.cache = cache
    BY DEF Memory
  <1> QED
    BY <1>1, <1>2 DEF MemOK, Rest, Left

LEMMA UnitBufferKeeps ==
  ASSUME IInv, areas = << >>, UNCHANGED <<areas, users, content>>,
         NEW b \in Blocks, NEW e \in BOOLEAN, Clean,
         Stands("small", << b >>, stack, 1), Stands("again", << b >>, stack, 1),
         NEW m, MemOK(m, DOMAIN users \cup BuffersOf(stack)), Left(heap, m.heap, DOMAIN users),
         Shown(m.cache) \subseteq Shown(cache),
         UnitBuffer(Memalign(m, UnitCells, 1), b, e)
  PROVE  IInv'
  <1> DEFINE new == Memalign(m, UnitCells, 1)
             O == DOMAIN users \cup BuffersOf(stack)
             w == [new.memory EXCEPT !.heap = Free(@, new.ptr)]
  <1>1. Exhausted(m, new, O, UnitCells, 1) \/ Gained(m, new, O, UnitCells, 1)
    BY CallAssumption, MemalignIs
  <1>2. UnitBuffer(new, b, e)
    OBVIOUS
  <1> HIDE DEF new
  <1>3. Rest(stack)
    BY DEF Rest
  <1>4. CASE new.ptr # NULL /\ b \in LastBlocks
    <2>1. Fallback(w, b, stack)
      BY <1>2, <1>4 DEF UnitBuffer
    <2>2. /\ MemOK(new.memory, O \cup {new.ptr}) /\ new.ptr \notin O
          /\ Left(m.heap, new.memory.heap, O)
          /\ Shown(new.memory.cache) \subseteq Shown(m.cache)
      BY <1>1, <1>4 DEF Exhausted, Gained
    <2>3. /\ MemOK(w, (O \cup {new.ptr}) \ {new.ptr})
          /\ Left(new.memory.heap, w.heap, (O \cup {new.ptr}) \ {new.ptr})
          /\ w.cache = new.memory.cache
      <3> DEFINE u == new.memory
                 q == new.ptr
                 P == O \cup {q}
      <3>1. MemOK(u, P) /\ q \in P
        BY <2>2
      <3> HIDE DEF u, P, q
      <3>2. LET x == [u EXCEPT !.heap = Free(@, q)] IN
            MemOK(x, P \ {q}) /\ Left(u.heap, x.heap, P \ {q}) /\ x.cache = u.cache
        BY <3>1, GivenBack
      <3> QED
        BY <3>2 DEF u, P, q
    <2> HIDE DEF w
    <2>4. (O \cup {new.ptr}) \ {new.ptr} = O
      BY <2>2
    <2>5. MemOK(w, O) /\ Left(new.memory.heap, w.heap, O)
            /\ Shown(w.cache) \subseteq Shown(cache)
      BY <2>2, <2>3, <2>4
    <2>6. Left(heap, w.heap, DOMAIN users)
      BY <2>2, <2>5 DEF Left
    <2> QED
      BY <1>3, <2>1, <2>5, <2>6, FallbackKeeps
  <1>5. CASE ~(new.ptr # NULL /\ b \in LastBlocks)
    <2>1. /\ SetMemory(new.memory)
          /\ IF new.ptr = NULL
             THEN Answer(TRUE, << >>, << >>) /\ errno' = TRUE /\ UNCHANGED stack
             ELSE Push(Frame("small", << b >>, new.ptr)) /\ errno' = e
      BY <1>2, <1>5 DEF UnitBuffer
    <2>2. EntriesOK(new.memory.cache)
      BY <1>1 DEF Exhausted, Gained, Loses, MemOK
    <2>3. NewMemory(new.memory)
      BY <2>1, <2>2, SetIsNew
    <2>4. IF new.ptr = NULL THEN Returns(new.memory, stack, TRUE, << >>, << >>)
          ELSE Waits(new.memory, Frame("small", << b >>, new.ptr), stack, e)
      BY <2>1, <2>3 DEF Push, Returns, Waits
    <2> QED
      BY <1>1, <1>3, <2>4, BufferKeeps
  <1> QED
    BY <1>4, <1>5

LEMMA ReadSmallKeeps ==
  ASSUME IInv, areas = << >>, UNCHANGED <<areas, users, content>>,
         NEW b \in Blocks, NEW e \in BOOLEAN, Clean,
         Stands("small", << b >>, stack, 1), Stands("again", << b >>, stack, 1),
         Answers(<< b >>, stack), ReadSmall(b, e)
  PROVE  IInv'
  <1> DEFINE w == Fetched(Memory, b)
             O == DOMAIN users \cup BuffersOf(stack)
             v == cache[IndexOf[b]].value
  <1>1. /\ MemOK(Memory, O) /\ Memory.heap = heap /\ Memory.cache = cache
        /\ EntriesOK(cache) /\ Rest(stack)
    BY MemoryOK
  <1>2. Loses(Memory, w, O) /\ Shown(w.cache) = Shown(Memory.cache)
    BY <1>1, FetchedIs
  <1> HIDE DEF w
  <1>3. /\ MemOK(w, O) /\ EntriesOK(w.cache) /\ Left(heap, w.heap, DOMAIN users)
        /\ Shown(w.cache) = Shown(cache)
    BY <1>1, <1>2 DEF Loses, MemOK, Left
  <1>4. CASE Cached(Memory, b)
    <2>1. /\ Answer(e, << b >>, << v >>) /\ SetMemory(w) /\ errno' = e /\ UNCHANGED stack
      BY <1>4 DEF ReadSmall, w
    <2>2. NewMemory(w)
      BY <1>3, <2>1, SetIsNew
    <2>3. Returns(w, stack, e, << b >>, << v >>)
      BY <2>1, <2>2 DEF Returns
    <2>4. <<b, v>> \in Shown(cache)
      BY <1>1, <1>4, ShownIs
    <2>5. <<b, v>> \in OnDisk' /\ v \in {0, 1}
      <3>1. <<b, v>> \in OnDisk /\ <<b, v>> \in Shown(w.cache)
        BY <1>3, <2>4 DEF Clean
      <3>2. v \in {0, 1}
        BY <3>1 DEF OnDisk, Holding
      <3> QED
        BY <2>2, <3>1, <3>2 DEF NewMemory
    <2> HIDE DEF v
    <2>6. Delivers(<< b >>, << v >>, OnDisk')
      <3>1. << v >> \in Seq({0, 1}) /\ Len(<< v >>) = 1 /\ << v >>[1] = v
        BY <2>5
      <3>2. \A i \in DOMAIN << b >> : i = 1
        BY OneBlock
      <3> QED
        BY <2>5, <3>1, <3>2, OneBlock DEF Delivers
    <2>7. CacheTrue'
      BY <1>3, <2>2, CacheStays DEF Clean
    <2>8. PutsClean(stack, Shown(w.cache))
      BY <1>1, <1>3, RestPuts
    <2> QED
      BY <1>1, <1>3, <2>3, <2>6, <2>7, <2>8, ReturnKeeps
  <1>5. CASE ~Cached(Memory, b)
    <2>1. UnitBuffer(Memalign(w, UnitCells, 1), b, e)
      BY <1>5 DEF ReadSmall, w
    <2> QED
      BY <1>3, <2>1, UnitBufferKeeps
  <1> QED
    BY <1>4, <1>5

\* What grub_disk_read finds in the cache: the blocks from start to stop - 1
\* are to be read, those before it have been copied, and stop is cached.
Hits(m, f) ==
    {i \in 1 .. Len(f.blocks) : Cached(m, f.blocks[i])} \cup {Len(f.blocks) + 1}
StartOf(m, f) ==
    Min(Len(f.value) + 1 .. Len(f.blocks) + 1 \ (Hits(m, f) \ {Len(f.blocks) + 1}))
StopOf(m, f) == Min({i \in Hits(m, f) : i >= StartOf(m, f)})
ValueOf(m, f, i) == m.cache[IndexOf[f.blocks[i]]].value
ValuesOf(m, f) ==
    f.value \o [i \in 1 .. StartOf(m, f) - 1 - Len(f.value) |-> ValueOf(m, f, Len(f.value) + i)]
SeenOf(m, f) ==
    FetchedAll(m, SubSeq(f.blocks, Len(f.value) + 1, Min({StopOf(m, f), Len(f.blocks)})))
AskingOf(m, f) ==
    [f EXCEPT !.value = ValuesOf(m, f), !.count = StopOf(m, f) - StartOf(m, f),
              !.hit = IF StopOf(m, f) > Len(f.blocks) THEN << >>
                      ELSE << ValueOf(m, f, StopOf(m, f)) >>]

LEMMA ScanIs ==
  ASSUME NEW m, NEW f, NEW rest, NEW e, Scan(m, f, rest, e)
  PROVE  /\ SetMemory(SeenOf(m, f)) /\ errno' = e
         /\ IF StartOf(m, f) = Len(f.blocks) + 1
            THEN stack' = rest /\ Answer(e, f.blocks, ValuesOf(m, f))
            ELSE stack' = << AskingOf(m, f) >> \o rest /\ reply' = NoReply
  BY DEF Scan, Hits, StartOf, StopOf, ValueOf, ValuesOf, SeenOf, AskingOf

LEMMA MinIs ==
  ASSUME NEW S \in SUBSET Nat, S # {}
  PROVE  Min(S) \in S /\ \A y \in S : Min(S) <= y
  BY LeastElement DEF Min

LEMMA ScanRange ==
  ASSUME NEW m, NEW f \in FrameSet, Len(f.value) <= Len(f.blocks)
  PROVE  /\ Len(f.value) \in Nat /\ Len(f.blocks) \in Nat
         /\ StartOf(m, f) \in Nat /\ StopOf(m, f) \in Nat
         /\ Len(f.value) < StartOf(m, f) /\ StartOf(m, f) <= StopOf(m, f)
         /\ StopOf(m, f) <= Len(f.blocks) + 1
         /\ StartOf(m, f) # Len(f.blocks) + 1 => StartOf(m, f) < StopOf(m, f)
         /\ \A i \in Len(f.value) + 1 .. StartOf(m, f) - 1 : Cached(m, f.blocks[i])
         /\ StopOf(m, f) <= Len(f.blocks) => Cached(m, f.blocks[StopOf(m, f)])
  <1> DEFINE n == Len(f.blocks)
             k == Len(f.value)
             H == Hits(m, f)
             S == k + 1 .. n + 1 \ (H \ {n + 1})
             start == StartOf(m, f)
             T == {i \in H : i >= start}
             stop == StopOf(m, f)
  <1>1. n \in Nat /\ k \in Nat
    BY LenProperties DEF FrameSet
  <1>2. start = Min(S) /\ stop = Min(T)
    BY DEF StartOf, StopOf
  <1>3. \A i : i \in H <=> i = n + 1 \/ (i \in 1 .. n /\ Cached(m, f.blocks[i]))
    BY DEF Hits
  <1> HIDE DEF n, k, H, start, stop
  <1>4. k <= n
    BY DEF n, k
  <1>5. n + 1 \in S /\ S \in SUBSET Nat
    BY <1>1, <1>4
  <1>6. start \in S /\ \A y \in S : start <= y
    <2> HIDE DEF S
    <2> QED
      BY <1>2, <1>5, MinIs
  <1>7. start \in Nat /\ k < start /\ start <= n + 1 /\ (start = n + 1 \/ start \notin H)
    BY <1>1, <1>6
  <1>8. n + 1 \in T /\ T \in SUBSET Nat
    BY <1>1, <1>3, <1>7
  <1>9. stop \in T /\ \A y \in T : stop <= y
    <2> HIDE DEF T
    <2> QED
      BY <1>2, <1>8, MinIs
  <1>10. stop \in H /\ stop \in Nat /\ start <= stop /\ stop <= n + 1
    BY <1>7, <1>8, <1>9
  <1>11. start # n + 1 => start < stop
    <2>1. start # n + 1 => start # stop
      BY <1>7, <1>10
    <2> QED
      BY <1>7, <1>10, <2>1
  <1>12. ASSUME NEW i \in k + 1 .. start - 1 PROVE Cached(m, f.blocks[i])
    <2>1. i \in k + 1 .. n + 1 /\ i < start /\ i # n + 1
      BY <1>1, <1>7
    <2>2. i \notin S
      BY <1>6, <1>7, <2>1
    <2>3. i \in H
      BY <2>1, <2>2
    <2> QED
      BY <1>3, <2>1, <2>3
  <1>13. stop <= n => Cached(m, f.blocks[stop])
    <2>1. stop <= n => stop # n + 1
      BY <1>1, <1>10
    <2> QED
      BY <1>3, <1>10, <2>1
  <1> QED
    BY <1>1, <1>7, <1>10, <1>11, <1>12, <1>13 DEF n, k, start, stop

LEMMA RestAdds == \A x, y \in Nat : x + (y - 1 - x) = y - 1
  OBVIOUS

LEMMA ScanValues ==
  ASSUME NEW m, EntriesOK(m.cache), NEW f \in FrameSet, Len(f.value) <= Len(f.blocks),
         NEW true, \A k \in DOMAIN f.value : <<f.blocks[k], f.value[k]>> \in true,
         Shown(m.cache) \subseteq true
  PROVE  /\ ValuesOf(m, f) \in Seq({0, 1}) /\ Len(ValuesOf(m, f)) = StartOf(m, f) - 1
         /\ \A k \in DOMAIN ValuesOf(m, f) : <<f.blocks[k], ValuesOf(m, f)[k]>> \in true
         /\ StopOf(m, f) <= Len(f.blocks) =>
                /\ ValueOf(m, f, StopOf(m, f)) \in {0, 1}
                /\ <<f.blocks[StopOf(m, f)], ValueOf(m, f, StopOf(m, f))>> \in true
  <1> DEFINE n == Len(f.blocks)
             k == Len(f.value)
             start == StartOf(m, f)
             stop == StopOf(m, f)
             v(i) == ValueOf(m, f, i)
             new == [i \in 1 .. start - 1 - k |-> v(k + i)]
             all == ValuesOf(m, f)
  <1>1. /\ k \in Nat /\ n \in Nat /\ start \in Nat /\ stop \in Nat /\ k < start
        /\ start <= stop /\ stop <= n + 1
        /\ \A i \in k + 1 .. start - 1 : Cached(m, f.blocks[i])
        /\ stop <= n => Cached(m, f.blocks[stop])
    BY ScanRange
  <1>2. /\ f.value \in Seq({0, 1}) /\ DOMAIN f.value = 1 .. k
        /\ \A i \in 1 .. n : f.blocks[i] \in Blocks
    <2>1. f.value \in Seq({0, 1}) /\ f.blocks \in Seq(Blocks)
      BY DEF FrameSet
    <2> QED
      BY <2>1, LenProperties, ElementOfSeq
  <1>3. all = f.value \o new
    BY DEF ValuesOf
  <1> HIDE DEF n, k, start, stop, all
  <1>4. ASSUME NEW i \in 1 .. n, Cached(m, f.blocks[i])
        PROVE  v(i) \in {0, 1} /\ <<f.blocks[i], v(i)>> \in true
    <2> DEFINE b == f.blocks[i]
    <2>1. b \in Blocks
      BY <1>2
    <2>2. <<b, v(i)>> \in Shown(m.cache)
      BY <1>4, <2>1, ShownIs DEF ValueOf
    <2> HIDE DEF b
    <2> DEFINE x == v(i)
    <2> HIDE DEF x
    <2>3. <<b, x>>[2] \in {0, 1}
      BY <2>2, ShownType DEF x
    <2>4. x \in {0, 1}
      BY <2>3
    <2> QED
      BY <2>2, <2>4 DEF b, x
  <1> HIDE DEF v
  <1>5. \A i \in 1 .. start - 1 - k : k + i \in k + 1 .. start - 1 /\ k + i \in 1 .. n
    BY <1>1
  <1>6. new \in Seq({0, 1}) /\ Len(new) = start - 1 - k
        /\ \A i \in 1 .. start - 1 - k : new[i] = v(k + i)
    <2>1. \A i \in 1 .. start - 1 - k : v(k + i) \in {0, 1}
      BY <1>1, <1>4, <1>5
    <2>2. start - 1 - k \in Nat
      BY <1>1
    <2> DEFINE c == start - 1 - k
    <2> HIDE DEF c
    <2>3. [i \in 1 .. c |-> v(k + i)] \in Seq({0, 1}) /\ Len([i \in 1 .. c |-> v(k + i)]) = c
      BY <2>1, <2>2 DEF c
    <2> QED
      BY <2>3 DEF c
  <1> HIDE DEF new
  <1>7. /\ all \in Seq({0, 1}) /\ Len(all) = Len(f.value) + Len(new)
        /\ \A j \in 1 .. Len(f.value) + Len(new) :
               all[j] = IF j <= Len(f.value) THEN f.value[j] ELSE new[j - Len(f.value)]
    BY <1>2, <1>3, <1>6, ConcatProperties, ZenonT(60)
  <1>8. Len(f.value) = k /\ k + (start - 1 - k) = start - 1
    <2>1. k + (start - 1 - k) = start - 1
      <3>1. k \in Nat /\ start \in Nat
        BY <1>1
      <3> QED
        BY <3>1, RestAdds
    <2> QED
      BY <2>1 DEF k
  <1>9. /\ all \in Seq({0, 1}) /\ Len(all) = start - 1 /\ DOMAIN all = 1 .. start - 1
        /\ \A j \in 1 .. start - 1 : all[j] = IF j <= k THEN f.value[j] ELSE new[j - k]
    <2>1. all \in Seq({0, 1}) /\ Len(all) = start - 1
      BY <1>6, <1>7, <1>8
    <2>2. DOMAIN all = 1 .. start - 1
      BY <2>1, LenProperties
    <2> QED
      BY <1>6, <1>7, <1>8, <2>1, <2>2
  <1>10. ASSUME NEW j \in 1 .. start - 1 PROVE <<f.blocks[j], all[j]>> \in true
    <2>1. CASE j <= k
      <3>1. j \in DOMAIN f.value /\ all[j] = f.value[j]
        BY <1>1, <1>2, <1>9, <2>1
      <3> QED
        BY <3>1
    <2>2. CASE ~(j <= k)
      <3>1. j - k \in 1 .. start - 1 - k /\ k + (j - k) = j /\ j \in k + 1 .. start - 1 /\ j \in 1 .. n
        BY <1>1, <2>2
      <3>2. all[j] = v(j)
        BY <1>6, <1>9, <2>2, <3>1
      <3> QED
        BY <1>1, <1>4, <3>1, <3>2
    <2> QED
      BY <2>1, <2>2
  <1>11. stop <= n => v(stop) \in {0, 1} /\ <<f.blocks[stop], v(stop)>> \in true
    <2>1. stop <= n => stop \in 1 .. n
      BY <1>1
    <2> QED
      BY <1>1, <1>4, <2>1
  <1> QED
    BY <1>9, <1>10, <1>11 DEF all, start, stop, v, n

LEMMA AskingIs ==
  ASSUME NEW m, EntriesOK(m.cache), NEW f \in FrameSet, f.op = "many", f.tmp = NULL,
         f.blocks # << >>, Len(f.value) <= Len(f.blocks),
         NEW true, \A k \in DOMAIN f.value : <<f.blocks[k], f.value[k]>> \in true,
         Shown(m.cache) \subseteq true, StartOf(m, f) # Len(f.blocks) + 1
  PROVE  LET g == AskingOf(m, f) IN
         /\ FrameOK(g) /\ FrameTrue(g, true)
         /\ g.op = "many" /\ g.tmp = NULL /\ g.blocks = f.blocks
  <1> DEFINE n == Len(f.blocks)
             start == StartOf(m, f)
             stop == StopOf(m, f)
             vs == ValuesOf(m, f)
             v == ValueOf(m, f, stop)
             c == stop - start
             hit == IF stop > n THEN << >> ELSE << v >>
             g == AskingOf(m, f)
  <1>1. /\ n \in Nat /\ start \in Nat /\ stop \in Nat
        /\ start < stop /\ stop <= n + 1 /\ 0 < start
    <2>1. Len(f.value) \in Nat /\ Len(f.value) < StartOf(m, f)
      BY ScanRange
    <2> QED
      BY <2>1, ScanRange
  <1>2. /\ vs \in Seq({0, 1}) /\ Len(vs) = start - 1
        /\ \A k \in DOMAIN vs : <<f.blocks[k], vs[k]>> \in true
        /\ stop <= n => v \in {0, 1} /\ <<f.blocks[stop], v>> \in true
    BY ScanValues
  <1>3. g = [f EXCEPT !.value = vs, !.count = c, !.hit = hit]
    BY DEF AskingOf
  <1> HIDE DEF n, start, stop, vs, v, g
  <1>4. c \in Nat /\ c > 0 /\ (start - 1) + c = stop - 1
    BY <1>1
  <1>5. hit \in Seq({0, 1}) /\ Len(hit) <= 1 /\ (start - 1) + c + Len(hit) <= n
        /\ (hit # << >> => stop <= n /\ hit[1] = v)
    <2>1. CASE stop > n
      <3>1. hit = << >>
        BY <2>1
      <3>2. stop - 1 <= n
        BY <1>1
      <3> HIDE DEF c, hit
      <3>3. hit \in Seq({0, 1}) /\ Len(hit) = 0
        BY <3>1, EmptySeq
      <3> QED
        BY <1>1, <1>4, <3>1, <3>2, <3>3
    <2>2. CASE ~(stop > n)
      <3>1. stop <= n
        BY <1>1, <2>2
      <3>2. v \in {0, 1} /\ hit = << v >>
        BY <1>2, <2>2, <3>1
      <3> HIDE DEF c, hit
      <3>3. hit \in Seq({0, 1}) /\ Len(hit) = 1 /\ hit[1] = v
        BY <3>2
      <3>4. (start - 1) + c + 1 <= n
        BY <1>1, <1>4, <3>1
      <3> QED
        BY <3>1, <3>3, <3>4
    <2> QED
      BY <2>1, <2>2
  <1> HIDE DEF c, hit
  <1>6. /\ g.op = "many" /\ g.tmp = NULL /\ g.blocks = f.blocks /\ g.value = vs
        /\ g.count = c /\ g.hit = hit /\ g \in FrameSet
    BY <1>2, <1>3, <1>4, <1>5 DEF FrameSet
  <1>7. FrameOK(g)
    <2>1. Len(g.value) + g.count + Len(g.hit) <= Len(g.blocks)
      BY <1>2, <1>5, <1>6 DEF n
    <2> QED
      BY <1>4, <1>5, <1>6, <2>1 DEF FrameOK
  <1>8. FrameTrue(g, true)
    <2>1. \A k \in DOMAIN g.value : <<g.blocks[k], g.value[k]>> \in true
      BY <1>2, <1>6
    <2>2. ASSUME g.hit # << >>
          PROVE  <<g.blocks[Len(g.value) + g.count + 1], g.hit[1]>> \in true
      <3>1. stop <= n /\ hit[1] = v
        BY <1>5, <1>6, <2>2
      <3>2. Len(g.value) + g.count + 1 = stop
        <4>1. (start - 1) + c + 1 = stop
          BY <1>1, <1>4
        <4> QED
          BY <1>2, <1>6, <4>1
      <3> QED
        BY <1>2, <1>6, <3>1, <3>2
    <2> QED
      BY <2>1, <2>2 DEF FrameTrue
  <1> QED
    BY <1>6, <1>7, <1>8 DEF g

LEMMA SeenIs ==
  ASSUME NEW m, NEW O, MemOK(m, O), NEW f \in FrameSet, Len(f.value) <= Len(f.blocks)
  PROVE  Loses(m, SeenOf(m, f), O) /\ Shown(SeenOf(m, f).cache) = Shown(m.cache)
  <1> DEFINE n == Len(f.blocks)
             k == Len(f.value)
             stop == StopOf(m, f)
             last == Min({stop, n})
             bs == SubSeq(f.blocks, k + 1, last)
  <1>1. n \in Nat /\ k \in Nat /\ stop \in Nat
    BY ScanRange
  <1>2. f.blocks \in Seq(Blocks) /\ \A i \in 1 .. n : f.blocks[i] \in Blocks
    <2>1. f.blocks \in Seq(Blocks)
      BY DEF FrameSet
    <2> QED
      BY <2>1, ElementOfSeq
  <1> HIDE DEF stop
  <1>3. last \in Nat /\ last <= n
    <2> DEFINE S == {stop, n}
    <2>1. S \in SUBSET Nat /\ S # {} /\ n \in S
      BY <1>1
    <2> HIDE DEF S
    <2>2. Min(S) \in S /\ Min(S) <= n
      BY <2>1, MinIs
    <2> QED
      BY <2>1, <2>2 DEF S
  <1> HIDE DEF last, n, k
  <1>4. bs \in Seq(Blocks)
    <2>1. k + 1 \in Int /\ last \in Int /\ \A i \in k + 1 .. last : f.blocks[i] \in Blocks
      BY <1>1, <1>2, <1>3
    <2> QED
      BY <1>2, <2>1, SubSeqProperties
  <1>5. SeenOf(m, f) = FetchedAll(m, bs)
    BY DEF SeenOf, last, n, k, stop
  <1> HIDE DEF bs
  <1> QED
    BY <1>4, <1>5, FetchedAllIs

\* One round of the loop of grub_disk_read.
LEMMA ScanKeeps ==
  ASSUME IInv, areas = << >>, UNCHANGED <<areas, users, content>>, NEW rest, Rest(rest),
         NEW e \in BOOLEAN, NEW m, MemOK(m, DOMAIN users \cup BuffersOf(rest)),
         Left(heap, m.heap, DOMAIN users), Shown(m.cache) \subseteq OnDisk,
         PutsClean(rest, Shown(m.cache)),
         NEW f \in FrameSet, f.op = "many", f.tmp = NULL, f.blocks # << >>,
         Len(f.value) <= Len(f.blocks),
         f.value = << >> \/ stack # << >>,
         \A k \in DOMAIN f.value : <<f.blocks[k], f.value[k]>> \in OnDisk,
         Stands("many", f.blocks, rest, 1), Answers(f.blocks, rest), Scan(m, f, rest, e)
  PROVE  IInv'
  <1> DEFINE w == SeenOf(m, f)
             O == DOMAIN users \cup BuffersOf(rest)
             n == Len(f.blocks)
             vs == ValuesOf(m, f)
             g == AskingOf(m, f)
  <1>1. /\ SetMemory(w) /\ errno' = e
        /\ IF StartOf(m, f) = n + 1
           THEN stack' = rest /\ Answer(e, f.blocks, vs)
           ELSE stack' = << g >> \o rest /\ reply' = NoReply
    BY ScanIs
  <1>2. Loses(m, w, O) /\ Shown(w.cache) = Shown(m.cache)
    BY SeenIs
  <1> HIDE DEF w
  <1>3. MemOK(w, O) /\ EntriesOK(w.cache) /\ Left(heap, w.heap, DOMAIN users)
    BY <1>2 DEF Loses, MemOK, Left
  <1>4. NewMemory(w)
    BY <1>1, <1>3, SetIsNew
  <1>5. CacheTrue'
    BY <1>2, <1>4, CacheStays
  <1>6. Shown(m.cache) \subseteq OnDisk' /\ EntriesOK(m.cache)
    BY <1>2, <1>4 DEF NewMemory, MemOK
  <1>7. \A k \in DOMAIN f.value : <<f.blocks[k], f.value[k]>> \in OnDisk'
    <2>1. f.value = << >> => DOMAIN f.value = {}
      OBVIOUS
    <2> QED
      BY <1>4, <2>1 DEF NewMemory
  <1>8. PutsClean(rest, Shown(w.cache))
    BY <1>2
  <1> DEFINE true == OnDisk'
  <1> HIDE DEF true
  <1>9. CASE StartOf(m, f) = n + 1
    <2>1. stack' = rest /\ Answer(e, f.blocks, vs)
      BY <1>1, <1>9
    <2>2. Returns(w, rest, e, f.blocks, vs)
      BY <1>1, <1>4, <2>1 DEF Returns
    <2>3. /\ vs \in Seq({0, 1}) /\ Len(vs) = StartOf(m, f) - 1
          /\ \A k \in DOMAIN vs : <<f.blocks[k], vs[k]>> \in true
      BY <1>6, <1>7, ScanValues DEF true
    <2>4. f.blocks \in Seq(Blocks) /\ n \in Nat /\ DOMAIN f.blocks = 1 .. n
      BY LenProperties DEF FrameSet
    <2> HIDE DEF vs, n
    <2>5. Len(vs) = n
      <3>1. Len(vs) = StartOf(m, f) - 1 /\ StartOf(m, f) = n + 1 /\ n \in Nat
        BY <1>9, <2>3, <2>4
      <3> QED
        BY <3>1
    <2>6. DOMAIN vs = DOMAIN f.blocks
      BY <2>3, <2>4, <2>5, LenProperties
    <2>7. Delivers(f.blocks, vs, OnDisk')
      BY <2>3, <2>4, <2>5, <2>6 DEF Delivers, true, n
    <2> QED
      BY <1>3, <1>5, <1>8, <2>2, <2>7, ReturnKeeps
  <1>10. CASE StartOf(m, f) # n + 1
    <2>1. Waits(w, g, rest, e)
      BY <1>1, <1>4, <1>10 DEF Waits
    <2>2. /\ FrameOK(g) /\ FrameTrue(g, true)
          /\ g.op = "many" /\ g.tmp = NULL /\ g.blocks = f.blocks
      BY <1>6, <1>7, <1>10, AskingIs DEF true
    <2> HIDE DEF g
    <2>3. FrameTrue(g, OnDisk')
      BY <2>2 DEF true
    <2>4. g.tmp \notin O
      <3>1. NULL \notin O
        BY <1>3, CellsNat, NullNoPointer DEF MemOK
      <3> QED
        BY <2>2, <3>1
    <2>5. MemOK(w, O \cup ({g.tmp} \ {NULL}))
      <3>1. O \cup ({g.tmp} \ {NULL}) = O
        BY <2>2
      <3> QED
        BY <1>3, <3>1
    <2>6. g.op # "put" /\ g.op \notin Writes /\ Stands(g.op, g.blocks, rest, 1)
      BY <2>2 DEF Writes
    <2> QED
      BY <1>3, <1>5, <1>8, <2>1, <2>2, <2>3, <2>4, <2>5, <2>6, WaitKeeps
  <1> QED
    BY <1>9, <1>10

-----------------------------------------------------------------------------
(* What is called from outside.                                            *)

LEMMA NoAreas ==
  ASSUME IInv, stack # << >> PROVE areas = << >>
  BY DEF IInv, AreasOK

LEMMA NoAnswer ==
  ASSUME NEW bs, NEW st, st = << >> \/ st[1].op \notin Reads PROVE Answers(bs, st)
  BY DEF Answers

LEMMA StandsAlone ==
  ASSUME NEW st, st = << >>, NEW op, NEW bs,
         op \in Writes \cup {"modify"} => \A i \in DOMAIN bs : Outermost(bs[i])
  PROVE  Stands(op, bs, st, 1)
  <1>1. Len(st) = 0
    BY EmptySeq
  <1> QED
    BY <1>1 DEF Stands

LEMMA OpenKeeps ==
  ASSUME IInv, Open PROVE IInv'
  <1> DEFINE m == InvalidateAll(Memory)
             O == DOMAIN users \cup BuffersOf(stack)
  <1>1. /\ stack = << >> /\ areas = << >> /\ SetMemory(m) /\ reply' = NoReply
        /\ areas' = areas /\ users' = users /\ content' = content /\ stack' = stack /\ errno' = errno
    BY DEF Open, Idle
  <1>2. MemOK(Memory, O) /\ Memory.heap = heap /\ Memory.cache = cache
    BY MemoryOK
  <1>3. Loses(Memory, m, O)
    BY <1>2, InvalidateAllIs
  <1> HIDE DEF m
  <1>4. /\ MemOK(m, O) /\ EntriesOK(m.cache) /\ Left(heap, m.heap, DOMAIN users)
        /\ Shown(m.cache) \subseteq Shown(cache)
    BY <1>2, <1>3 DEF Loses, MemOK, Left
  <1>5. NewMemory(m)
    BY <1>1, <1>4, SetIsNew
  <1>6. UsersOK'
    <2>1. heap' = m.heap
      BY <1>5 DEF NewMemory
    <2> QED
      BY <1>1, <1>4, <2>1, StepUsers DEF IInv
  <1>7. errno' \in BOOLEAN /\ DOMAIN users' \cap BuffersOf(stack) = {}
    BY <1>1 DEF IInv, ValuesOK, HeapOK
  <1>8. MemOK(m, DOMAIN users' \cup BuffersOf(stack))
    BY <1>1, <1>4
  <1> QED
    BY <1>1, <1>4, <1>5, <1>6, <1>7, <1>8, QuietKeeps

LEMMA ReadKeeps ==
  ASSUME IInv, NEW b \in Blocks, Read(b) PROVE IInv'
  <1>1. stack = << >> /\ areas = << >> /\ ReadSmall(b, FALSE) /\ UNCHANGED <<areas, users, content>>
    BY DEF Read, Idle
  <1>2. Stands("small", << b >>, stack, 1) /\ Stands("again", << b >>, stack, 1)
    BY <1>1, StandsAlone DEF Writes
  <1>3. Answers(<< b >>, stack) /\ Clean
    BY <1>1, NoAnswer, CleanIs
  <1>4. FALSE \in BOOLEAN
    OBVIOUS
  <1> QED
    BY <1>1, <1>2, <1>3, <1>4, ReadSmallKeeps

LEMMA ReadManyKeeps ==
  ASSUME IInv, areas = << >>, UNCHANGED <<areas, users, content>>,
         NEW bs \in Seq(Blocks), bs # << >>, NEW e \in BOOLEAN, Clean,
         Stands("many", bs, stack, 1), Answers(bs, stack), ReadMany(bs, e)
  PROVE  IInv'
  <1> DEFINE f == Frame("many", bs, NULL)
             O == DOMAIN users \cup BuffersOf(stack)
  <1>1. Scan(Memory, f, stack, e)
    BY DEF ReadMany
  <1>2. /\ MemOK(Memory, O) /\ Memory.heap = heap /\ Memory.cache = cache
        /\ Rest(stack) /\ Left(heap, Memory.heap, DOMAIN users)
    BY MemoryOK
  <1>3. f = [op |-> "many", blocks |-> bs, value |-> << >>, tmp |-> NULL,
             count |-> Len(bs), hit |-> << >>]
    BY DEF Frame
  <1>4. Len(bs) \in Nat
    BY LenProperties
  <1> HIDE DEF f
  <1>5. /\ f.op = "many" /\ f.tmp = NULL /\ f.blocks = bs /\ f.value = << >>
        /\ f \in FrameSet
    BY <1>3, <1>4 DEF FrameSet, Reads
  <1>6. Len(f.value) <= Len(f.blocks) /\ DOMAIN f.value = {}
    BY <1>4, <1>5
  <1>7. PutsClean(stack, Shown(Memory.cache)) /\ Shown(Memory.cache) \subseteq OnDisk
    BY <1>2, RestPuts DEF Clean
  <1>8. Stands("many", f.blocks, stack, 1) /\ Answers(f.blocks, stack) /\ f.blocks # << >>
    BY <1>5
  <1>9. \A k \in DOMAIN f.value : <<f.blocks[k], f.value[k]>> \in OnDisk
    BY <1>6
  <1> QED
    BY <1>1, <1>2, <1>5, <1>6, <1>7, <1>8, <1>9, ScanKeeps

LEMMA ReadRunKeeps ==
  ASSUME IInv, NEW bs \in Spans, ReadRun(bs) PROVE IInv'
  <1>1. stack = << >> /\ areas = << >> /\ ReadMany(bs, FALSE) /\ UNCHANGED <<areas, users, content>>
    BY DEF ReadRun, Idle
  <1>2. bs \in Seq(Blocks) /\ bs # << >>
    BY CallAssumption
  <1>3. Stands("many", bs, stack, 1)
    BY <1>1, StandsAlone DEF Writes
  <1>4. Answers(bs, stack) /\ Clean
    BY <1>1, NoAnswer, CleanIs
  <1>5. FALSE \in BOOLEAN
    OBVIOUS
  <1> QED
    BY <1>1, <1>2, <1>3, <1>4, <1>5, ReadManyKeeps

\* A call that needs no buffer, and comes before anything has been done.
LEMMA CallKeeps ==
  ASSUME IInv, areas = << >>, UNCHANGED <<areas, users, heap, cache, content, torn>>,
         NEW op \in Writes \cup {"modify"}, NEW bs \in Seq(Blocks), bs # << >>,
         op \in {"modify", "put"} => Len(bs) = 1, op # "put",
         stack' = << Frame(op, bs, NULL) >> \o stack, reply' = NoReply, errno' \in BOOLEAN,
         Clean, Stands(op, bs, stack, 1),
         op = "write" /\ errno' => Shown(cache) = {}
  PROVE  IInv'
  <1> DEFINE f == Frame(op, bs, NULL)
             O == DOMAIN users \cup BuffersOf(stack)
  <1>1. /\ MemOK(Memory, O) /\ Memory.heap = heap /\ Memory.cache = cache
        /\ Rest(stack) /\ Left(heap, Memory.heap, DOMAIN users)
    BY MemoryOK
  <1>2. NewMemory(Memory)
    BY SameIsNew
  <1>3. Waits(Memory, f, stack, errno')
    BY <1>2 DEF Waits
  <1>4. FrameOK(f) /\ f.op = op /\ f.blocks = bs /\ f.tmp = NULL /\ \A S : FrameTrue(f, S)
    <2>1. op \in Reads \cup Writes \cup {"modify"} /\ NULL \in Cells \cup {NULL}
      OBVIOUS
    <2>2. op \notin {"small", "again"}
      BY DEF Writes
    <2> QED
      BY <2>1, <2>2, FrameIs
  <1> HIDE DEF f
  <1>5. CacheTrue'
    BY <1>1, <1>2, CacheStays DEF Clean
  <1>6. f.tmp \notin O /\ O \cup ({f.tmp} \ {NULL}) = O
    <2>1. NULL \notin O
      BY <1>1, NullNoPointer DEF MemOK
    <2> QED
      BY <1>4, <2>1
  <1>7. PutsClean(stack, Shown(Memory.cache))
    BY <1>1, RestPuts
  <1>8. f.op # "put" /\ (f.op \in Writes /\ errno' => Shown(Memory.cache) = {})
    BY <1>1, <1>4 DEF Writes
  <1>9. Stands(f.op, f.blocks, stack, 1) /\ FrameTrue(f, OnDisk')
    BY <1>4
  <1>10. MemOK(Memory, O \cup ({f.tmp} \ {NULL}))
    BY <1>1, <1>6
  <1>11. f.tmp \notin O
    BY <1>6
  <1> QED
    BY <1>1, <1>3, <1>4, <1>5, <1>7, <1>8, <1>9, <1>10, <1>11, WaitKeeps

LEMMA WriteKeeps ==
  ASSUME IInv, NEW bs \in Spans, Write(bs) PROVE IInv'
  <1>1. /\ stack = << >> /\ areas = << >> /\ \A i \in DOMAIN bs : Outermost(bs[i])
        /\ stack' = << Frame("write", bs, NULL) >> \o stack /\ reply' = NoReply /\ errno' = FALSE
        /\ UNCHANGED <<areas, heap, users, cache, content, torn>>
    BY DEF Write, Idle, Push
  <1>2. bs \in Seq(Blocks) /\ bs # << >>
    BY CallAssumption
  <1>3. Stands("write", bs, stack, 1) /\ Clean
    BY <1>1, StandsAlone, CleanIs
  <1>4. "write" \in Writes \cup {"modify"} /\ "write" \notin {"modify", "put"}
    BY DEF Writes
  <1>5. errno' \in BOOLEAN /\ ~errno'
    BY <1>1
  <1> QED
    BY <1>1, <1>2, <1>3, <1>4, <1>5, CallKeeps

LEMMA WritePartKeeps ==
  ASSUME IInv, NEW b \in Blocks, WritePart(b) PROVE IInv'
  <1>1. /\ stack = << >> /\ areas = << >> /\ Outermost(b)
        /\ stack' = << Frame("modify", << b >>, NULL) >> \o stack /\ reply' = NoReply /\ errno' = FALSE
        /\ UNCHANGED <<areas, heap, users, cache, content, torn>>
    BY DEF WritePart, Idle, Push
  <1>2. /\ << b >> \in Seq(Blocks) /\ << b >> # << >> /\ Len(<< b >>) = 1
        /\ \A i \in DOMAIN << b >> : Outermost(<< b >>[i])
    BY <1>1, OneBlock
  <1>3. Stands("modify", << b >>, stack, 1) /\ Clean
    BY <1>1, <1>2, StandsAlone, CleanIs
  <1>4. "modify" \in Writes \cup {"modify"} /\ "modify" # "put" /\ "modify" # "write"
    BY DEF Writes
  <1>5. errno' \in BOOLEAN
    BY <1>1
  <1> QED
    BY <1>1, <1>2, <1>3, <1>4, <1>5, CallKeeps

-----------------------------------------------------------------------------
(* Calls that wait for another one.                                        *)

LEMMA TopIs ==
  ASSUME IInv, stack # << >>
  PROVE  /\ Top = stack[1] /\ Top \in FrameSet /\ FrameOK(Top) /\ areas = << >>
         /\ Tail(stack) \in Seq(FrameSet) /\ Tops(stack, Top, Tail(stack)) /\ Rest(Tail(stack))
         /\ StackGood(Tail(stack)) /\ Stands(Top.op, Top.blocks, Tail(stack), 1)
         /\ BuffersOf(stack) = BuffersOf(Tail(stack)) \cup ({Top.tmp} \ {NULL})
         /\ Top.tmp \notin BuffersOf(Tail(stack))
         /\ 1 \in DOMAIN stack
  <1> DEFINE rest == Tail(stack)
  <1>1. StackGood(stack) /\ stack \in Seq(FrameSet) /\ OneEach(stack)
    BY DEF IInv, StackOK, HeapOK, StackGood
  <1>2. /\ rest \in Seq(FrameSet) /\ Tops(stack, stack[1], rest) /\ Top = stack[1]
        /\ stack[1] \in FrameSet /\ 1 \in DOMAIN stack
    BY <1>1, PopTops DEF Top
  <1>3. Rest(rest)
    BY DEF Rest
  <1> HIDE DEF rest
  <1>4. StackGood(rest) /\ FrameOK(stack[1]) /\ Stands(stack[1].op, stack[1].blocks, rest, 1)
    BY <1>1, <1>2, TopsGood
  <1>5. /\ BuffersOf(stack) = BuffersOf(rest) \cup ({stack[1].tmp} \ {NULL})
        /\ stack[1].tmp \notin BuffersOf(rest)
    BY <1>1, <1>2, TopsBuffers
  <1>6. areas = << >>
    BY NoAreas
  <1> QED
    BY <1>2, <1>3, <1>4, <1>5, <1>6 DEF rest

LEMMA Single ==
  ASSUME NEW S, NEW bs \in Seq(S), Len(bs) = 1
  PROVE  bs = << bs[1] >> /\ bs[1] \in S /\ DOMAIN bs = {1}
  <1>1. 1 \in 1 .. Len(bs) /\ DOMAIN bs = 1 .. Len(bs)
    BY LenProperties
  <1>2. bs[1] \in S
    BY <1>1, ElementOfSeq
  <1>3. << bs[1] >> \in Seq(S) /\ Len(<< bs[1] >>) = 1 /\ << bs[1] >>[1] = bs[1]
    BY <1>2
  <1>4. \A i \in 1 .. Len(bs) : bs[i] = << bs[1] >>[i]
    <2>1. \A i \in 1 .. Len(bs) : i = 1
      OBVIOUS
    <2> QED
      BY <1>3, <2>1
  <1>5. bs = << bs[1] >>
    BY <1>3, <1>4, SeqEqual
  <1> QED
    BY <1>1, <1>2, <1>5

LEMMA ReadToModifyKeeps ==
  ASSUME IInv, ReadToModify PROVE IInv'
  <1> DEFINE b == Top.blocks[1]
  <1>1. /\ stack # << >> /\ Top.op = "modify" /\ ~reply.done
        /\ ReadSmall(b, errno) /\ UNCHANGED <<areas, users, content>>
    BY DEF ReadToModify
  <1>2. Top = stack[1] /\ FrameOK(Top) /\ areas = << >> /\ 1 \in DOMAIN stack /\ Top \in FrameSet
    BY <1>1, TopIs
  <1>3. Top.blocks = << b >> /\ b \in Blocks
    <2>1. Top.blocks \in Seq(Blocks) /\ Len(Top.blocks) = 1
      BY <1>1, <1>2 DEF FrameOK, FrameSet
    <2> QED
      BY <2>1, Single
  <1> HIDE DEF b
  <1>4. Len(stack) = 1
    <2>1. stack[1].op \in {"modify", "put"} /\ StackGood(stack)
      BY <1>1, <1>2 DEF IInv, StackOK
    <2> QED
      BY <1>2, <2>1, ModifyLast
  <1>5. stack[1].op = "modify" /\ stack[1].blocks = << b >>
    BY <1>1, <1>2, <1>3
  <1>6. ASSUME NEW op \in {"small", "again"} PROVE Stands(op, << b >>, stack, 1)
    <2>1. Calls(stack[1], op, << b >>)
      BY <1>5 DEF Calls
    <2> QED
      BY <1>4, <1>5, <2>1 DEF Stands
  <1>7. Answers(<< b >>, stack)
    BY <1>5, NoAnswer DEF Reads
  <1>8. Clean /\ errno \in BOOLEAN
    BY <1>1, CleanIs DEF IInv, ReplyTrue, ValuesOK
  <1> QED
    BY <1>1, <1>2, <1>3, <1>6, <1>7, <1>8, ReadSmallKeeps

\* What a call of a read waits for.
LEMMA AskedIs ==
  ASSUME NEW f, FrameOK(f), f.op \in Reads
  PROVE  /\ Asked(f) \in Seq(Blocks) /\ Asked(f) # << >>
         /\ Len(Asked(f)) = f.count /\ DOMAIN Asked(f) = 1 .. f.count
         /\ f.count \in Nat /\ f.count > 0
         /\ \A i \in 1 .. f.count :
                /\ Asked(f)[i] = f.blocks[Len(f.value) + i]
                /\ Len(f.value) + i \in DOMAIN f.blocks
         /\ f.op # "many" => Asked(f) = f.blocks
  <1> DEFINE n == Len(f.blocks)
             k == Len(f.value)
             c == f.count
             bs == f.blocks
             q == SubSeq(bs, k + 1, k + c)
  <1>1. /\ bs \in Seq(Blocks) /\ n \in Nat /\ k \in Nat /\ c \in Nat /\ bs # << >>
        /\ DOMAIN bs = 1 .. n
    BY LenProperties DEF FrameOK, FrameSet
  <1>2. c > 0 /\ k + c <= n /\ (f.op # "many" => k = 0 /\ c = n)
    <2>1. CASE f.op = "many"
      <3>1. f.count > 0 /\ Len(f.value) + f.count + Len(f.hit) <= Len(f.blocks)
        BY <2>1 DEF FrameOK
      <3>2. Len(f.hit) \in Nat
        BY LenProperties DEF FrameOK, FrameSet
      <3> QED
        BY <1>1, <2>1, <3>1, <3>2
    <2>2. CASE f.op # "many"
      <3>1. f.value = << >> /\ f.count = Len(f.blocks)
        BY <2>2 DEF FrameOK
      <3>2. n > 0
        BY <1>1, EmptySeq
      <3> QED
        BY <1>1, <2>2, <3>1, <3>2, EmptySeq
    <2> QED
      BY <2>1, <2>2
  <1>3. Asked(f) = q
    BY DEF Asked
  <1> HIDE DEF n, k, c, bs
  <1>4. k + 1 \in 1 .. n + 1 /\ k + c \in k .. n
    BY <1>1, <1>2
  <1>5. q \in Seq(Blocks) /\ Len(q) = c /\ \A i \in 1 .. c : q[i] = bs[k + i]
    <2>1. ASSUME NEW i \in 1 .. c PROVE bs[k + i] \in Blocks
      <3>1. k + i \in 1 .. Len(bs)
        BY <1>1, <1>2 DEF n, bs
      <3> QED
        BY <1>1, <3>1, ElementOfSeq
    <2>2. k + 1 \in Int /\ k + c \in Int /\ k + 1 <= k + c /\ (k + c) - (k + 1) + 1 = c
      BY <1>1, <1>2
    <2>3. ASSUME NEW i \in k + 1 .. k + c PROVE bs[i] \in Blocks
      <3>1. i - k \in 1 .. c /\ k + (i - k) = i
        BY <1>1, <2>2
      <3> QED
        BY <2>1, <3>1
    <2>4. /\ q \in Seq(Blocks)
          /\ Len(q) = IF k + 1 <= k + c THEN (k + c) - (k + 1) + 1 ELSE 0
          /\ \A i \in 1 .. (k + c) - (k + 1) + 1 : q[i] = bs[(k + 1) + i - 1]
      BY <2>2, <2>3, SubSeqProperties
    <2>5. \A i \in 1 .. c : (k + 1) + i - 1 = k + i
      BY <1>1
    <2> QED
      BY <2>2, <2>4, <2>5
  <1> HIDE DEF q
  <1>6. \A i \in 1 .. c : k + i \in DOMAIN bs
    BY <1>1, <1>2
  <1>7. q # << >> /\ DOMAIN q = 1 .. c
    BY <1>2, <1>5, EmptySeq, LenProperties
  <1>8. f.op # "many" => q = bs
    <2> SUFFICES ASSUME f.op # "many" PROVE q = bs
      OBVIOUS
    <2>1. k = 0 /\ Len(bs) = c
      BY <1>2 DEF n, bs
    <2>2. \A i \in 1 .. c : q[i] = bs[i]
      BY <1>5, <2>1
    <2> QED
      BY <1>1, <1>5, <2>1, <2>2, SeqEqual
  <1> QED
    BY <1>1, <1>2, <1>3, <1>5, <1>6, <1>7, <1>8 DEF k, c, bs

\* The blocks of the disk below.
LEMMA BelowIs ==
  ASSUME NEW q \in Seq(Blocks), q # << >>, ToSet(q) \cap Physical = {}
  PROVE  /\ Below(q) \in Seq(Blocks) /\ Below(q) # << >>
         /\ Len(Below(q)) = Len(q) /\ DOMAIN Below(q) = DOMAIN q
         /\ ToSet(Below(q)) \subseteq Physical
         /\ \A i \in DOMAIN q : Below(q)[i] = Under[q[i]] /\ Base(Below(q)[i]) = Base(q[i])
  <1> DEFINE n == Len(q)
             u == Below(q)
  <1>1. n \in Nat /\ DOMAIN q = 1 .. n /\ n # 0
    BY LenProperties, EmptySeq
  <1>2. \A i \in 1 .. n : q[i] \in Blocks /\ q[i] \notin Physical
    <2> SUFFICES ASSUME NEW i \in 1 .. n PROVE q[i] \in Blocks /\ q[i] \notin Physical
      OBVIOUS
    <2>1. q[i] \in Blocks
      BY ElementOfSeq
    <2>2. q[i] \in ToSet(q)
      BY <1>1 DEF ToSet
    <2> QED
      BY <2>1, <2>2
  <1>3. \A i \in 1 .. n : /\ Under[q[i]] \in Blocks /\ Under[q[i]] # None
                          /\ Under[Under[q[i]]] = None
    BY <1>2, DiskAssumption DEF Physical
  <1>4. u = [i \in 1 .. n |-> Under[q[i]]]
    BY <1>1 DEF Below
  <1> HIDE DEF u, n
  <1>5. u \in Seq(Blocks) /\ Len(u) = n /\ DOMAIN u = 1 .. n
    BY <1>1, <1>3, <1>4
  <1>6. u # << >>
    BY <1>1, <1>5, EmptySeq
  <1>7. \A i \in 1 .. n : u[i] = Under[q[i]]
    BY <1>4
  <1>8. \A i \in 1 .. n : u[i] \in Physical /\ Base(u[i]) = Base(q[i])
    BY <1>3, <1>7 DEF Physical, Base
  <1>9. ToSet(u) \subseteq Physical
    BY <1>5, <1>8 DEF ToSet
  <1> QED
    BY <1>1, <1>5, <1>6, <1>7, <1>8, <1>9 DEF u, n

\* The driver of a disk that lies on another one calls for the blocks of that.
LEMMA BelowStands ==
  ASSUME NEW st, StackGood(st), st # << >>, st[1].op # "modify",
         NEW q \in Seq(Blocks), q # << >>, ToSet(q) \cap Physical = {},
         ToSet(q) \subseteq ToSet(st[1].blocks),
         NEW op, Calls(st[1], op, Below(q))
  PROVE  Stands(op, Below(q), st, 1)
  <1> DEFINE n == Len(st)
             u == Below(q)
  <1>1. n \in Nat /\ n <= 3 /\ DOMAIN st = 1 .. n
    BY StackLength
  <1>2. n # 0
    BY EmptySeq DEF StackGood
  <1>3. ToSet(u) \subseteq Physical
    BY BelowIs
  <1> HIDE DEF n, u
  <1>4. n >= 2 => st[2].op = "modify"
    <2> SUFFICES ASSUME n >= 2, st[2].op # "modify" PROVE FALSE
      OBVIOUS
    <2>1. Stands(st[1].op, st[1].blocks, st, 1 + 1)
      BY <1>1, <1>2 DEF StackGood
    <2>2. ToSet(st[1].blocks) \subseteq Physical
      <3>1. 1 + 1 = 2 /\ 2 <= Len(st)
        BY DEF n
      <3> QED
        BY <2>1, <3>1 DEF Stands
    <2>3. q[1] \in ToSet(q)
      <3>1. 1 \in DOMAIN q
        BY EmptySeq, LenProperties
      <3> QED
        BY <3>1 DEF ToSet
    <2> QED
      BY <2>2, <2>3
  <1>5. n <= 2
    <2> SUFFICES ASSUME n > 2 PROVE FALSE
      BY <1>1
    <2>1. 2 \in DOMAIN st /\ st[2].op \in {"modify", "put"}
      BY <1>1, <1>4
    <2> QED
      BY <2>1, ModifyLast DEF n
  <1>6. /\ ~(1 > n) /\ 1 + 2 > n /\ (1 + 1 <= n => st[1 + 1].op = "modify")
    <2>1. 1 + 1 = 2
      OBVIOUS
    <2> QED
      BY <1>1, <1>2, <1>4, <1>5, <2>1
  <1> QED
    BY <1>3, <1>6 DEF Stands, n, u

LEMMA AskedIn ==
  ASSUME NEW f, FrameOK(f), f.op \in Reads
  PROVE  ToSet(Asked(f)) \subseteq ToSet(f.blocks)
  BY AskedIs DEF ToSet

LEMMA DriverReadsBelowKeeps ==
  ASSUME IInv, DriverReadsBelow PROVE IInv'
  <1> DEFINE q == Asked(Top)
             bs == Below(q)
  <1>1. /\ stack # << >> /\ Top.op \in Reads /\ ~reply.done
        /\ ToSet(q) \cap Physical = {}
        /\ IF Top.op = "again" THEN ReadSmall(Under[Top.blocks[1]], errno)
           ELSE ReadMany(bs, errno)
        /\ UNCHANGED <<areas, users, content>>
    BY DEF DriverReadsBelow, InDriver
  <1>2. Top = stack[1] /\ FrameOK(Top) /\ areas = << >> /\ Top \in FrameSet /\ StackGood(stack)
    BY <1>1, TopIs DEF IInv, StackOK
  <1>3. /\ q \in Seq(Blocks) /\ q # << >> /\ ToSet(q) \subseteq ToSet(Top.blocks)
        /\ Top.op # "many" => q = Top.blocks
    BY <1>1, <1>2, AskedIs, AskedIn
  <1>4. ASSUME NEW op \in Reads PROVE Stands(op, bs, stack, 1)
    <2>1. Calls(stack[1], op, bs)
      BY <1>1, <1>2 DEF Calls
    <2>2. stack[1].op # "modify"
      BY <1>1, <1>2 DEF Reads
    <2> HIDE DEF q
    <2> QED
      BY <1>1, <1>2, <1>3, <2>1, <2>2, BelowStands
  <1>5. /\ bs \in Seq(Blocks) /\ bs # << >> /\ Len(bs) = Len(q) /\ DOMAIN bs = DOMAIN q
        /\ \A i \in DOMAIN q : bs[i] = Under[q[i]] /\ Base(bs[i]) = Base(q[i])
    <2> HIDE DEF q
    <2> QED
      BY <1>1, <1>3, BelowIs
  <1>6. Answers(bs, stack)
    BY <1>2, <1>5 DEF Answers
  <1>7. Clean /\ errno \in BOOLEAN
    BY <1>1, CleanIs DEF IInv, ReplyTrue, ValuesOK
  <1> HIDE DEF bs, q
  <1>8. CASE Top.op = "again"
    <2> DEFINE b == Under[Top.blocks[1]]
    <2>1. q = Top.blocks /\ Len(q) = 1
      BY <1>2, <1>3, <1>8 DEF FrameOK
    <2>2. bs = << bs[1] >> /\ bs[1] \in Blocks /\ bs[1] = b
      <3>1. 1 \in DOMAIN q
        BY <1>3, <2>1, LenProperties
      <3>2. bs = << bs[1] >> /\ bs[1] \in Blocks
        BY <1>5, <2>1, Single
      <3> QED
        BY <1>5, <2>1, <3>1, <3>2
    <2>3. ReadSmall(b, errno)
      BY <1>1, <1>8
    <2> HIDE DEF b
    <2>4. b \in Blocks /\ bs = << b >>
      BY <2>2
    <2>5. Stands("small", << b >>, stack, 1) /\ Stands("again", << b >>, stack, 1)
      BY <1>4, <2>4 DEF Reads
    <2>6. Answers(<< b >>, stack)
      BY <1>6, <2>4
    <2> QED
      BY <1>1, <1>2, <1>7, <2>3, <2>4, <2>5, <2>6, ReadSmallKeeps
  <1>9. CASE Top.op # "again"
    <2>1. ReadMany(bs, errno)
      BY <1>1, <1>9
    <2>2. Stands("many", bs, stack, 1)
      BY <1>4 DEF Reads
    <2> QED
      BY <1>1, <1>2, <1>5, <1>6, <1>7, <2>1, <2>2, ReadManyKeeps
  <1> QED
    BY <1>8, <1>9

LEMMA DriverWritesBelowKeeps ==
  ASSUME IInv, DriverWritesBelow PROVE IInv'
  <1> DEFINE q == Top.blocks
             bs == Below(q)
  <1>1. /\ stack # << >> /\ Top.op \in Writes /\ ~reply.done
        /\ ToSet(q) \cap Physical = {}
        /\ stack' = << Frame("write", bs, NULL) >> \o stack /\ reply' = NoReply
        /\ UNCHANGED <<areas, heap, users, cache, content, errno, torn>>
    BY DEF DriverWritesBelow, InDriver, Push
  <1>2. Top = stack[1] /\ FrameOK(Top) /\ areas = << >> /\ Top \in FrameSet /\ StackGood(stack)
    BY <1>1, TopIs DEF IInv, StackOK
  <1>3. q \in Seq(Blocks) /\ q # << >>
    BY <1>2 DEF FrameOK, FrameSet
  <1>4. Stands("write", bs, stack, 1)
    <2>1. Calls(stack[1], "write", bs)
      BY <1>1, <1>2 DEF Calls
    <2>2. stack[1].op # "modify" /\ ToSet(q) \subseteq ToSet(stack[1].blocks)
      BY <1>1, <1>2 DEF Writes
    <2> HIDE DEF q
    <2> QED
      BY <1>1, <1>2, <1>3, <2>1, <2>2, BelowStands
  <1>5. bs \in Seq(Blocks) /\ bs # << >>
    <2> HIDE DEF q
    <2> QED
      BY <1>1, <1>3, BelowIs
  <1>6. Clean /\ errno' \in BOOLEAN
    BY <1>1, CleanIs DEF IInv, ReplyTrue, ValuesOK
  <1> HIDE DEF bs, q
  <1>7. errno' => Shown(cache) = {}
    <2>1. stack[1].op \in Writes /\ errno /\ (reply.done => reply.ok) => Shown(cache) = {}
      BY <1>1 DEF IInv, WriteOK
    <2> QED
      BY <1>1, <1>2, <2>1
  <1>8. "write" \in Writes \cup {"modify"} /\ "write" \notin {"modify", "put"}
    BY DEF Writes
  <1>9. UNCHANGED <<areas, users, heap, cache, content, torn>>
    BY <1>1
  <1>10. "write" # "put" /\ ("write" \in {"modify", "put"} => Len(bs) = 1)
    OBVIOUS
  <1>11. stack' = << Frame("write", bs, NULL) >> \o stack /\ reply' = NoReply
    BY <1>1
  <1>12. "write" = "write" /\ errno' => Shown(cache) = {}
    BY <1>7
  <1> QED
    BY <1>2, <1>4, <1>5, <1>6, <1>8, <1>9, <1>10, <1>11, <1>12, CallKeeps

-----------------------------------------------------------------------------
(* Drivers.                                                                *)

LEMMA DriverFailsKeeps ==
  ASSUME IInv, stack # << >>, ~reply.done, DriverFails, UNCHANGED <<content, torn>>
  PROVE  IInv'
  <1>1. /\ errno' = TRUE /\ Answer(TRUE, << >>, << >>)
        /\ areas' = areas /\ heap' = heap /\ users' = users /\ cache' = cache /\ stack' = stack
    BY DEF DriverFails
  <1>2. /\ MemOK(Memory, DOMAIN users \cup BuffersOf(stack)) /\ Memory.cache = cache
        /\ Rest(stack) /\ Left(heap, Memory.heap, DOMAIN users)
    BY MemoryOK
  <1>3. NewMemory(Memory)
    BY <1>1, SameIsNew
  <1>4. Returns(Memory, stack, TRUE, << >>, << >>)
    BY <1>1, <1>3 DEF Returns
  <1>5. Clean /\ areas = << >>
    BY CleanIs, NoAreas DEF IInv, ReplyTrue
  <1>6. CacheTrue'
    BY <1>2, <1>3, <1>5, CacheStays DEF Clean
  <1>7. PutsClean(stack, Shown(Memory.cache))
    BY <1>2, RestPuts
  <1>8. TRUE \in BOOLEAN
    OBVIOUS
  <1> QED
    BY <1>1, <1>2, <1>4, <1>5, <1>6, <1>7, <1>8, ReturnKeeps

\* Heap, cache, stack and what other code has stay.
LEMMA SameParts ==
  ASSUME IInv, UNCHANGED <<areas, heap, users, cache, stack>>
  PROVE  /\ AreasOK' /\ HeapOK' /\ UsersOK' /\ StackOK'
         /\ PutsClean(stack', Shown(cache')) /\ Shown(cache') = Shown(cache)
  <1>1. AreasOK'
    BY DEF IInv, AreasOK
  <1>2. HeapOK'
    BY DEF IInv, HeapOK, Memory
  <1>3. UsersOK' /\ StackOK'
    BY DEF IInv, UsersOK, StackOK
  <1>4. PutsClean(stack', Shown(cache')) /\ Shown(cache') = Shown(cache)
    BY DEF IInv, WriteOK
  <1> QED
    BY <1>1, <1>2, <1>3, <1>4

LEMMA StoredTrue ==
  ASSUME ValuesOK, NEW bs \in Seq(Blocks)
  PROVE  Delivers(bs, Stored(bs), OnDisk)
  <1> DEFINE n == Len(bs)
             vs == Stored(bs)
  <1>1. n \in Nat /\ DOMAIN bs = 1 .. n /\ \A i \in 1 .. n : bs[i] \in Blocks
    BY LenProperties, ElementOfSeq
  <1>2. ASSUME NEW b \in Blocks PROVE Base(b) \in Physical /\ content[Base(b)] \in {0, 1}
    <2>1. Base(b) \in Physical
      BY DiskAssumption DEF Base, Physical
    <2>2. content \in [Physical -> {0, 1}]
      BY DEF ValuesOK
    <2> QED
      BY <2>1, <2>2
  <1>3. vs = [i \in 1 .. n |-> content[Base(bs[i])]]
    BY <1>1 DEF Stored
  <1> HIDE DEF n, vs
  <1>4. vs \in Seq({0, 1}) /\ Len(vs) = n
    BY <1>1, <1>2, <1>3
  <1>5. \A i \in 1 .. n : vs[i] = content[Base(bs[i])] /\ vs[i] \in {0, 1}
    BY <1>1, <1>2, <1>3
  <1>6. \A i \in DOMAIN bs : <<bs[i], vs[i]>> \in OnDisk
    BY <1>1, <1>5 DEF OnDisk, Holding
  <1> QED
    BY <1>4, <1>6 DEF Delivers, n, vs

LEMMA DriverReadKeeps ==
  ASSUME IInv, DriverRead PROVE IInv'
  <1> DEFINE q == Asked(Top)
  <1>1. /\ stack # << >> /\ Top.op \in Reads /\ ~reply.done
        /\ \/ DriverFails /\ UNCHANGED <<content, torn>>
           \/ /\ Answer(FALSE, q, Stored(q))
              /\ UNCHANGED <<areas, heap, users, cache, content, stack, errno, torn>>
    BY DEF DriverRead, InDriver
  <1>2. CASE DriverFails /\ UNCHANGED <<content, torn>>
    BY <1>1, <1>2, DriverFailsKeeps
  <1>3. CASE /\ Answer(FALSE, q, Stored(q))
             /\ UNCHANGED <<areas, heap, users, cache, content, stack, errno, torn>>
    <2>1. Top = stack[1] /\ FrameOK(Top)
      BY <1>1, TopIs
    <2>2. q \in Seq(Blocks)
      BY <1>1, <2>1, AskedIs
    <2>3. Delivers(q, Stored(q), OnDisk)
      BY <2>2, StoredTrue DEF IInv
    <2>4. reply' = [done |-> TRUE, ok |-> TRUE, blocks |-> q, value |-> Stored(q)]
      BY <1>3 DEF Answer
    <2>5. Answers(q, stack)
      BY <2>1 DEF Answers
    <2> HIDE DEF q
    <2>6. reply' \in ReplySet
      BY <2>3, <2>4 DEF Delivers, ReplySet
    <2>7. OnDisk' = OnDisk
      BY <1>3 DEF OnDisk
    <2>8. ReplyTrue'
      BY <1>3, <2>3, <2>4, <2>5, <2>6, <2>7 DEF ReplyTrue
    <2>9. /\ AreasOK' /\ HeapOK' /\ UsersOK' /\ StackOK'
          /\ PutsClean(stack', Shown(cache')) /\ Shown(cache') = Shown(cache)
      BY <1>3, SameParts
    <2>10. ValuesOK'
      BY <1>3 DEF IInv, ValuesOK
    <2>11. FramesTrue'
      BY <1>3, <2>7 DEF IInv, FramesTrue
    <2>12. Clean
      BY <1>1, CleanIs DEF IInv, ReplyTrue
    <2>13. CacheTrue'
      BY <2>7, <2>9, <2>12 DEF Clean, CacheTrue
    <2>14. WriteOK'
      <3>1. stack'[1].op # "modify" /\ stack'[1].op \notin Writes
        BY <1>1, <1>3, <2>1 DEF Reads, Writes
      <3> QED
        BY <2>9, <3>1 DEF WriteOK
    <2> QED
      BY <2>8, <2>9, <2>10, <2>11, <2>13, <2>14 DEF IInv
  <1> QED
    BY <1>1, <1>2, <1>3

LEMMA ToggledIs ==
  ASSUME ValuesOK, NEW bs
  PROVE  /\ Toggled(bs) \in [Physical -> {0, 1}]
         /\ \A p \in Physical : p \notin ToSet(bs) => Toggled(bs)[p] = content[p]
  <1>1. content \in [Physical -> {0, 1}]
    BY DEF ValuesOK
  <1>2. \A p \in Physical : content[p] \in {0, 1} /\ 1 - content[p] \in {0, 1}
    <2>1. \A x \in {0, 1} : 1 - x \in {0, 1}
      OBVIOUS
    <2> QED
      BY <1>1, <2>1
  <1> QED
    BY <1>2 DEF Toggled

LEMMA BaseIn ==
  ASSUME NEW b \in Blocks PROVE Base(b) \in Physical
  BY DiskAssumption DEF Base, Physical

LEMMA FrameTrueMore ==
  ASSUME NEW f, NEW old, NEW new, old \subseteq new, FrameTrue(f, old)
  PROVE  FrameTrue(f, new)
  BY DEF FrameTrue

\* A write that fails leaves behind what is there and what was there.
LEMMA WriteTornKeeps ==
  ASSUME IInv, stack # << >>, ~reply.done, NEW bs \in Seq(Blocks), DriverFails,
         content' = Toggled(bs), torn' = torn \cup ToSet(bs)
  PROVE  IInv'
  <1>1. /\ errno' = TRUE /\ Answer(TRUE, << >>, << >>)
        /\ areas' = areas /\ heap' = heap /\ users' = users /\ cache' = cache /\ stack' = stack
    BY DEF DriverFails
  <1>2. ValuesOK
    BY DEF IInv
  <1>3. ToSet(bs) \subseteq Blocks
    <2>1. \A i \in DOMAIN bs : bs[i] \in Blocks
      BY ElementOfSeq, LenProperties
    <2> QED
      BY <2>1 DEF ToSet
  <1>4. ValuesOK'
    BY <1>1, <1>2, <1>3, ToggledIs DEF ValuesOK
  <1>5. OnDisk \subseteq OnDisk'
    <2> SUFFICES ASSUME NEW e \in OnDisk PROVE e \in OnDisk'
      OBVIOUS
    <2>1. /\ e \in Blocks \X {0, 1} /\ e[1] \in Blocks
          /\ e[2] = content[Base(e[1])] \/ Base(e[1]) \in torn
      BY DEF OnDisk, Holding
    <2>2. Base(e[1]) \in Physical
      BY <2>1, BaseIn
    <2>3. Base(e[1]) \notin ToSet(bs) => content'[Base(e[1])] = content[Base(e[1])]
      BY <1>2, <2>2, ToggledIs
    <2>4. e[2] = content'[Base(e[1])] \/ Base(e[1]) \in torn'
      BY <2>1, <2>3
    <2>5. e \in Holding(content', torn')
      BY <2>1, <2>4 DEF Holding
    <2> QED
      BY <2>5 DEF OnDisk
  <1>6. /\ AreasOK' /\ HeapOK' /\ UsersOK' /\ StackOK'
        /\ PutsClean(stack', Shown(cache')) /\ Shown(cache') = Shown(cache)
    BY <1>1, SameParts
  <1>7. Clean
    BY CleanIs DEF IInv, ReplyTrue
  <1>8. CacheTrue'
    BY <1>5, <1>6, <1>7 DEF Clean, CacheTrue
  <1>9. FramesTrue'
    <2>1. \A i \in DOMAIN stack : FrameTrue(stack[i], OnDisk)
      BY DEF IInv, FramesTrue
    <2>2. \A i \in DOMAIN stack : FrameTrue(stack[i], OnDisk')
      <3> DEFINE old == OnDisk
                 new == OnDisk'
      <3>1. old \subseteq new /\ \A i \in DOMAIN stack : FrameTrue(stack[i], old)
        BY <1>5, <2>1
      <3> HIDE DEF old, new
      <3>2. \A i \in DOMAIN stack : FrameTrue(stack[i], new)
        BY <3>1, FrameTrueMore
      <3> QED
        BY <3>2 DEF new
    <2> QED
      BY <1>1, <2>2 DEF FramesTrue
  <1>10. reply' = [done |-> TRUE, ok |-> FALSE, blocks |-> << >>, value |-> << >>]
    BY <1>1 DEF Answer, NoReply
  <1>11. ReplyTrue'
    <2>1. reply' \in ReplySet /\ ~reply'.ok
      BY <1>10 DEF ReplySet
    <2> QED
      BY <2>1 DEF ReplyTrue
  <1>12. WriteOK'
    <2>1. reply'.done /\ ~reply'.ok
      BY <1>10
    <2> QED
      BY <1>6, <2>1 DEF WriteOK
  <1> QED
    BY <1>4, <1>6, <1>8, <1>9, <1>11, <1>12 DEF IInv

\* Of the blocks that change on the disk, those in the cache are pending.
LEMMA ChangedPends ==
  ASSUME NEW st, StackGood(st), st # << >>, st[1].op \in Writes,
         NEW S, PutsClean(st, S), NEW e \in S, e[1] \in Blocks, Base(e[1]) \in ToSet(st[1].blocks)
  PROVE  \E i \in DOMAIN st : st[i].op = "write" /\ e[1] \in ToSet(st[i].blocks)
  <1> DEFINE b == e[1]
  <1>1. Len(st) \in Nat /\ DOMAIN st = 1 .. Len(st) /\ Len(st) # 0
    BY StackLength, EmptySeq DEF StackGood
  <1>2. ASSUME NEW i \in DOMAIN st, st[i].op \in Writes, b \in ToSet(st[i].blocks)
        PROVE  st[i].op = "write"
    <2> SUFFICES ASSUME st[i].op = "put" PROVE FALSE
      BY <1>2 DEF Writes
    <2>1. FrameOK(st[i])
      BY DEF StackGood
    <2>2. st[i].blocks \in Seq(Blocks) /\ Len(st[i].blocks) = 1
      BY <2>1 DEF FrameOK, FrameSet
    <2>3. b = st[i].blocks[1]
      BY <1>2, <2>2, Single DEF ToSet
    <2> QED
      BY <2>3 DEF PutsClean
  <1>3. 1 \in DOMAIN st
    BY <1>1
  <1>4. CASE Base(b) = b
    BY <1>2, <1>3, <1>4
  <1>5. CASE Base(b) # b
    <2>1. Under[b] # None /\ Base(b) = Under[b]
      BY <1>5 DEF Base
    <2>2. PICK i \in DOMAIN st[1].blocks : st[1].blocks[i] = Under[b]
      BY <2>1 DEF ToSet
    <2>3. Stands(st[1].op, st[1].blocks, st, 1 + 1)
      BY <1>3 DEF StackGood
    <2>4. 2 \in DOMAIN st
      <3> SUFFICES ASSUME Len(st) = 1 PROVE FALSE
        BY <1>1
      <3>1. Outermost(st[1].blocks[i])
        BY <2>3 DEF Stands
      <3> QED
        BY <2>2, <3>1 DEF Outermost
    <2>5. Calls(st[2], st[1].op, st[1].blocks)
      <3>1. 1 + 1 = 2
        OBVIOUS
      <3> QED
        BY <1>3, <2>4, <3>1, CallerOf
    <2>6. /\ st[2].op \in Writes /\ st[1].blocks = Below(st[2].blocks)
      BY <2>5 DEF Calls, Reads, Writes
    <2>7. i \in DOMAIN st[2].blocks /\ Under[st[2].blocks[i]] = Under[b]
      BY <2>2, <2>6 DEF Below
    <2>8. st[2].blocks[i] \in Blocks
      <3>1. st[2].blocks \in Seq(Blocks)
        BY <2>4 DEF StackGood, FrameOK, FrameSet
      <3> QED
        BY <2>7, <3>1, LenProperties, ElementOfSeq
    <2>9. st[2].blocks[i] = b
      BY <2>1, <2>7, <2>8, UnderAssumption
    <2>10. b \in ToSet(st[2].blocks)
      BY <2>7, <2>9 DEF ToSet
    <2> QED
      BY <1>2, <2>4, <2>6, <2>10
  <1> QED
    BY <1>4, <1>5

LEMMA WriteDoneKeeps ==
  ASSUME IInv, stack # << >>, stack[1].op \in Writes, ~reply.done,
         content' = Toggled(stack[1].blocks), Answer(FALSE, << >>, << >>),
         UNCHANGED <<areas, heap, users, cache, stack, errno, torn>>
  PROVE  IInv'
  <1> DEFINE bs == stack[1].blocks
  <1>1. ValuesOK /\ StackGood(stack)
    BY DEF IInv, StackOK
  <1>2. ValuesOK'
    BY <1>1, ToggledIs DEF ValuesOK
  <1>3. reply' = [done |-> TRUE, ok |-> TRUE, blocks |-> << >>, value |-> << >>]
    BY DEF Answer
  <1>4. /\ AreasOK' /\ HeapOK' /\ UsersOK' /\ StackOK'
        /\ PutsClean(stack', Shown(cache')) /\ Shown(cache') = Shown(cache)
    BY SameParts
  <1>5. FramesTrue'
    <2>1. \A i \in DOMAIN stack : stack[i].op \in Writes
      BY <1>1, AllWrites
    <2>2. \A i \in DOMAIN stack' : stack'[i].op # "many"
      BY <2>1 DEF Writes
    <2> QED
      BY <2>2 DEF FramesTrue, FrameTrue
  <1>6. ReplyTrue'
    <2>1. reply' \in ReplySet
      BY <1>3 DEF ReplySet
    <2>2. Delivers(<< >>, << >>, OnDisk')
      BY DEF Delivers
    <2>3. stack[1].op \notin Reads
      BY DEF Reads, Writes
    <2>4. Answers(<< >>, stack')
      BY <2>3 DEF Answers
    <2> QED
      BY <1>3, <2>1, <2>2, <2>4 DEF ReplyTrue
  <1>7. WriteOK'
    <2>1. errno => Shown(cache) = {}
      BY DEF IInv, WriteOK
    <2>2. stack'[1].op # "modify"
      BY DEF Writes
    <2> QED
      BY <1>4, <2>1, <2>2 DEF WriteOK
  <1>8. CacheTrue'
    <2> SUFFICES ASSUME NEW e \in Shown(cache) PROVE e \in OnDisk' \/ Pending(e[1])'
      BY <1>4 DEF CacheTrue
    <2>1. e \in OnDisk
      BY CleanIs DEF IInv, ReplyTrue, Clean
    <2>2. /\ e \in Blocks \X {0, 1} /\ e[1] \in Blocks
          /\ e[2] = content[Base(e[1])] \/ Base(e[1]) \in torn
      BY <2>1 DEF OnDisk, Holding
    <2>3. CASE Base(e[1]) \in ToSet(bs)
      <3>1. PutsClean(stack, Shown(cache))
        BY DEF IInv, WriteOK
      <3>2. \E i \in DOMAIN stack : stack[i].op = "write" /\ e[1] \in ToSet(stack[i].blocks)
        BY <1>1, <2>2, <2>3, <3>1, ChangedPends
      <3> QED
        BY <1>3, <3>2 DEF Pending
    <2>4. CASE Base(e[1]) \notin ToSet(bs)
      <3>1. content'[Base(e[1])] = content[Base(e[1])]
        BY <1>1, <2>2, <2>4, BaseIn, ToggledIs
      <3>2. e \in Holding(content', torn')
        BY <2>2, <3>1 DEF Holding
      <3> QED
        BY <3>2 DEF OnDisk
    <2> QED
      BY <2>3, <2>4
  <1> QED
    BY <1>2, <1>4, <1>5, <1>6, <1>7, <1>8 DEF IInv

LEMMA DriverWriteKeeps ==
  ASSUME IInv, DriverWrite PROVE IInv'
  <1>1. /\ stack # << >> /\ Top.op \in Writes /\ ~reply.done
        /\ \/ DriverFails /\ UNCHANGED <<content, torn>>
           \/ /\ DriverFails /\ content' = Toggled(Top.blocks)
              /\ torn' = torn \cup ToSet(Top.blocks)
           \/ /\ content' = Toggled(Top.blocks) /\ Answer(FALSE, << >>, << >>)
              /\ UNCHANGED <<areas, heap, users, cache, stack, errno, torn>>
    BY DEF DriverWrite, InDriver
  <1>2. Top = stack[1] /\ FrameOK(Top)
    BY <1>1, TopIs
  <1>3. Top.blocks \in Seq(Blocks)
    BY <1>2 DEF FrameOK, FrameSet
  <1>4. CASE DriverFails /\ UNCHANGED <<content, torn>>
    BY <1>1, <1>4, DriverFailsKeeps
  <1>5. CASE /\ DriverFails /\ content' = Toggled(Top.blocks)
             /\ torn' = torn \cup ToSet(Top.blocks)
    BY <1>1, <1>3, <1>5, WriteTornKeeps
  <1>6. CASE /\ content' = Toggled(Top.blocks) /\ Answer(FALSE, << >>, << >>)
             /\ UNCHANGED <<areas, heap, users, cache, stack, errno, torn>>
    BY <1>1, <1>2, <1>6, WriteDoneKeeps
  <1> QED
    BY <1>1, <1>4, <1>5, <1>6

-----------------------------------------------------------------------------
(* What a read does with an answer.                                        *)

\* A buffer that has been read into is given back.
LEMMA BufferFreed ==
  ASSUME IInv, stack # << >>, Top.tmp # NULL,
         NEW m, MemOK(m, DOMAIN users \cup BuffersOf(stack)),
         Left(heap, m.heap, DOMAIN users \cup BuffersOf(stack))
  PROVE  /\ MemOK(WithoutBuffer(m), DOMAIN users \cup BuffersOf(Tail(stack)))
         /\ Left(heap, WithoutBuffer(m).heap, DOMAIN users)
         /\ WithoutBuffer(m).cache = m.cache
  <1> DEFINE O == DOMAIN users \cup BuffersOf(stack)
             P == DOMAIN users \cup BuffersOf(Tail(stack))
             p == Top.tmp
             w == [m EXCEPT !.heap = Free(@, p)]
  <1>1. /\ BuffersOf(stack) = BuffersOf(Tail(stack)) \cup {p}
        /\ p \notin BuffersOf(Tail(stack))
    BY TopIs
  <1>2. p \notin DOMAIN users
    BY <1>1 DEF IInv, HeapOK
  <1>3. p \in O /\ O \ {p} = P
    BY <1>1, <1>2
  <1>4. MemOK(m, O) /\ Left(heap, m.heap, O)
    OBVIOUS
  <1>5. WithoutBuffer(m) = w
    BY DEF WithoutBuffer
  <1> HIDE DEF O, P, p
  <1>6. LET x == [m EXCEPT !.heap = Free(@, p)] IN
        MemOK(x, O \ {p}) /\ Left(m.heap, x.heap, O \ {p}) /\ x.cache = m.cache
    BY <1>3, <1>4, GivenBack
  <1>7. MemOK(w, P) /\ Left(m.heap, w.heap, P) /\ w.cache = m.cache
    BY <1>3, <1>6
  <1> HIDE DEF w
  <1>8. Left(heap, w.heap, DOMAIN users)
    <2>1. DOMAIN users \subseteq O /\ DOMAIN users \subseteq P
      BY DEF O, P
    <2> QED
      BY <1>4, <1>7, <2>1 DEF Left
  <1> QED
    BY <1>5, <1>7, <1>8 DEF P

\* A call that fails has nothing to say.
LEMMA FailKeeps ==
  ASSUME IInv, stack # << >>, Clean, UNCHANGED <<areas, users, content>>,
         NEW m, MemOK(m, DOMAIN users \cup BuffersOf(Tail(stack))),
         Left(heap, m.heap, DOMAIN users), Shown(m.cache) \subseteq Shown(cache), Fail(m)
  PROVE  IInv'
  <1>1. SetMemory(m) /\ stack' = Tail(stack) /\ errno' = TRUE /\ Answer(TRUE, << >>, << >>)
    BY DEF Fail, Pop
  <1>2. areas = << >> /\ Rest(Tail(stack))
    BY TopIs
  <1>3. EntriesOK(m.cache)
    BY DEF MemOK
  <1>4. NewMemory(m)
    BY <1>1, <1>3, SetIsNew
  <1>5. Returns(m, Tail(stack), TRUE, << >>, << >>)
    BY <1>1, <1>4 DEF Returns
  <1>6. CacheTrue'
    BY <1>4, CacheStays DEF Clean
  <1>7. PutsClean(Tail(stack), Shown(m.cache))
    BY <1>2, RestPuts
  <1>8. TRUE \in BOOLEAN
    OBVIOUS
  <1> QED
    BY <1>2, <1>5, <1>6, <1>7, <1>8, ReturnKeeps

\* The call on top asks for what the one below it needs.
LEMMA StandsAnswers ==
  ASSUME NEW st, StackGood(st), NEW op \in Reads, NEW bs, Stands(op, bs, st, 1)
  PROVE  Answers(bs, st)
  <1> SUFFICES ASSUME st # << >>, st[1].op \in Reads PROVE Answers(bs, st)
    BY NoAnswer
  <1>1. Len(st) \in Nat /\ DOMAIN st = 1 .. Len(st) /\ Len(st) # 0
    BY StackLength, EmptySeq DEF StackGood
  <1>2. Calls(st[1], op, bs)
    BY <1>1 DEF Stands
  <1> DEFINE q == Asked(st[1])
  <1>3. bs = Below(q) /\ ToSet(q) \cap Physical = {}
    BY <1>2 DEF Calls, Reads, Writes
  <1>4. q \in Seq(Blocks) /\ q # << >>
    <2>1. FrameOK(st[1])
      BY <1>1 DEF StackGood
    <2> QED
      BY <2>1, AskedIs
  <1> HIDE DEF q
  <1>5. Len(bs) = Len(q) /\ DOMAIN bs = DOMAIN q /\ \A i \in DOMAIN q : Base(bs[i]) = Base(q[i])
    BY <1>3, <1>4, BelowIs
  <1> QED
    BY <1>5 DEF Answers, q

\* An answer is about the blocks that the call on top waits for.
LEMMA ReplyIs ==
  ASSUME IInv, stack # << >>, Top.op \in Reads, reply.ok
  PROVE  /\ reply.value \in Seq({0, 1}) /\ Len(reply.value) = Len(Asked(Top))
         /\ \A i \in DOMAIN Asked(Top) :
                /\ <<Asked(Top)[i], reply.value[i]>> \in OnDisk /\ reply.value[i] \in {0, 1}
  <1> DEFINE q == Asked(Top)
             bs == reply.blocks
             vs == reply.value
  <1>1. Top = stack[1] /\ FrameOK(Top)
    BY TopIs
  <1>2. Delivers(bs, vs, OnDisk) /\ Answers(bs, stack)
    BY DEF IInv, ReplyTrue
  <1>3. Len(bs) = Len(q) /\ \A i \in DOMAIN bs : Base(bs[i]) = Base(q[i])
    BY <1>1, <1>2 DEF Answers
  <1>4. q \in Seq(Blocks)
    BY <1>1, AskedIs
  <1> HIDE DEF q, bs, vs
  <1>5. /\ bs \in Seq(Blocks) /\ vs \in Seq({0, 1}) /\ Len(vs) = Len(bs)
        /\ \A i \in DOMAIN bs : <<bs[i], vs[i]>> \in OnDisk
    BY <1>2 DEF Delivers
  <1>6. DOMAIN bs = DOMAIN q
    BY <1>3, <1>4, <1>5, LenProperties
  <1>7. ASSUME NEW i \in DOMAIN q PROVE <<q[i], vs[i]>> \in OnDisk /\ vs[i] \in {0, 1}
    <2>1. q[i] \in Blocks
      BY <1>4, LenProperties, ElementOfSeq
    <2>2. <<bs[i], vs[i]>> \in OnDisk /\ Base(bs[i]) = Base(q[i])
      BY <1>3, <1>5, <1>6
    <2> QED
      BY <2>1, <2>2 DEF OnDisk, Holding
  <1> QED
    BY <1>3, <1>5, <1>7 DEF q, vs

LEMMA DeliverKeeps ==
  ASSUME IInv, stack # << >>, Top.op \in {"small", "again"}, reply.ok,
         UNCHANGED <<areas, users, content>>, NEW e \in BOOLEAN,
         NEW m, MemOK(m, DOMAIN users \cup BuffersOf(Tail(stack))),
         Left(heap, m.heap, DOMAIN users), Shown(m.cache) \subseteq OnDisk, Deliver(m, e)
  PROVE  IInv'
  <1> DEFINE rest == Tail(stack)
             bs == Top.blocks
             vs == reply.value
  <1>1. SetMemory(m) /\ stack' = rest /\ errno' = e /\ Answer(e, bs, vs)
    BY DEF Deliver, Pop
  <1>2. /\ areas = << >> /\ Rest(rest) /\ Top = stack[1] /\ FrameOK(Top) /\ StackGood(rest)
        /\ Stands(Top.op, bs, rest, 1)
    BY TopIs
  <1>3. Top.op \in Reads /\ Top.op \notin Writes /\ Top.op # "many"
    BY DEF Reads, Writes
  <1>4. EntriesOK(m.cache)
    BY DEF MemOK
  <1>5. NewMemory(m)
    BY <1>1, <1>4, SetIsNew
  <1>6. Returns(m, rest, e, bs, vs)
    BY <1>1, <1>5 DEF Returns
  <1>7. CacheTrue'
    BY <1>5, CacheStays
  <1>8. PutsClean(rest, Shown(m.cache))
    BY <1>2, <1>3, NoPuts
  <1>9. Delivers(bs, vs, OnDisk')
    <2>1. Asked(Top) = bs /\ bs \in Seq(Blocks)
      BY <1>2, <1>3, AskedIs
    <2>2. /\ vs \in Seq({0, 1}) /\ Len(vs) = Len(bs)
          /\ \A i \in DOMAIN bs : <<bs[i], vs[i]>> \in OnDisk
      <3>1. /\ vs \in Seq({0, 1}) /\ Len(vs) = Len(Asked(Top))
            /\ \A i \in DOMAIN Asked(Top) : <<Asked(Top)[i], vs[i]>> \in OnDisk
        BY <1>3, ReplyIs
      <3> QED
        BY <2>1, <3>1
    <2>3. \A x \in OnDisk : x \in OnDisk'
      BY <1>5 DEF NewMemory
    <2> HIDE DEF bs, vs
    <2> QED
      BY <2>1, <2>2, <2>3 DEF Delivers
  <1>10. Answers(bs, rest)
    BY <1>2, <1>3, StandsAnswers
  <1> HIDE DEF rest, bs, vs
  <1> QED
    BY <1>2, <1>6, <1>7, <1>8, <1>9, <1>10, ReturnKeeps DEF rest

LEMMA SmallReadKeeps ==
  ASSUME IInv, SmallRead PROVE IInv'
  <1> DEFINE b == Top.blocks[1]
             v == reply.value[1]
             O == DOMAIN users \cup BuffersOf(stack)
             new == Store(Memory, b, v)
  <1>1. /\ stack # << >> /\ Top.op = "small" /\ reply.done
        /\ IF reply.ok THEN Deliver(WithoutBuffer(new.memory), errno \/ new.failed)
           ELSE Fallback(WithoutBuffer(Memory), b, Tail(stack))
        /\ UNCHANGED <<areas, users, content>>
    BY DEF SmallRead, Answered
  <1>2. /\ Top = stack[1] /\ FrameOK(Top) /\ areas = << >> /\ Rest(Tail(stack))
        /\ Stands(Top.op, Top.blocks, Tail(stack), 1)
    BY <1>1, TopIs
  <1>3. Top.op \in Reads /\ Top.op \notin Writes /\ Top.tmp # NULL
    BY <1>1, <1>2 DEF Reads, Writes, FrameOK
  <1>4. Top.blocks = << b >> /\ b \in Blocks
    <2>1. Top.blocks \in Seq(Blocks) /\ Len(Top.blocks) = 1
      BY <1>1, <1>2 DEF FrameOK, FrameSet
    <2> QED
      BY <2>1, Single
  <1> HIDE DEF b
  <1>5. MemOK(Memory, O) /\ Memory.heap = heap /\ Memory.cache = cache
    BY MemoryOK
  <1>6. Clean
    BY <1>2, <1>3, CleanIs
  <1>7. CASE reply.ok
    <2>1. Asked(Top) = << b >>
      BY <1>1, <1>2, <1>3, <1>4, AskedIs
    <2>2. v \in {0, 1} /\ <<b, v>> \in OnDisk
      <3>1. \A i \in DOMAIN Asked(Top) :
                <<Asked(Top)[i], reply.value[i]>> \in OnDisk /\ reply.value[i] \in {0, 1}
        BY <1>1, <1>3, <1>7, ReplyIs
      <3>2. 1 \in DOMAIN Asked(Top) /\ Asked(Top)[1] = b
        BY <2>1
      <3> QED
        BY <3>1, <3>2
    <2> HIDE DEF v
    <2>3. Enters(Memory, new.memory, O, {<<b, v>>}) /\ new.failed \in BOOLEAN
      BY <1>4, <1>5, <2>2, StoreIs
    <2>4. Deliver(WithoutBuffer(new.memory), errno \/ new.failed)
      BY <1>1, <1>7
    <2> HIDE DEF new
    <2>5. /\ MemOK(new.memory, O) /\ Left(heap, new.memory.heap, O)
          /\ Shown(new.memory.cache) \subseteq Shown(cache) \cup {<<b, v>>}
      BY <1>5, <2>3 DEF Enters
    <2>6. /\ MemOK(WithoutBuffer(new.memory), DOMAIN users \cup BuffersOf(Tail(stack)))
          /\ Left(heap, WithoutBuffer(new.memory).heap, DOMAIN users)
          /\ WithoutBuffer(new.memory).cache = new.memory.cache
      BY <1>1, <1>3, <2>5, BufferFreed
    <2>7. Shown(WithoutBuffer(new.memory).cache) \subseteq OnDisk
      BY <1>6, <2>2, <2>5, <2>6 DEF Clean
    <2>8. (errno \/ new.failed) \in BOOLEAN
      BY <2>3 DEF IInv, ValuesOK
    <2> QED
      BY <1>1, <1>7, <2>4, <2>6, <2>7, <2>8, DeliverKeeps
  <1>8. CASE ~reply.ok
    <2> DEFINE w == WithoutBuffer(Memory)
               rest == Tail(stack)
    <2>1. Fallback(w, b, rest)
      BY <1>1, <1>8
    <2>2. /\ MemOK(w, DOMAIN users \cup BuffersOf(rest))
          /\ Left(heap, w.heap, DOMAIN users) /\ w.cache = cache
      <3>1. Left(heap, Memory.heap, O)
        BY MemoryOK
      <3> QED
        BY <1>1, <1>3, <1>5, <3>1, BufferFreed
    <2>3. Stands("again", << b >>, rest, 1)
      <3>1. Stands("small", << b >>, rest, 1)
        BY <1>1, <1>2, <1>4
      <3> HIDE DEF rest
      <3> QED
        BY <3>1 DEF Stands, Calls, Reads, Writes
    <2> HIDE DEF w
    <2>4. Rest(rest) /\ Shown(w.cache) \subseteq Shown(cache)
      BY <1>2, <2>2
    <2> HIDE DEF rest
    <2> QED
      BY <1>1, <1>2, <1>4, <1>6, <2>1, <2>2, <2>3, <2>4, FallbackKeeps
  <1> QED
    BY <1>7, <1>8

LEMMA AgainReadKeeps ==
  ASSUME IInv, AgainRead PROVE IInv'
  <1> DEFINE O == DOMAIN users \cup BuffersOf(stack)
             w == WithoutBuffer(Memory)
  <1>1. /\ stack # << >> /\ Top.op = "again" /\ reply.done
        /\ IF reply.ok THEN Deliver(w, errno) ELSE Fail(w)
        /\ UNCHANGED <<areas, users, content>>
    BY DEF AgainRead, Answered
  <1>2. Top = stack[1] /\ FrameOK(Top) /\ areas = << >> /\ Rest(Tail(stack))
    BY <1>1, TopIs
  <1>3. Top.op \notin Writes /\ Top.tmp # NULL
    BY <1>1, <1>2 DEF Writes, FrameOK
  <1>4. /\ MemOK(Memory, O) /\ Memory.heap = heap /\ Memory.cache = cache
        /\ Left(heap, Memory.heap, O)
    BY MemoryOK
  <1>5. Clean /\ errno \in BOOLEAN
    BY <1>2, <1>3, CleanIs DEF IInv, ValuesOK
  <1>6. /\ MemOK(w, DOMAIN users \cup BuffersOf(Tail(stack)))
        /\ Left(heap, w.heap, DOMAIN users) /\ w.cache = cache
    BY <1>1, <1>3, <1>4, BufferFreed
  <1> HIDE DEF w
  <1>7. Shown(w.cache) \subseteq Shown(cache) /\ Shown(w.cache) \subseteq OnDisk
    BY <1>5, <1>6 DEF Clean
  <1>8. CASE reply.ok
    <2>1. Deliver(w, errno)
      BY <1>1, <1>8
    <2> QED
      BY <1>1, <1>5, <1>6, <1>7, <1>8, <2>1, DeliverKeeps
  <1>9. CASE ~reply.ok
    <2>1. Fail(w)
      BY <1>1, <1>9
    <2> QED
      BY <1>1, <1>5, <1>6, <1>7, <2>1, FailKeeps
  <1> QED
    BY <1>8, <1>9

\* Calls without a buffer leave everybody's blocks alone.
LEMMA NoBuffer ==
  ASSUME IInv, stack # << >>, Top.tmp = NULL
  PROVE  BuffersOf(Tail(stack)) = BuffersOf(stack)
  BY TopIs

LEMMA FailPlainKeeps ==
  ASSUME IInv, stack # << >>, Top.tmp = NULL, Clean, UNCHANGED <<areas, users, content>>,
         Fail(Memory)
  PROVE  IInv'
  <1>1. /\ MemOK(Memory, DOMAIN users \cup BuffersOf(stack)) /\ Memory.cache = cache
        /\ Left(heap, Memory.heap, DOMAIN users)
    BY MemoryOK
  <1>2. MemOK(Memory, DOMAIN users \cup BuffersOf(Tail(stack)))
    BY <1>1, NoBuffer
  <1>3. Shown(Memory.cache) \subseteq Shown(cache)
    BY <1>1
  <1> QED
    BY <1>1, <1>2, <1>3, FailKeeps

\* What has been read, the run that has just come and the cached block behind it.
Joined(u, a, b, c) ==
    /\ u \in Seq({0, 1}) /\ Len(u) = Len(a) + Len(b) + Len(c)
    /\ \A k \in DOMAIN u :
           \/ k \in DOMAIN a /\ u[k] = a[k]
           \/ \E i \in DOMAIN b : k = Len(a) + i /\ u[k] = b[i]
           \/ c # << >> /\ k = Len(a) + Len(b) + 1 /\ u[k] = c[1]

LEMMA JoinedIs ==
  ASSUME NEW a \in Seq({0, 1}), NEW b \in Seq({0, 1}), NEW c \in Seq({0, 1}), Len(c) <= 1
  PROVE  Joined(a \o b \o c, a, b, c)
  <1> DEFINE p == a \o b
             u == p \o c
  <1>1. Len(a) \in Nat /\ Len(b) \in Nat /\ Len(c) \in Nat /\ DOMAIN a = 1 .. Len(a)
          /\ DOMAIN b = 1 .. Len(b)
    BY LenProperties
  <1>2. /\ p \in Seq({0, 1}) /\ Len(p) = Len(a) + Len(b)
        /\ \A i \in 1 .. Len(a) + Len(b) : p[i] = IF i <= Len(a) THEN a[i] ELSE b[i - Len(a)]
    BY ConcatProperties
  <1> HIDE DEF p
  <1>3. /\ u \in Seq({0, 1}) /\ Len(u) = Len(p) + Len(c)
        /\ \A i \in 1 .. Len(p) + Len(c) : u[i] = IF i <= Len(p) THEN p[i] ELSE c[i - Len(p)]
    BY <1>2, ConcatProperties
  <1>4. DOMAIN u = 1 .. Len(p) + Len(c)
    BY <1>3, LenProperties
  <1>5. c # << >> <=> Len(c) = 1
    <2> DEFINE y == Len(c)
               none == c = << >>
    <2>1. none <=> y = 0
      BY EmptySeq
    <2>2. y \in Nat /\ y <= 1
      BY <1>1
    <2> HIDE DEF y, none
    <2>3. ~none <=> y = 1
      BY <2>1, <2>2
    <2> QED
      BY <2>3 DEF y, none
  <1> HIDE DEF u
  <1>6. ASSUME NEW k \in DOMAIN u
        PROVE  \/ k \in DOMAIN a /\ u[k] = a[k]
               \/ \E i \in DOMAIN b : k = Len(a) + i /\ u[k] = b[i]
               \/ c # << >> /\ k = Len(a) + Len(b) + 1 /\ u[k] = c[1]
    <2>1. k \in 1 .. Len(p) + Len(c)
      BY <1>4
    <2>2. CASE k <= Len(a)
      <3>1. k \in 1 .. Len(a) + Len(b) /\ k <= Len(p)
        BY <1>1, <1>2, <2>1, <2>2
      <3>2. u[k] = p[k] /\ p[k] = a[k]
        BY <1>2, <1>3, <2>1, <2>2, <3>1
      <3>3. k \in DOMAIN a
        BY <1>1, <2>1, <2>2
      <3> QED
        BY <3>2, <3>3
    <2>3. CASE k > Len(a) /\ k <= Len(a) + Len(b)
      <3>1. k \in 1 .. Len(a) + Len(b) /\ k <= Len(p) /\ ~(k <= Len(a))
        BY <1>1, <1>2, <2>1, <2>3
      <3>2. u[k] = p[k] /\ p[k] = b[k - Len(a)]
        BY <1>2, <1>3, <2>1, <3>1
      <3>3. k - Len(a) \in DOMAIN b /\ k = Len(a) + (k - Len(a))
        BY <1>1, <2>1, <2>3
      <3> QED
        BY <3>2, <3>3
    <2>4. CASE k > Len(a) + Len(b)
      <3>1. k = Len(a) + Len(b) + 1 /\ Len(c) = 1
        <4> DEFINE x == Len(a) + Len(b)
                   y == Len(c)
        <4>1. x \in Nat /\ y \in Nat /\ y <= 1 /\ k \in 1 .. x + y /\ k > x
          BY <1>1, <1>2, <2>1, <2>4
        <4> HIDE DEF x, y
        <4>2. k = x + 1 /\ y = 1
          BY <4>1
        <4> QED
          BY <4>2 DEF x, y
      <3>2. ~(k <= Len(p)) /\ k - Len(p) = 1
        BY <1>1, <1>2, <3>1
      <3>3. u[k] = c[1]
        BY <1>3, <2>1, <3>2
      <3> QED
        BY <1>5, <3>1, <3>3
    <2> QED
      BY <1>1, <2>1, <2>2, <2>3, <2>4
  <1> QED
    BY <1>1, <1>2, <1>3, <1>6 DEF u, p, Joined

LEMMA ManyReadKeeps ==
  ASSUME IInv, ManyRead PROVE IInv'
  <1> DEFINE f == Top
             q == Asked(f)
             vs == reply.value
             O == DOMAIN users \cup BuffersOf(stack)
             new == StoreAll(Memory, q, vs)
             u == f.value \o vs \o f.hit
             g == [f EXCEPT !.value = u]
             rest == Tail(stack)
  <1>1. /\ stack # << >> /\ f.op = "many" /\ reply.done
        /\ IF reply.ok THEN Scan(new.memory, g, rest, errno \/ new.failed) ELSE Fail(Memory)
        /\ UNCHANGED <<areas, users, content>>
    BY DEF ManyRead, Answered
  <1>2. /\ f = stack[1] /\ FrameOK(f) /\ areas = << >> /\ Rest(rest) /\ StackGood(rest)
        /\ Stands(f.op, f.blocks, rest, 1) /\ f \in FrameSet /\ 1 \in DOMAIN stack
    BY <1>1, TopIs
  <1>3. f.op \in Reads /\ f.op \notin Writes /\ f.tmp = NULL
    BY <1>1, <1>2 DEF Reads, Writes, FrameOK
  <1>4. /\ MemOK(Memory, O) /\ Memory.heap = heap /\ Memory.cache = cache
    BY MemoryOK
  <1>5. Clean
    BY <1>2, <1>3, CleanIs
  <1>6. CASE ~reply.ok
    <2>1. Fail(Memory)
      BY <1>1, <1>6
    <2> QED
      BY <1>1, <1>3, <1>5, <2>1, FailPlainKeeps
  <1>7. CASE reply.ok
    <2>1. /\ q \in Seq(Blocks) /\ Len(q) = f.count /\ DOMAIN q = 1 .. f.count
          /\ f.count \in Nat
          /\ \A i \in 1 .. f.count : q[i] = f.blocks[Len(f.value) + i]
      BY <1>2, <1>3, AskedIs
    <2>2. /\ vs \in Seq({0, 1}) /\ Len(vs) = Len(q)
          /\ \A i \in DOMAIN q : <<q[i], vs[i]>> \in OnDisk
      BY <1>1, <1>3, <1>7, ReplyIs
    <2>3. FrameTrue(f, OnDisk)
      BY <1>2 DEF IInv, FramesTrue
    <2>4. /\ f.value \in Seq({0, 1}) /\ f.hit \in Seq({0, 1}) /\ Len(f.hit) <= 1
          /\ Len(f.value) + f.count + Len(f.hit) <= Len(f.blocks)
          /\ f.blocks # << >> /\ f.blocks \in Seq(Blocks)
      BY <1>1, <1>2 DEF FrameOK, FrameSet
    <2>5. Scan(new.memory, g, rest, errno \/ new.failed)
      BY <1>1, <1>7
    <2> HIDE DEF q, vs, f
    <2>6. new.failed \in BOOLEAN /\ Enters(Memory, new.memory, O, {<<q[i], vs[i]>> : i \in DOMAIN q})
      BY <1>4, <2>1, <2>2, StoreAllIs
    <2> HIDE DEF new
    <2>7. /\ MemOK(new.memory, DOMAIN users \cup BuffersOf(rest))
          /\ Left(heap, new.memory.heap, DOMAIN users)
          /\ Shown(new.memory.cache) \subseteq OnDisk
      <3>1. /\ MemOK(new.memory, O) /\ Left(heap, new.memory.heap, O)
            /\ Shown(new.memory.cache) \subseteq Shown(cache) \cup {<<q[i], vs[i]>> : i \in DOMAIN q}
        BY <1>4, <2>6 DEF Enters
      <3>2. Left(heap, new.memory.heap, DOMAIN users)
        BY <3>1 DEF Left
      <3>3. Shown(new.memory.cache) \subseteq OnDisk
        BY <1>5, <2>2, <3>1 DEF Clean
      <3>4. BuffersOf(rest) = BuffersOf(stack)
        BY <1>1, <1>3, NoBuffer DEF f
      <3> QED
        BY <3>1, <3>2, <3>3, <3>4
    <2>8. Joined(u, f.value, vs, f.hit)
      BY <2>2, <2>4, JoinedIs
    <2> HIDE DEF u
    <2>9. DOMAIN vs = DOMAIN q
      BY <2>1, <2>2, LenProperties
    <2>10. \A k \in DOMAIN u : <<f.blocks[k], u[k]>> \in OnDisk
      <3> SUFFICES ASSUME NEW k \in DOMAIN u PROVE <<f.blocks[k], u[k]>> \in OnDisk
        OBVIOUS
      <3>1. CASE k \in DOMAIN f.value /\ u[k] = f.value[k]
        BY <1>1, <2>3, <3>1 DEF FrameTrue
      <3>2. CASE \E i \in DOMAIN vs : k = Len(f.value) + i /\ u[k] = vs[i]
        <4>1. PICK i \in DOMAIN q : k = Len(f.value) + i /\ u[k] = vs[i]
          BY <2>9, <3>2
        <4>2. q[i] = f.blocks[k]
          BY <2>1, <4>1
        <4> QED
          BY <2>2, <4>1, <4>2
      <3>3. CASE f.hit # << >> /\ k = Len(f.value) + Len(vs) + 1 /\ u[k] = f.hit[1]
        <4>1. k = Len(f.value) + f.count + 1
          BY <2>1, <2>2, <3>3
        <4> QED
          BY <1>1, <2>3, <3>3, <4>1 DEF FrameTrue
      <3> QED
        BY <2>8, <3>1, <3>2, <3>3 DEF Joined
    <2>11. /\ g \in FrameSet /\ g.op = "many" /\ g.tmp = NULL /\ g.blocks = f.blocks
           /\ g.value = u
      BY <1>1, <1>2, <1>3, <2>8 DEF FrameSet, Joined
    <2>12. Len(u) <= Len(f.blocks)
      BY <2>1, <2>2, <2>4, <2>8 DEF Joined
    <2> HIDE DEF g
    <2>13. PutsClean(rest, Shown(new.memory.cache))
      BY <1>1, <1>2, <1>3, NoPuts DEF f
    <2>14. Stands("many", g.blocks, rest, 1)
      BY <1>1, <1>2, <2>11
    <2>15. Answers(g.blocks, rest)
      BY <1>2, <2>14, StandsAnswers DEF Reads
    <2>16. (errno \/ new.failed) \in BOOLEAN
      BY <2>6 DEF IInv, ValuesOK
    <2>17. /\ g.blocks # << >> /\ Len(g.value) <= Len(g.blocks)
           /\ \A k \in DOMAIN g.value : <<g.blocks[k], g.value[k]>> \in OnDisk
      BY <2>4, <2>10, <2>11, <2>12
    <2> HIDE DEF rest
    <2> QED
      BY <1>1, <1>2, <2>5, <2>7, <2>11, <2>13, <2>14, <2>15, <2>16, <2>17, ScanKeeps
  <1> QED
    BY <1>6, <1>7

-----------------------------------------------------------------------------
(* What a write does with an answer.                                       *)

LEMMA ReadForWriteKeeps ==
  ASSUME IInv, ReadForWrite PROVE IInv'
  <1> DEFINE b == Top.blocks[1]
             O == DOMAIN users \cup BuffersOf(stack)
             m == Invalidate(Memory, b)
             f == [Top EXCEPT !.op = "put"]
             rest == Tail(stack)
  <1>1. /\ stack # << >> /\ Top.op = "modify" /\ reply.done
        /\ UNCHANGED <<areas, users, content>>
    BY DEF ReadForWrite, Answered
  <1>2. IF reply.ok
        THEN SetMemory(m) /\ stack' = << f >> \o rest /\ reply' = NoReply /\ errno' = errno
        ELSE Fail(Memory)
    BY DEF ReadForWrite
  <1>3. /\ Top = stack[1] /\ FrameOK(Top) /\ areas = << >> /\ Rest(rest) /\ Top \in FrameSet
        /\ Stands("modify", Top.blocks, rest, 1) /\ rest \in Seq(FrameSet)
        /\ Tops(stack, Top, rest) /\ 1 \in DOMAIN stack
    BY <1>1, TopIs
  <1>4. Top.op \notin Writes /\ Top.tmp = NULL
    BY <1>1, <1>3 DEF Writes, FrameOK
  <1>5. Top.blocks = << b >> /\ b \in Blocks
    <2>1. Top.blocks \in Seq(Blocks) /\ Len(Top.blocks) = 1
      BY <1>1, <1>3 DEF FrameOK, FrameSet
    <2> QED
      BY <2>1, Single
  <1>6. MemOK(Memory, O) /\ Memory.heap = heap /\ Memory.cache = cache
    BY MemoryOK
  <1>7. Clean
    BY <1>3, <1>4, CleanIs
  <1>8. BuffersOf(rest) = BuffersOf(stack)
    BY <1>1, <1>4, NoBuffer
  <1> HIDE DEF b
  <1>9. CASE ~reply.ok
    <2>1. Fail(Memory)
      BY <1>2, <1>9
    <2> QED
      BY <1>1, <1>4, <1>7, <2>1, FailPlainKeeps
  <1>10. CASE reply.ok
    <2>1. Loses(Memory, m, O) /\ \A v : <<b, v>> \notin Shown(m.cache)
      BY <1>5, <1>6, InvalidateIs
    <2>2. SetMemory(m) /\ stack' = << f >> \o rest /\ reply' = NoReply /\ errno' = errno
      BY <1>2, <1>10
    <2> HIDE DEF m
    <2>3. /\ MemOK(m, O) /\ EntriesOK(m.cache) /\ Left(heap, m.heap, DOMAIN users)
          /\ Shown(m.cache) \subseteq Shown(cache)
      BY <1>6, <2>1 DEF Loses, MemOK, Left
    <2>4. NewMemory(m)
      BY <1>1, <2>2, <2>3, SetIsNew
    <2>5. Waits(m, f, rest, errno)
      BY <2>2, <2>4 DEF Waits
    <2>6. /\ f.op = "put" /\ f.blocks = << b >> /\ f.tmp = NULL /\ f \in FrameSet
          /\ f.value = Top.value /\ f.hit = Top.hit /\ f.count = Top.count
      BY <1>3, <1>4, <1>5 DEF FrameSet, Writes
    <2> HIDE DEF f
    <2>7. FrameOK(f)
      BY <1>1, <1>3, <1>5, <2>6 DEF FrameOK
    <2>8. Stands("put", << b >>, rest, 1)
      <3>1. Len(stack) = 1
        <4>1. StackGood(stack) /\ stack[1].op \in {"modify", "put"}
          BY <1>1, <1>3 DEF IInv, StackOK
        <4> QED
          BY <1>3, <4>1, ModifyLast
      <3>2. Len(rest) = 0
        <4>1. Len(rest) \in Nat /\ Len(stack) = Len(rest) + 1
          BY <1>3 DEF Tops
        <4> QED
          BY <3>1, <4>1
      <3>3. Stands("modify", << b >>, rest, 1)
        BY <1>3, <1>5
      <3> QED
        BY <3>2, <3>3 DEF Stands
    <2>9. CacheTrue'
      BY <1>7, <2>3, <2>4, CacheStays DEF Clean
    <2>10. FrameTrue(f, OnDisk')
      BY <2>6 DEF FrameTrue
    <2>11. PutsClean(rest, Shown(m.cache))
      BY <1>3, <2>3, RestPuts
    <2>12. \A x \in Shown(m.cache) : x[1] # f.blocks[1]
      <3> SUFFICES ASSUME NEW x \in Shown(m.cache), x[1] = b PROVE FALSE
        BY <2>6
      <3>1. x = <<x[1], x[2]>>
        BY <2>3, ShownType
      <3>2. <<b, x[2]>> \in Shown(m.cache)
        BY <3>1
      <3> QED
        BY <2>1, <3>2
    <2>13. ~errno /\ errno \in BOOLEAN
      BY <1>1, <1>3, <1>10 DEF IInv, WriteOK, ValuesOK
    <2>14. f.tmp \notin DOMAIN users \cup BuffersOf(rest)
      <3>1. NULL \notin O
        BY <1>6, NullNoPointer DEF MemOK
      <3> QED
        BY <1>8, <2>6, <3>1
    <2>15. MemOK(m, DOMAIN users \cup BuffersOf(rest) \cup ({f.tmp} \ {NULL}))
      <3>1. DOMAIN users \cup BuffersOf(rest) \cup ({f.tmp} \ {NULL}) = O
        BY <1>8, <2>6
      <3> QED
        BY <2>3, <3>1
    <2>16. Stands(f.op, f.blocks, rest, 1)
      BY <2>6, <2>8
    <2>17. f.op \in Writes /\ errno => Shown(m.cache) = {}
      BY <2>13
    <2> HIDE DEF rest
    <2> QED
      BY <1>1, <1>3, <2>3, <2>5, <2>7, <2>9, <2>10, <2>11, <2>12, <2>13, <2>14, <2>15, <2>16,
         <2>17, WaitKeeps
  <1> QED
    BY <1>9, <1>10

LEMMA NothingDelivered ==
  ASSUME NEW S PROVE Delivers(<< >>, << >>, S)
  BY DEF Delivers

LEMMA PartWrittenKeeps ==
  ASSUME IInv, PartWritten PROVE IInv'
  <1> DEFINE rest == Tail(stack)
  <1>1. /\ stack # << >> /\ Top.op = "put" /\ reply.done
        /\ stack' = rest /\ Answer(errno, << >>, << >>)
        /\ UNCHANGED <<areas, heap, users, cache, content, errno, torn>>
    BY DEF PartWritten, Answered, Pop
  <1>2. /\ Top = stack[1] /\ FrameOK(Top) /\ areas = << >> /\ Rest(rest)
        /\ rest \in Seq(FrameSet) /\ Tops(stack, Top, rest) /\ 1 \in DOMAIN stack
    BY <1>1, TopIs
  <1>3. Top.tmp = NULL
    BY <1>1, <1>2 DEF FrameOK
  <1>4. Len(stack) = 1 /\ DOMAIN stack = 1 .. 1
    <2>1. StackGood(stack) /\ stack[1].op \in {"modify", "put"}
      BY <1>1, <1>2 DEF IInv, StackOK
    <2>2. Len(stack) = 1
      BY <1>2, <2>1, ModifyLast
    <2> QED
      BY <2>1, <2>2, StackLength
  <1>5. rest = << >>
    <2>1. Len(rest) \in Nat /\ Len(stack) = Len(rest) + 1
      BY <1>2 DEF Tops
    <2>2. Len(rest) = 0
      BY <1>4, <2>1
    <2> QED
      BY <1>2, <2>2, EmptySeq
  <1>6. Clean
    <2>1. \A b : ~Pending(b)
      <3>1. \A i \in DOMAIN stack : stack[i].op = "put"
        BY <1>1, <1>2, <1>4
      <3> QED
        BY <3>1 DEF Pending
    <2> QED
      BY <2>1 DEF IInv, CacheTrue, Clean
  <1>7. /\ MemOK(Memory, DOMAIN users \cup BuffersOf(rest)) /\ Memory.cache = cache
        /\ Left(heap, Memory.heap, DOMAIN users)
    BY <1>1, <1>3, MemoryOK, NoBuffer
  <1>8. NewMemory(Memory)
    BY <1>1, SameIsNew
  <1>9. Returns(Memory, rest, errno, << >>, << >>)
    BY <1>1, <1>8 DEF Returns
  <1>10. CacheTrue'
    BY <1>6, <1>7, <1>8, CacheStays DEF Clean
  <1>11. PutsClean(rest, Shown(Memory.cache))
    BY <1>2, <1>7, RestPuts
  <1>12. Answers(<< >>, rest)
    BY <1>5, NoAnswer
  <1>13. errno \in BOOLEAN
    BY DEF IInv, ValuesOK
  <1> HIDE DEF rest
  <1> QED
    BY <1>1, <1>2, <1>7, <1>9, <1>10, <1>11, <1>12, <1>13, NothingDelivered, ReturnKeeps

\* What is still in the cache is as on the disk, or the write above is not over.
LEMMA StillPending ==
  ASSUME IInv, stack # << >>, stack[1].op = "write", reply.ok,
         NEW m, NewMemory(m), stack' = Tail(stack), Answer(errno, << >>, << >>),
         Shown(m.cache) \subseteq Shown(cache),
         \A e \in Shown(m.cache) : e[1] \notin ToSet(stack[1].blocks)
  PROVE  CacheTrue'
  <1>1. cache' = m.cache
    BY DEF NewMemory
  <1>2. Shown(cache)' = Shown(m.cache)
    BY <1>1 DEF Shown
  <1> SUFFICES ASSUME NEW e \in Shown(m.cache) PROVE e \in OnDisk' \/ Pending(e[1])'
    BY <1>2 DEF CacheTrue
  <1>3. e \in Shown(cache)
    OBVIOUS
  <1>4. CASE e \in OnDisk
    BY <1>4 DEF NewMemory
  <1>5. CASE Pending(e[1])
    <2>1. PICK i \in DOMAIN stack : stack[i].op = "write" /\ e[1] \in ToSet(stack[i].blocks)
      BY <1>5 DEF Pending
    <2>2. i # 1
      BY <2>1
    <2>3. Tops(stack, Top, Tail(stack))
      BY TopIs
    <2>4. i - 1 \in DOMAIN Tail(stack) /\ Tail(stack)[i - 1] = stack[i]
      <3> DEFINE st == Tail(stack)
                 n == Len(st)
      <3>1. /\ n \in Nat /\ DOMAIN st = 1 .. n /\ DOMAIN stack = 1 .. n + 1
            /\ \A j \in 1 .. n : stack[j + 1] = st[j]
        BY <2>3 DEF Tops
      <3> HIDE DEF st, n
      <3>2. i - 1 \in 1 .. n /\ (i - 1) + 1 = i
        BY <2>2, <3>1
      <3>3. i - 1 \in DOMAIN st /\ st[i - 1] = stack[i]
        BY <3>1, <3>2
      <3> QED
        BY <3>3 DEF st
    <2>5. ~errno
      <3>1. errno => Shown(cache) = {}
        BY DEF IInv, WriteOK, Writes
      <3> QED
        BY <1>3, <3>1
    <2>6. reply'.ok
      BY <2>5 DEF Answer
    <2>7. \E j \in DOMAIN stack' : stack'[j].op = "write" /\ e[1] \in ToSet(stack'[j].blocks)
      BY <2>1, <2>4
    <2> QED
      BY <2>6, <2>7 DEF Pending
  <1> QED
    BY <1>3, <1>4, <1>5 DEF IInv, CacheTrue

LEMMA WrittenKeeps ==
  ASSUME IInv, Written PROVE IInv'
  <1> DEFINE rest == Tail(stack)
             bs == Top.blocks
             O == DOMAIN users \cup BuffersOf(stack)
             m == InvalidatedAll(Memory, bs)
  <1>1. /\ stack # << >> /\ Top.op = "write" /\ reply.done
        /\ UNCHANGED <<areas, users, content>>
    BY DEF Written, Answered
  <1>2. IF reply.ok
        THEN SetMemory(m) /\ stack' = rest /\ Answer(errno, << >>, << >>) /\ errno' = errno
        ELSE Fail(Memory)
    BY DEF Written, Pop
  <1>3. /\ Top = stack[1] /\ FrameOK(Top) /\ areas = << >> /\ Rest(rest)
        /\ rest \in Seq(FrameSet) /\ Tops(stack, Top, rest)
    BY <1>1, TopIs
  <1>4. Top.tmp = NULL /\ bs \in Seq(Blocks)
    BY <1>1, <1>3 DEF FrameOK, FrameSet
  <1>5. MemOK(Memory, O) /\ Memory.heap = heap /\ Memory.cache = cache
    BY MemoryOK
  <1>6. BuffersOf(rest) = BuffersOf(stack)
    BY <1>1, <1>4, NoBuffer
  <1>7. CASE ~reply.ok
    <2>1. Fail(Memory)
      BY <1>2, <1>7
    <2>2. Clean
      BY <1>7, CleanIs
    <2> QED
      BY <1>1, <1>4, <2>1, <2>2, FailPlainKeeps
  <1>8. CASE reply.ok
    <2>1. Loses(Memory, m, O) /\ \A e \in Shown(m.cache) : e[1] \notin ToSet(bs)
      <3> HIDE DEF bs
      <3> QED
        BY <1>4, <1>5, InvalidatedAllIs
    <2>2. SetMemory(m) /\ stack' = rest /\ Answer(errno, << >>, << >>) /\ errno' = errno
      BY <1>2, <1>8
    <2> HIDE DEF m
    <2>3. /\ MemOK(m, DOMAIN users \cup BuffersOf(rest)) /\ EntriesOK(m.cache)
          /\ Left(heap, m.heap, DOMAIN users) /\ Shown(m.cache) \subseteq Shown(cache)
      BY <1>5, <1>6, <2>1 DEF Loses, MemOK, Left
    <2>4. NewMemory(m)
      BY <1>1, <2>2, <2>3, SetIsNew
    <2>5. Returns(m, rest, errno, << >>, << >>)
      BY <2>2, <2>4 DEF Returns
    <2>6. CacheTrue'
      BY <1>1, <1>3, <1>8, <2>1, <2>2, <2>3, <2>4, StillPending
    <2>7. PutsClean(rest, Shown(m.cache))
      BY <1>3, <2>3, RestPuts
    <2>8. Answers(<< >>, rest)
      <3>1. CASE rest = << >>
        BY <3>1, NoAnswer
      <3>2. CASE rest # << >>
        <4>1. 1 \in DOMAIN rest
          BY <1>3, <3>2, LenProperties, EmptySeq
        <4>2. /\ \A i \in DOMAIN rest : \E j \in DOMAIN stack : rest[i] = stack[j]
          BY <1>3, RestIs
        <4>3. PICK j \in DOMAIN stack : rest[1] = stack[j]
          BY <4>1, <4>2
        <4>4. stack[j].op \in Writes
          BY <1>1, <1>3, AllWrites DEF IInv, StackOK, Writes
        <4>5. rest[1].op \notin Reads
          BY <4>3, <4>4 DEF Reads, Writes
        <4> QED
          BY <4>5, NoAnswer
      <3> QED
        BY <3>1, <3>2
    <2>9. errno \in BOOLEAN
      BY DEF IInv, ValuesOK
    <2> HIDE DEF rest
    <2> QED
      BY <1>1, <1>3, <2>3, <2>5, <2>6, <2>7, <2>8, <2>9, NothingDelivered, ReturnKeeps
  <1> QED
    BY <1>7, <1>8

-----------------------------------------------------------------------------
(* Other code.                                                             *)

RequestSet == [n : Nat \ {0}, align : Nat \ {0}]

\* The blocks that other code keeps.
Kept(us) ==
    /\ us \in [DOMAIN us -> RequestSet] /\ DOMAIN us \subseteq DOMAIN users
    /\ \A p \in DOMAIN us : us[p] = users[p]

LEMMA KeptUsers ==
  ASSUME IInv PROVE Kept(users)
  BY DEF IInv, UsersOK, Kept, RequestSet

LEMMA WithoutIs ==
  ASSUME IInv, NEW ptr
  PROVE  Kept(Without(ptr, users)) /\ DOMAIN Without(ptr, users) = DOMAIN users \ {ptr}
  <1>1. users \in [DOMAIN users -> RequestSet]
    BY DEF IInv, UsersOK, RequestSet
  <1> QED
    BY <1>1 DEF Without, Kept

\* The sizes of what other code has are at least what it asked for.
LEMMA UsersKeep ==
  ASSUME IInv, NEW us, Kept(us), users' = us, NEW m, heap' = m.heap,
         Left(heap, m.heap, DOMAIN us)
  PROVE  UsersOK'
  <1>1. /\ us \in [DOMAIN us -> RequestSet] /\ DOMAIN us \subseteq DOMAIN users
        /\ \A p \in DOMAIN us : us[p] = users[p]
    BY DEF Kept
  <1>2. IsFiniteSet(DOMAIN us)
    BY <1>1, FS_Subset DEF IInv, UsersOK
  <1>3. \A p \in DOMAIN users :
            heap.hdr[p - 1].size >= users[p].n /\ p % users[p].align = 0
    BY DEF IInv, UsersOK
  <1>4. \A p \in DOMAIN us : m.heap.hdr[p - 1].size = heap.hdr[p - 1].size
    BY DEF Left
  <1>5. \A p \in DOMAIN us :
            m.heap.hdr[p - 1].size >= us[p].n /\ p % us[p].align = 0
    BY <1>1, <1>3, <1>4
  <1> QED
    BY <1>1, <1>2, <1>5 DEF UsersOK, RequestSet

\* Other code gets one more block.
LEMMA UsersGain ==
  ASSUME IInv, NEW us, Kept(us), NEW ptr, NEW req \in RequestSet, ptr \notin DOMAIN us,
         users' = With(ptr, req, us), NEW m, heap' = m.heap,
         Left(heap, m.heap, DOMAIN us),
         m.heap.hdr[ptr - 1].size >= req.n, ptr % req.align = 0
  PROVE  UsersOK' /\ DOMAIN users' = DOMAIN us \cup {ptr}
  <1>1. /\ us \in [DOMAIN us -> RequestSet] /\ DOMAIN us \subseteq DOMAIN users
        /\ \A p \in DOMAIN us : us[p] = users[p]
    BY DEF Kept
  <1>2. /\ DOMAIN users' = DOMAIN us \cup {ptr}
        /\ \A p \in DOMAIN us \cup {ptr} : users'[p] = IF p = ptr THEN req ELSE us[p]
        /\ users' = [p \in DOMAIN us \cup {ptr} |-> IF p = ptr THEN req ELSE us[p]]
    BY DEF With
  <1>3. users' \in [DOMAIN users' -> RequestSet]
    BY <1>1, <1>2
  <1>4. IsFiniteSet(DOMAIN us \cup {ptr})
    <2>1. IsFiniteSet(DOMAIN us)
      BY <1>1, FS_Subset DEF IInv, UsersOK
    <2> QED
      BY <2>1, FS_AddElement
  <1>5. \A p \in DOMAIN users :
            heap.hdr[p - 1].size >= users[p].n /\ p % users[p].align = 0
    BY DEF IInv, UsersOK
  <1>6. \A p \in DOMAIN us : m.heap.hdr[p - 1].size = heap.hdr[p - 1].size
    BY DEF Left
  <1>7. ASSUME NEW p \in DOMAIN us \cup {ptr}
        PROVE  m.heap.hdr[p - 1].size >= users'[p].n /\ p % users'[p].align = 0
    <2>1. CASE p = ptr
      <3>1. users'[p] = req
        BY <1>2, <2>1
      <3> QED
        BY <2>1, <3>1
    <2>2. CASE p # ptr
      <3>1. p \in DOMAIN us /\ users'[p] = us[p] /\ us[p] = users[p]
        BY <1>1, <1>2, <2>2
      <3> QED
        BY <1>1, <1>5, <1>6, <3>1
    <2> QED
      BY <2>1, <2>2
  <1>8. UsersOK'
    BY <1>2, <1>3, <1>4, <1>7 DEF UsersOK, RequestSet
  <1> QED
    BY <1>2, <1>8

\* What other code is given, or that there is nothing to give.
Granted(new, req, us) ==
    /\ MemOK(new.memory, (IF new.ptr = NULL THEN DOMAIN users ELSE DOMAIN us \cup {new.ptr})
                             \cup BuffersOf(stack))
    /\ Left(heap, new.memory.heap, IF new.ptr = NULL THEN DOMAIN users ELSE DOMAIN us)
    /\ Shown(new.memory.cache) \subseteq Shown(cache)
    /\ new.ptr = NULL => Shown(new.memory.cache) = {}
    /\ new.ptr # NULL =>
           /\ new.ptr \notin DOMAIN us \cup BuffersOf(stack)
           /\ new.memory.heap.hdr[new.ptr - 1].size >= req.n /\ new.ptr % req.align = 0

LEMMA TakeKeeps ==
  ASSUME IInv, InOtherCode, UNCHANGED <<areas, content, stack>>, reply' = NoReply,
         NEW req \in RequestSet, NEW us, Kept(us), NEW new, Granted(new, req, us),
         Take(new, req, us)
  PROVE  IInv'
  <1> DEFINE m == new.memory
             ptr == new.ptr
             B == BuffersOf(stack)
  <1>1. areas = << >> /\ (stack = << >> \/ ~reply.done)
    BY DEF InOtherCode, InDriver
  <1>2. /\ SetMemory(m)
        /\ IF ptr = NULL THEN errno' = (errno \/ stack # << >>) /\ users' = users
           ELSE users' = With(ptr, req, us) /\ errno' = errno
    BY DEF Take, Denied
  <1>3. /\ MemOK(m, (IF ptr = NULL THEN DOMAIN users ELSE DOMAIN us \cup {ptr}) \cup B)
        /\ Left(heap, m.heap, IF ptr = NULL THEN DOMAIN users ELSE DOMAIN us)
        /\ Shown(m.cache) \subseteq Shown(cache)
        /\ ptr = NULL => Shown(m.cache) = {}
        /\ ptr # NULL => /\ ptr \notin DOMAIN us \cup B
                         /\ m.heap.hdr[ptr - 1].size >= req.n /\ ptr % req.align = 0
    BY DEF Granted
  <1> HIDE DEF m, ptr
  <1>4. EntriesOK(m.cache)
    BY <1>3 DEF MemOK
  <1>5. NewMemory(m)
    BY <1>2, <1>4, SetIsNew
  <1>6. heap' = m.heap
    BY <1>5 DEF NewMemory
  <1>7. errno \in BOOLEAN /\ DOMAIN users \cap B = {} /\ DOMAIN us \subseteq DOMAIN users
    BY DEF IInv, ValuesOK, HeapOK, Kept
  <1>8. errno' \in BOOLEAN /\ (errno' => errno \/ stack = << >> \/ Shown(m.cache) = {})
    BY <1>2, <1>3, <1>7
  <1>9. CASE ptr = NULL
    <2>1. UsersOK'
      BY <1>2, <1>3, <1>6, <1>9, StepUsers DEF IInv
    <2>2. MemOK(m, DOMAIN users' \cup B) /\ DOMAIN users' \cap B = {}
      BY <1>2, <1>3, <1>7, <1>9
    <2> QED
      BY <1>1, <1>3, <1>5, <1>8, <2>1, <2>2, QuietKeeps
  <1>10. CASE ptr # NULL
    <2>1. UsersOK' /\ DOMAIN users' = DOMAIN us \cup {ptr}
      <3>1. /\ ptr \notin DOMAIN us /\ users' = With(ptr, req, us)
            /\ Left(heap, m.heap, DOMAIN us)
            /\ m.heap.hdr[ptr - 1].size >= req.n /\ ptr % req.align = 0
        BY <1>2, <1>3, <1>10
      <3> QED
        BY <1>6, <3>1, UsersGain
    <2>2. MemOK(m, DOMAIN users' \cup B) /\ DOMAIN users' \cap B = {}
      BY <1>3, <1>7, <1>10, <2>1
    <2> QED
      BY <1>1, <1>3, <1>5, <1>8, <2>1, <2>2, QuietKeeps
  <1> QED
    BY <1>9, <1>10

LEMMA MallocKeeps ==
  ASSUME IInv, NEW req \in Requests, Malloc(req) PROVE IInv'
  <1> DEFINE new == Memalign(Memory, req.n, req.align)
             O == DOMAIN users \cup BuffersOf(stack)
  <1>1. /\ InOtherCode /\ Take(new, req, users)
        /\ reply' = NoReply /\ UNCHANGED <<areas, content, stack>>
    BY DEF Malloc
  <1>2. req \in RequestSet /\ req.n \in Nat \ {0} /\ req.align \in Nat \ {0}
    <2>1. req \in RequestSet
      BY CallAssumption DEF RequestSet
    <2> QED
      BY <2>1 DEF RequestSet
  <1>3. MemOK(Memory, O) /\ Memory.heap = heap /\ Memory.cache = cache
    BY MemoryOK
  <1>4. Exhausted(Memory, new, O, req.n, req.align) \/ Gained(Memory, new, O, req.n, req.align)
    BY <1>2, <1>3, MemalignIs
  <1> HIDE DEF new
  <1>5. Granted(new, req, users)
    <2>1. CASE Exhausted(Memory, new, O, req.n, req.align)
      <3>1. /\ new.ptr = NULL /\ Loses(Memory, new.memory, O) /\ Shown(new.memory.cache) = {}
        BY <2>1, ShownNone DEF Exhausted
      <3>2. MemOK(new.memory, O) /\ Left(heap, new.memory.heap, DOMAIN users)
              /\ Shown(new.memory.cache) \subseteq Shown(cache)
        BY <1>3, <3>1 DEF Loses, Left
      <3> QED
        BY <3>1, <3>2 DEF Granted
    <2>2. CASE Gained(Memory, new, O, req.n, req.align)
      <3>1. /\ new.ptr # NULL /\ new.ptr \notin O
            /\ MemOK(new.memory, O \cup {new.ptr}) /\ Left(heap, new.memory.heap, DOMAIN users)
            /\ Shown(new.memory.cache) \subseteq Shown(cache)
            /\ new.memory.heap.hdr[new.ptr - 1].size = req.n /\ new.ptr % req.align = 0
        BY <1>3, <2>2 DEF Gained, Left
      <3>2. O \cup {new.ptr} = (DOMAIN users \cup {new.ptr}) \cup BuffersOf(stack)
        OBVIOUS
      <3>3. new.memory.heap.hdr[new.ptr - 1].size >= req.n
        BY <1>2, <3>1
      <3> QED
        BY <3>1, <3>2, <3>3 DEF Granted
    <2> QED
      BY <1>4, <2>1, <2>2
  <1>6. Kept(users)
    BY KeptUsers
  <1> QED
    BY <1>1, <1>2, <1>5, <1>6, TakeKeeps

LEMMA ReallocKeeps ==
  ASSUME IInv, NEW ptr \in DOMAIN users, NEW n \in Nat \ {0}, Realloc(ptr, n) PROVE IInv'
  <1> DEFINE new == Memalign(Memory, n, 1)
             gone == [new EXCEPT !.memory.heap = Free(@, ptr)]
             req == [n |-> n, align |-> 1]
             us == Without(ptr, users)
             B == BuffersOf(stack)
             O == DOMAIN users \cup B
             w == [new.memory EXCEPT !.heap = Free(@, ptr)]
  <1>1. /\ InOtherCode /\ Take(IF new.ptr = NULL THEN new ELSE gone, req, us)
        /\ reply' = NoReply /\ UNCHANGED <<areas, content, stack>>
    BY DEF Realloc
  <1>2. req \in RequestSet /\ req.n = n /\ req.align = 1
    BY DEF RequestSet
  <1>3. MemOK(Memory, O) /\ Memory.heap = heap /\ Memory.cache = cache
    BY MemoryOK
  <1>4. /\ new = [memory |-> new.memory, ptr |-> new.ptr]
        /\ Exhausted(Memory, new, O, n, 1) \/ Gained(Memory, new, O, n, 1)
    BY <1>3, MemalignIs
  <1>5. Kept(us) /\ DOMAIN us = DOMAIN users \ {ptr} /\ DOMAIN users \cap B = {}
    BY WithoutIs DEF IInv, HeapOK
  <1> HIDE DEF new, us, req, B
  <1>6. CASE new.ptr = NULL
    <2>1. /\ Loses(Memory, new.memory, O) /\ Shown(new.memory.cache) = {}
      BY <1>4, <1>6, ShownNone DEF Exhausted, Gained
    <2>2. MemOK(new.memory, O) /\ Left(heap, new.memory.heap, DOMAIN users)
            /\ Shown(new.memory.cache) \subseteq Shown(cache)
      BY <1>3, <2>1 DEF Loses, Left
    <2>3. Granted(new, req, us)
      BY <1>6, <2>1, <2>2 DEF Granted, B
    <2>4. Take(new, req, us)
      BY <1>1, <1>6
    <2> QED
      BY <1>1, <1>2, <1>5, <2>3, <2>4, TakeKeeps
  <1>7. CASE new.ptr # NULL
    <2> DEFINE p == new.ptr
               P == O \cup {p}
               m == new.memory
    <2>1. /\ p \notin O /\ MemOK(m, P) /\ Left(heap, m.heap, O)
          /\ Shown(m.cache) \subseteq Shown(cache)
          /\ m.heap.hdr[p - 1].size = n /\ p % 1 = 0
      BY <1>3, <1>4, <1>7 DEF Exhausted, Gained
    <2>2. ptr \in P
      OBVIOUS
    <2>3. gone = [memory |-> w, ptr |-> p]
      BY <1>4
    <2>4. gone.memory = w /\ gone.ptr = p
      BY <2>3
    <2>5. P \ {ptr} = (DOMAIN us \cup {p}) \cup B /\ p \notin DOMAIN us \cup B
      BY <1>5, <2>1
    <2> HIDE DEF m, P, p, gone
    <2>6. LET x == [m EXCEPT !.heap = Free(@, ptr)] IN
          MemOK(x, P \ {ptr}) /\ Left(m.heap, x.heap, P \ {ptr}) /\ x.cache = m.cache
      BY <2>1, <2>2, GivenBack
    <2>7. MemOK(w, P \ {ptr}) /\ Left(m.heap, w.heap, P \ {ptr}) /\ w.cache = m.cache
      BY <2>6 DEF m
    <2> HIDE DEF w
    <2>8. Left(heap, w.heap, DOMAIN us)
      <3>1. DOMAIN us \subseteq P \ {ptr} /\ DOMAIN us \subseteq O
        BY <1>5, <2>5
      <3> QED
        BY <2>1, <2>7, <3>1 DEF Left
    <2>9. w.heap.hdr[p - 1].size >= n
      <3>1. p \in P \ {ptr}
        BY <2>5
      <3>2. w.heap.hdr[p - 1].size = m.heap.hdr[p - 1].size
        BY <2>7, <3>1 DEF Left
      <3> QED
        BY <2>1, <3>2
    <2>10. gone.ptr # NULL
      BY <1>7, <2>4 DEF p
    <2>11. Granted(gone, req, us)
      BY <1>2, <2>1, <2>4, <2>5, <2>7, <2>8, <2>9, <2>10 DEF Granted, B
    <2>12. Take(gone, req, us)
      BY <1>1, <1>7
    <2> QED
      BY <1>1, <1>2, <1>5, <2>11, <2>12, TakeKeeps
  <1> QED
    BY <1>6, <1>7

LEMMA FreeUserKeeps ==
  ASSUME IInv, NEW ptr \in DOMAIN users, FreeUser(ptr) PROVE IInv'
  <1> DEFINE us == Without(ptr, users)
             B == BuffersOf(stack)
             O == DOMAIN users \cup B
             m == Memory
             w == [m EXCEPT !.heap = Free(@, ptr)]
  <1>1. /\ InOtherCode /\ heap' = Free(heap, ptr) /\ users' = us /\ reply' = NoReply
        /\ UNCHANGED <<areas, cache, content, stack, errno, torn>>
    BY DEF FreeUser
  <1>2. areas = << >> /\ (stack = << >> \/ ~reply.done)
    BY <1>1 DEF InOtherCode, InDriver
  <1>3. MemOK(m, O) /\ m.heap = heap /\ m.cache = cache
    BY MemoryOK
  <1>4. Kept(us) /\ DOMAIN us = DOMAIN users \ {ptr} /\ DOMAIN users \cap B = {}
    BY WithoutIs DEF IInv, HeapOK
  <1>5. w.heap = Free(heap, ptr)
    BY <1>3 DEF Memory
  <1>6. ptr \in O /\ O \ {ptr} = DOMAIN us \cup B
    BY <1>4
  <1> HIDE DEF us, B, O, m
  <1>7. LET x == [m EXCEPT !.heap = Free(@, ptr)] IN
        MemOK(x, O \ {ptr}) /\ Left(m.heap, x.heap, O \ {ptr}) /\ x.cache = m.cache
    BY <1>3, <1>6, GivenBack
  <1>8. MemOK(w, DOMAIN us \cup B) /\ Left(heap, w.heap, DOMAIN us) /\ w.cache = cache
    BY <1>3, <1>6, <1>7 DEF Left
  <1> HIDE DEF w
  <1>9. NewMemory(w)
    <2>1. OnDisk' = OnDisk
      BY <1>1 DEF OnDisk
    <2>2. heap' = w.heap /\ cache' = w.cache
      BY <1>1, <1>5, <1>8
    <2> QED
      BY <1>1, <2>1, <2>2 DEF NewMemory
  <1>10. UsersOK'
    BY <1>1, <1>4, <1>5, <1>8, UsersKeep
  <1>11. MemOK(w, DOMAIN users' \cup B) /\ DOMAIN users' \cap B = {}
    BY <1>1, <1>4, <1>8
  <1>12. errno' \in BOOLEAN /\ (errno' => errno)
    BY <1>1 DEF IInv, ValuesOK
  <1>13. Shown(w.cache) \subseteq Shown(cache)
    BY <1>8
  <1> QED
    BY <1>1, <1>2, <1>9, <1>10, <1>11, <1>12, <1>13, QuietKeeps DEF B

-----------------------------------------------------------------------------
(* The steps that leave the disk layer alone.                              *)

LEMMA RestOfStateKeeps ==
  ASSUME IInv, UNCHANGED <<cache, content, stack, reply, errno, torn>>
  PROVE  StackOK' /\ ValuesOK' /\ CacheTrue' /\ FramesTrue' /\ ReplyTrue' /\ WriteOK'
  <1>1. StackOK' /\ ValuesOK'
    BY DEF IInv, StackOK, ValuesOK
  <1>2. OnDisk' = OnDisk
    BY DEF OnDisk
  <1>3. CacheTrue'
    BY <1>2 DEF IInv, CacheTrue, Pending
  <1>4. FramesTrue'
    BY <1>2 DEF IInv, FramesTrue
  <1>5. ReplyTrue'
    BY <1>2 DEF IInv, ReplyTrue
  <1>6. WriteOK'
    BY DEF IInv, WriteOK
  <1> QED
    BY <1>1, <1>3, <1>4, <1>5, <1>6

LEMMA StutterKeeps ==
  ASSUME IInv, UNCHANGED vars PROVE IInv'
  <1>1. AreasOK' /\ HeapOK' /\ UsersOK'
    <2>1. UNCHANGED <<areas, heap, users, cache, stack>>
      BY DEF vars
    <2> QED
      BY <2>1, SameParts
  <1>2. StackOK' /\ ValuesOK' /\ CacheTrue' /\ FramesTrue' /\ ReplyTrue' /\ WriteOK'
    <2>1. UNCHANGED <<cache, content, stack, reply, errno, torn>>
      BY DEF vars
    <2> QED
      BY <2>1, RestOfStateKeeps
  <1> QED
    BY <1>1, <1>2 DEF IInv

LEMMA AddRegionKeeps ==
  ASSUME IInv, AddRegion PROVE IInv'
  <1> DEFINE A == [addr : Nat, size : Nat]
             area == Head(areas)
             rest == Tail(areas)
             g == InitRegion(heap, area)
             O == DOMAIN users \cup BuffersOf(stack)
  <1>1. /\ areas # << >> /\ heap' = g /\ areas' = rest
        /\ UNCHANGED <<users, cache, content, stack, reply, errno, torn>>
    BY DEF AddRegion
  <1>2. /\ areas \in Seq(A)
        /\ \A i \in DOMAIN areas : \A c \in AreaCells(areas[i]) : {c, c + 1} \subseteq Cells
        /\ \A i, j \in DOMAIN areas :
               i = j \/ AreaCells(areas[i]) \cap AreaCells(areas[j]) = {}
        /\ \A i \in DOMAIN areas : \A j \in DOMAIN heap.regions :
               AreaCells(areas[i]) \cap SpanOf(heap.regions[j]) = {}
    BY DEF IInv, AreasOK
  <1>3. stack = << >>
    BY <1>1 DEF IInv, AreasOK
  <1>4. rest \in Seq(A) /\ Tops(areas, area, rest) /\ area = areas[1] /\ 1 \in DOMAIN areas /\ area \in A
    <2>1. /\ Tail(areas) \in Seq(A) /\ Tops(areas, areas[1], Tail(areas))
          /\ Head(areas) = areas[1] /\ areas[1] \in A /\ 1 \in DOMAIN areas
      <3> HIDE DEF A
      <3> QED
        BY <1>1, <1>2, PopTops
    <2> QED
      BY <2>1
  <1>5. MemOK(Memory, O) /\ Memory.heap = heap /\ Memory.cache = cache
    BY MemoryOK
  <1>6. Good(heap) /\ EntriesOK(cache) /\ Pointers(heap) = O \cup DataOf(cache) /\ O \cap DataOf(cache) = {}
    BY <1>5 DEF MemOK
  <1> HIDE DEF rest, area
  <1>7. Clear(heap, area)
    BY <1>2, <1>4 DEF Clear
  <1>8. /\ Good(g) /\ Pointers(g) = Pointers(heap)
        /\ \A p \in Pointers(heap) : g.hdr[p - 1].size = heap.hdr[p - 1].size
        /\ \A i \in DOMAIN g.regions :
               \/ SpanOf(g.regions[i]) = AreaCells(area)
               \/ \E k \in DOMAIN heap.regions : g.regions[i] = heap.regions[k]
    BY <1>6, <1>7, InitGood
  <1> HIDE DEF g
  <1>9. \A i \in DOMAIN rest : i + 1 \in DOMAIN areas /\ rest[i] = areas[i + 1] /\ i + 1 # 1 /\ i \in Nat
    <2> DEFINE k == Len(rest)
    <2>1. /\ k \in Nat /\ DOMAIN rest = 1 .. k /\ DOMAIN areas = 1 .. k + 1
          /\ \A i \in 1 .. k : areas[i + 1] = rest[i]
      BY <1>4 DEF Tops
    <2> HIDE DEF k
    <2>2. \A i \in 1 .. k : i + 1 \in 1 .. k + 1 /\ i + 1 # 1 /\ i \in Nat
      BY <2>1
    <2> QED
      BY <2>1, <2>2
  <1>10. AreasOK'
    <2>1. \A i \in DOMAIN rest : \A c \in AreaCells(rest[i]) : {c, c + 1} \subseteq Cells
      BY <1>2, <1>9
    <2>2. \A i, j \in DOMAIN rest : i = j \/ AreaCells(rest[i]) \cap AreaCells(rest[j]) = {}
      <3> SUFFICES ASSUME NEW i \in DOMAIN rest, NEW j \in DOMAIN rest, i # j
                   PROVE  AreaCells(rest[i]) \cap AreaCells(rest[j]) = {}
        OBVIOUS
      <3>1. i + 1 # j + 1
        BY <1>9
      <3>2. AreaCells(areas[i + 1]) \cap AreaCells(areas[j + 1]) = {}
        BY <1>2, <1>9, <3>1
      <3> QED
        BY <1>9, <3>2
    <2>3. \A i \in DOMAIN rest : \A j \in DOMAIN g.regions :
               AreaCells(rest[i]) \cap SpanOf(g.regions[j]) = {}
      <3> SUFFICES ASSUME NEW i \in DOMAIN rest, NEW j \in DOMAIN g.regions
                   PROVE  AreaCells(rest[i]) \cap SpanOf(g.regions[j]) = {}
        OBVIOUS
      <3>1. i + 1 \in DOMAIN areas /\ rest[i] = areas[i + 1] /\ i + 1 # 1
        BY <1>9
      <3>2. CASE SpanOf(g.regions[j]) = AreaCells(area)
        <4>1. AreaCells(areas[i + 1]) \cap AreaCells(areas[1]) = {}
          BY <1>2, <1>4, <3>1
        <4> QED
          BY <1>4, <3>1, <3>2, <4>1
      <3>3. CASE \E k \in DOMAIN heap.regions : g.regions[j] = heap.regions[k]
        BY <1>2, <3>1, <3>3
      <3> QED
        BY <1>8, <3>2, <3>3
    <2> QED
      BY <1>1, <1>3, <1>4, <2>1, <2>2, <2>3 DEF AreasOK
  <1>11. HeapOK'
    <2> DEFINE w == [heap |-> g, cache |-> cache]
    <2>1. w.heap = g /\ w.cache = cache /\ w = [heap |-> w.heap, cache |-> w.cache]
      OBVIOUS
    <2> HIDE DEF w
    <2>2. MemOK(w, O)
      BY <1>6, <1>8, <2>1 DEF MemOK
    <2>3. DOMAIN users \cap BuffersOf(stack) = {} /\ OneEach(stack)
      BY DEF IInv, HeapOK
    <2> QED
      BY <1>1, <2>1, <2>2, <2>3, StepHeap
  <1>12. UsersOK'
    <2>1. \A p \in DOMAIN users : g.hdr[p - 1].size = heap.hdr[p - 1].size
      BY <1>6, <1>8
    <2> QED
      BY <1>1, <2>1 DEF IInv, UsersOK
  <1>13. StackOK' /\ ValuesOK' /\ CacheTrue' /\ FramesTrue' /\ ReplyTrue' /\ WriteOK'
    BY <1>1, RestOfStateKeeps
  <1> QED
    BY <1>10, <1>11, <1>12, <1>13 DEF IInv

-----------------------------------------------------------------------------
(* The invariant holds.                                                    *)

LEMMA EmptyGood == Good(Empty) /\ Pointers(Empty) = {}
  <1> DEFINE h == Empty
  <1>1. h = [regions |-> << >>, first |-> << >>, hdr |-> [c \in Cells |-> NoHeader]]
    BY DEF Empty
  <1>2. /\ h.regions = << >> /\ h.first = << >> /\ h.hdr = [c \in Cells |-> NoHeader]
        /\ DOMAIN h.regions = {}
    BY <1>1
  <1>3. NoHeader \in HeaderSet /\ NoHeader.magic = "none"
    BY DEF NoHeader, HeaderSet
  <1>4. h.hdr \in [Cells -> HeaderSet] /\ \A c \in Cells : h.hdr[c].magic = "none"
    BY <1>2, <1>3
  <1>5. h.regions \in Seq(RegionSet)
    BY <1>2
  <1>6. Starts(h) = {}
    BY <1>2 DEF Starts
  <1>7. h.first \in [Starts(h) -> Cells]
    <2>1. DOMAIN << >> = {} /\ << >> = [x \in {} |-> NULL]
      OBVIOUS
    <2>2. [x \in {} |-> NULL] \in [{} -> Cells]
      OBVIOUS
    <2> QED
      BY <1>2, <1>6, <2>1, <2>2
  <1> HIDE DEF h
  <1>8. Shaped(h)
    BY <1>1, <1>2, <1>4, <1>5, <1>7 DEF Shaped
  <1>9. Apart(h) /\ Covered(h) /\ Sound(h) /\ Pointers(h) = {}
    BY <1>2, <1>4 DEF Apart, Covered, Sound, Pointers
  <1> QED
    BY <1>8, <1>9 DEF Good, h

LEMMA InitOK ==
  ASSUME Init PROVE IInv
  <1>1. /\ areas = Areas /\ heap = Empty /\ users = << >> /\ stack = << >> /\ reply = NoReply
        /\ errno = FALSE /\ torn = {} /\ content = [b \in Physical |-> 0]
        /\ cache = [s \in 1 .. Slots |->
                    [id |-> IF IndexOf[ZeroBlock] = s THEN ZeroBlock ELSE None,
                     data |-> NULL, lock |-> FALSE, value |-> 0]]
    BY DEF Init
  <1>2. DOMAIN users = {} /\ DOMAIN stack = {} /\ BuffersOf(stack) = {} /\ OneEach(stack)
    BY <1>1 DEF BuffersOf, OneEach
  <1>3. AreasOK
    <2>1. DOMAIN heap.regions = {}
      BY <1>1 DEF Empty
    <2> QED
      BY <1>1, <2>1, AreaAssumption DEF AreasOK
  <1>4. cache \in [1 .. Slots -> Entry] /\ \A s \in 1 .. Slots : cache[s].data = NULL
    <2>1. \A s \in 1 .. Slots :
             [id |-> IF IndexOf[ZeroBlock] = s THEN ZeroBlock ELSE None,
              data |-> NULL, lock |-> FALSE, value |-> 0] \in Entry
      BY DiskAssumption DEF Entry
    <2> QED
      BY <1>1, <2>1
  <1>5. EntriesOK(cache) /\ DataOf(cache) = {} /\ Shown(cache) = {}
    BY <1>4 DEF EntriesOK, DataOf, Shown
  <1>6. HeapOK
    <2>1. Memory = [heap |-> heap, cache |-> cache] /\ Memory.heap = heap /\ Memory.cache = cache
      BY DEF Memory
    <2>2. MemOK(Memory, {})
      BY <1>1, <1>5, <2>1, EmptyGood DEF MemOK
    <2>3. DOMAIN users \cup BuffersOf(stack) = {}
      BY <1>2
    <2> QED
      BY <1>2, <2>2, <2>3 DEF HeapOK
  <1>7. UsersOK
    <2>1. users \in [DOMAIN users -> [n : Nat \ {0}, align : Nat \ {0}]]
      <3> DEFINE S == [n : Nat \ {0}, align : Nat \ {0}]
      <3> HIDE DEF S
      <3>1. users = [x \in {} |-> NULL]
        BY <1>1
      <3>2. [x \in {} |-> NULL] \in [{} -> S]
        OBVIOUS
      <3>3. users \in [DOMAIN users -> S]
        BY <1>2, <3>1, <3>2
      <3> QED
        BY <3>3 DEF S
    <2> QED
      BY <1>2, <2>1, FS_EmptySet DEF UsersOK
  <1>8. StackOK
    <2>1. stack \in Seq(FrameSet)
      BY <1>1
    <2> QED
      BY <1>2, <2>1 DEF StackOK, StackGood
  <1>9. ValuesOK
    BY <1>1 DEF ValuesOK
  <1>10. CacheTrue /\ FramesTrue
    BY <1>2, <1>5 DEF CacheTrue, FramesTrue
  <1>11. ReplyTrue
    BY <1>1, NoReplyIs DEF ReplyTrue
  <1>12. WriteOK
    BY <1>1, <1>2 DEF WriteOK, PutsClean
  <1> QED
    BY <1>3, <1>6, <1>7, <1>8, <1>9, <1>10, <1>11, <1>12 DEF IInv

LEMMA NextKeeps ==
  ASSUME IInv, [Next]_vars PROVE IInv'
  <1>1. CASE AddRegion
    BY <1>1, AddRegionKeeps
  <1>2. CASE Open
    BY <1>2, OpenKeeps
  <1>3. ASSUME NEW b \in Blocks, Read(b) \/ WritePart(b) PROVE IInv'
    BY <1>3, ReadKeeps, WritePartKeeps
  <1>4. ASSUME NEW bs \in Spans, ReadRun(bs) \/ Write(bs) PROVE IInv'
    BY <1>4, ReadRunKeeps, WriteKeeps
  <1>5. CASE ReadToModify
    BY <1>5, ReadToModifyKeeps
  <1>6. CASE DriverRead
    BY <1>6, DriverReadKeeps
  <1>7. CASE DriverReadsBelow
    BY <1>7, DriverReadsBelowKeeps
  <1>8. CASE DriverWrite
    BY <1>8, DriverWriteKeeps
  <1>9. CASE DriverWritesBelow
    BY <1>9, DriverWritesBelowKeeps
  <1>10. CASE SmallRead
    BY <1>10, SmallReadKeeps
  <1>11. CASE AgainRead
    BY <1>11, AgainReadKeeps
  <1>12. CASE ManyRead
    BY <1>12, ManyReadKeeps
  <1>13. CASE ReadForWrite
    BY <1>13, ReadForWriteKeeps
  <1>14. CASE PartWritten
    BY <1>14, PartWrittenKeeps
  <1>15. CASE Written
    BY <1>15, WrittenKeeps
  <1>16. ASSUME NEW req \in Requests, Malloc(req) PROVE IInv'
    BY <1>16, MallocKeeps
  <1>17. ASSUME NEW ptr \in DOMAIN users, FreeUser(ptr) PROVE IInv'
    BY <1>17, FreeUserKeeps
  <1>18. ASSUME NEW ptr \in DOMAIN users, NEW req \in Requests, Realloc(ptr, req.n) PROVE IInv'
    <2>1. req.n \in Nat \ {0}
      BY CallAssumption
    <2> QED
      BY <1>18, <2>1, ReallocKeeps
  <1>19. CASE UNCHANGED vars
    BY <1>19, StutterKeeps
  <1> QED
    BY <1>1, <1>2, <1>3, <1>4, <1>5, <1>6, <1>7, <1>8, <1>9, <1>10, <1>11, <1>12, <1>13, <1>14,
       <1>15, <1>16, <1>17, <1>18, <1>19 DEF Next

\* The invariant that the properties follow from holds in every state.
THEOREM InvariantHolds == Spec => []IInv
  <1>1. Init => IInv
    BY InitOK
  <1>2. IInv /\ [Next]_vars => IInv'
    BY NextKeeps
  <1> QED
    BY <1>1, <1>2, PTL DEF Spec

-----------------------------------------------------------------------------
(* What follows from the invariant.                                        *)

\* The blocks of heap, cache, users and stack have their types, and no more
\* than three calls wait at a time.
THEOREM TypeCorrect == Spec => []TypeOK
  <1>1. IInv => TypeOK
    <2> SUFFICES ASSUME IInv PROVE TypeOK
      OBVIOUS
    <2>1. MemOK(Memory, DOMAIN users \cup BuffersOf(stack)) /\ Memory.heap = heap /\ Memory.cache = cache
      BY MemoryOK
    <2>2. Good(heap) /\ EntriesOK(cache) /\ DOMAIN users \subseteq Pointers(heap)
      BY <2>1 DEF MemOK
    <2>3. \A c \in Cells : heap.hdr[c].magic \in {"none", "free", "alloc"}
      <3>1. heap.hdr \in [Cells -> HeaderSet]
        BY <2>2 DEF Good, Shaped
      <3> QED
        BY <3>1 DEF HeaderSet
    <2>4. Pointers(heap) \subseteq Cells
      <3> SUFFICES ASSUME NEW c \in Cells, heap.hdr[c].magic = "alloc" PROVE c + 1 \in Cells
        BY DEF Pointers
      <3>1. PICK i \in DOMAIN heap.regions : c \in Headers(heap, heap.regions[i])
        BY <2>2 DEF Good, Covered
      <3>2. heap.regions[i] \in RegionSet
        <4>1. heap.regions \in Seq(RegionSet)
          BY <2>2 DEF Good, Shaped
        <4> QED
          BY <4>1, LenProperties, ElementOfSeq
      <3>3. c \in SpanOf(heap.regions[i])
        BY <3>1, <3>2 DEF Headers, SpanOf, RegionSet
      <3> QED
        BY <2>2, <3>3 DEF Good, Apart
    <2>5. \A p \in DOMAIN users : users[p].n \in Nat
      BY DEF IInv, UsersOK
    <2>6. Len(stack) <= 3
      BY StackLength DEF IInv, StackOK
    <2>7. /\ cache \in [1 .. Slots -> Entry] /\ content \in [Physical -> {0, 1}]
          /\ reply.done \in BOOLEAN /\ errno \in BOOLEAN /\ torn \subseteq Blocks
      BY <2>2 DEF EntriesOK, IInv, ValuesOK, ReplyTrue, ReplySet
    <2> QED
      BY <2>2, <2>3, <2>4, <2>5, <2>6, <2>7 DEF TypeOK
  <1> QED
    BY <1>1, InvariantHolds, PTL

\* The blocks of each region lie side by side, its free ones are joined and in
\* the ring in order, and whoever asked has at least what it asked for, aligned.
THEOREM HeapStaysSound == Spec => []HeapSound
  <1>1. IInv => HeapSound
    <2> SUFFICES ASSUME IInv PROVE HeapSound
      OBVIOUS
    <2>1. MemOK(Memory, DOMAIN users \cup BuffersOf(stack)) /\ Memory.heap = heap
      BY MemoryOK
    <2>2. Sound(heap)
      BY <2>1 DEF MemOK, Good
    <2> QED
      BY <2>2 DEF IInv, UsersOK, HeapSound
  <1> QED
    BY <1>1, InvariantHolds, PTL

LEMMA OwnersCount ==
  ASSUME IInv
  PROVE  LET I == {i \in DOMAIN stack : stack[i].tmp # NULL} IN
         /\ IsFiniteSet(Buffers) /\ Cardinality(Buffers) = Cardinality(I)
         /\ IsFiniteSet(CacheData) /\ IsFiniteSet(DOMAIN users)
  <1> DEFINE I == {i \in DOMAIN stack : stack[i].tmp # NULL}
             f == [i \in I |-> stack[i].tmp]
  <1>1. Len(stack) \in Nat /\ DOMAIN stack = 1 .. Len(stack)
    BY StackLength DEF IInv, StackOK
  <1>2. IsFiniteSet(I)
    <2>1. IsFiniteSet(1 .. Len(stack))
      BY <1>1, FS_Interval
    <2>2. I \subseteq 1 .. Len(stack)
      BY <1>1
    <2> QED
      BY <2>1, <2>2, FS_Subset
  <1>3. f \in Bijection(I, Buffers)
    <2>1. \A i \in I : f[i] \in Buffers
      BY DEF Buffers
    <2>2. \A a, b \in I : f[a] = f[b] => a = b
      BY DEF IInv, HeapOK, OneEach
    <2>3. \A t \in Buffers : \E i \in I : f[i] = t
      BY DEF Buffers
    <2>4. DOMAIN f = I /\ f \in [I -> Buffers]
      BY <2>1
    <2> HIDE DEF f, I
    <2> QED
      BY <2>2, <2>3, <2>4 DEF Bijection, Injection, Surjection, IsInjective
  <1>4. IsFiniteSet(Buffers) /\ Cardinality(Buffers) = Cardinality(I)
    <2>1. ExistsBijection(I, Buffers)
      BY <1>3 DEF ExistsBijection
    <2> HIDE DEF I
    <2> QED
      BY <1>2, <2>1, FS_Bijection
  <1>5. IsFiniteSet(CacheData)
    <2> DEFINE D == {cache[s].data : s \in 1 .. Slots}
               g == [s \in 1 .. Slots |-> cache[s].data]
    <2>1. g \in Surjection(1 .. Slots, D)
      BY DEF Surjection
    <2>2. IsFiniteSet(1 .. Slots)
      BY SlotsNat, FS_Interval
    <2> HIDE DEF g
    <2>3. IsFiniteSet(D)
      BY <2>1, <2>2, FS_Surjection
    <2>4. CacheData \subseteq D
      BY DEF CacheData
    <2> HIDE DEF D
    <2> QED
      BY <2>3, <2>4, FS_Subset
  <1> QED
    BY <1>4, <1>5 DEF IInv, UsersOK

\* Every allocated block has exactly one owner: other code, a read under way or
\* an entry of the cache.
THEOREM OwnedOnce == Spec => []OneOwner
  <1>1. IInv => OneOwner
    <2> SUFFICES ASSUME IInv PROVE OneOwner
      OBVIOUS
    <2> DEFINE U == DOMAIN users
               B == Buffers
               D == CacheData
               I == {i \in DOMAIN stack : stack[i].tmp # NULL}
    <2>1. B = BuffersOf(stack) /\ D = DataOf(cache)
      BY DEF Buffers, BuffersOf, CacheData, DataOf
    <2>2. MemOK(Memory, U \cup B) /\ Memory.heap = heap /\ Memory.cache = cache
      BY <2>1, MemoryOK
    <2>3. Pointers(heap) = U \cup B \cup D /\ (U \cup B) \cap D = {} /\ U \cap B = {}
      BY <2>1, <2>2 DEF MemOK, IInv, HeapOK
    <2>4. /\ IsFiniteSet(B) /\ Cardinality(B) = Cardinality(I)
          /\ IsFiniteSet(D) /\ IsFiniteSet(U)
      BY OwnersCount
    <2> HIDE DEF U, B, D, I
    <2>5. Cardinality(Pointers(heap)) = Cardinality(U) + Cardinality(D) + Cardinality(I)
      <3>1. Cardinality({}) = 0
        BY FS_EmptySet
      <3>2. /\ IsFiniteSet(U \cup B)
            /\ Cardinality(U \cup B) = Cardinality(U) + Cardinality(B) - Cardinality(U \cap B)
        BY <2>4, FS_Union
      <3>3. Cardinality((U \cup B) \cup D)
              = Cardinality(U \cup B) + Cardinality(D) - Cardinality((U \cup B) \cap D)
        BY <2>4, <3>2, FS_Union
      <3>4. Cardinality(U) \in Nat /\ Cardinality(B) \in Nat /\ Cardinality(D) \in Nat
        BY <2>4, FS_CardinalityType
      <3>5. Cardinality(U \cap B) = 0 /\ Cardinality((U \cup B) \cap D) = 0
        BY <2>3, <3>1
      <3>6. Cardinality(Pointers(heap)) = Cardinality((U \cup B) \cup D)
        BY <2>3
      <3> QED
        BY <2>4, <3>2, <3>3, <3>4, <3>5, <3>6
    <2> QED
      BY <2>3, <2>5 DEF OneOwner, Pointers, U, B, D, I
  <1> QED
    BY <1>1, InvariantHolds, PTL

\* An allocation fails only when no free block has room at an aligned address,
\* and only after every cached block has been given back.
THEOREM FailsOnlyWhenFull == Spec => []FailsWhenFull
  <1>1. IInv => FailsWhenFull
    <2> SUFFICES ASSUME IInv, NEW req \in Requests,
                        Memalign(Memory, req.n, req.align).ptr = NULL
                 PROVE  LET new == Memalign(Memory, req.n, req.align) IN
                        /\ ~Room(new.memory.heap, req.n, req.align)
                        /\ \A s \in 1 .. Slots : new.memory.cache[s].data = NULL
      BY DEF FailsWhenFull
    <2> DEFINE O == DOMAIN users \cup BuffersOf(stack)
               new == Memalign(Memory, req.n, req.align)
    <2>1. req.n \in Nat \ {0} /\ req.align \in Nat \ {0}
      BY CallAssumption
    <2>2. MemOK(Memory, O)
      BY MemoryOK
    <2>3. Exhausted(Memory, new, O, req.n, req.align) \/ Gained(Memory, new, O, req.n, req.align)
      BY <2>1, <2>2, MemalignIs
    <2>4. new.ptr = NULL
      OBVIOUS
    <2> HIDE DEF new
    <2>5. Exhausted(Memory, new, O, req.n, req.align)
      BY <2>3, <2>4 DEF Gained
    <2>6. DataOf(new.memory.cache) = {} /\ ~Room(new.memory.heap, req.n, req.align)
      BY <2>5 DEF Exhausted
    <2>7. \A s \in 1 .. Slots : new.memory.cache[s].data = NULL
      BY <2>6 DEF DataOf
    <2> QED
      BY <2>6, <2>7 DEF new
  <1> QED
    BY <1>1, InvariantHolds, PTL

\* A read that reports success has delivered what is on the disk, but for the
\* blocks that a failed write may have changed.
THEOREM ReadsAreTrue == Spec => []ReadsTrue
  <1>1. IInv => ReadsTrue
    <2> SUFFICES ASSUME IInv, reply.ok, NEW i \in DOMAIN reply.blocks
                 PROVE  \/ reply.value[i] = content[Base(reply.blocks[i])]
                        \/ Base(reply.blocks[i]) \in torn
      BY DEF ReadsTrue
    <2>1. <<reply.blocks[i], reply.value[i]>> \in OnDisk
      BY DEF IInv, ReplyTrue, Delivers
    <2> QED
      BY <2>1 DEF OnDisk, Holding
  <1> QED
    BY <1>1, InvariantHolds, PTL
=============================================================================
