------------------------ MODULE DirectMapCacheProofs ------------------------
(***************************************************************************)
(* What holds of the cache for every geometry, any set of addresses in     *)
(* use, all byte values and counters of any width.                         *)
(***************************************************************************)
EXTENDS DirectMapCache, TLAPS

-----------------------------------------------------------------------------
(* The address arithmetic.                                                 *)

\* A number below m and a multiple of m make a quotient and a remainder.
LEMMA DivMod ==
  ASSUME NEW m \in Nat \ {0}, NEW q \in Nat, NEW r \in 0 .. m - 1
  PROVE  (q * m + r) \div m = q /\ (q * m + r) % m = r
OBVIOUS

LEMMA SumProductNat ==
  ASSUME NEW q \in Nat, NEW m \in Nat, NEW r \in Nat
  PROVE  q * m + r \in Nat
OBVIOUS

\* An address that was put together comes apart into what it was made of.
LEMMA TakeApart ==
  ASSUME NEW t \in Tags, NEW i \in Indices, NEW o \in Offsets
  PROVE  LET a == serialize_address(t, i, o)
         IN  /\ offset_of(a) = o /\ index_of(a) = i /\ tag_of(a) = t
             /\ line_addr(a) = serialize_address(t, i, 0)
<1> DEFINE q == t * kNumLines + i
           a == q * kLineSize + o
<1>1. /\ kLineSize \in Nat \ {0} /\ kNumLines \in Nat \ {0}
      /\ t \in Nat /\ i \in 0 .. kNumLines - 1 /\ o \in 0 .. kLineSize - 1
  BY AddressAssumption DEF Tags, Indices, Offsets
<1>2. q \in Nat /\ q \div kNumLines = t /\ q % kNumLines = i
  BY <1>1, DivMod, SumProductNat
<1>3. serialize_address(t, i, o) = a /\ serialize_address(t, i, 0) = q * kLineSize + 0
  BY DEF serialize_address
<1> HIDE DEF q
<1>4. a \div kLineSize = q /\ a % kLineSize = o
  BY <1>1, <1>2, DivMod
<1>5. a - o = q * kLineSize + 0
  <2> DEFINE p == q * kLineSize
  <2>1. p \in Nat
    BY <1>1, <1>2, SumProductNat
  <2> HIDE DEF p
  <2>2. (p + o) - o = p + 0
    BY <1>1, <2>1
  <2> QED
    BY <2>2 DEF p
<1> HIDE DEF a
<1> QED
  BY <1>2, <1>3, <1>4, <1>5 DEF offset_of, index_of, tag_of, line_addr

\* Every address is put together from its own fields.
LEMMA Fields ==
  ASSUME NEW a \in Addresses
  PROVE  /\ tag_of(a) \in Tags /\ index_of(a) \in Indices /\ offset_of(a) \in Offsets
         /\ a = serialize_address(tag_of(a), index_of(a), offset_of(a))
         /\ line_addr(a) = serialize_address(tag_of(a), index_of(a), 0)
<1>1. PICK t \in Tags, i \in Indices, o \in Offsets : a = serialize_address(t, i, o)
  BY DEF Addresses
<1> QED
  BY <1>1, TakeApart

LEMMA Zero == 0 \in Offsets /\ 0 \in Tags /\ 0 \in Indices
BY AddressAssumption DEF Offsets, Tags, Indices

\* Lines of different tag or index have different addresses.
LEMMA LinesDiffer ==
  ASSUME NEW t \in Tags, NEW i \in Indices, NEW u \in Tags, NEW j \in Indices,
         serialize_address(t, i, 0) = serialize_address(u, j, 0)
  PROVE  t = u /\ i = j
BY Zero, TakeApart

\* A line address is the line address of an address.
LEMMA LineAddress ==
  ASSUME NEW t \in Tags, NEW i \in Indices
  PROVE  serialize_address(t, i, 0) \in {line_addr(a) : a \in Addresses}
<1>1. serialize_address(t, i, 0) \in Addresses
  BY Zero DEF Addresses
<1> QED
  BY <1>1, Zero, TakeApart

-----------------------------------------------------------------------------
(* BackingMemory.                                                          *)

\* What storage_ may be.
StorageOK(storage) ==
  /\ DOMAIN storage \subseteq {line_addr(a) : a \in Addresses}
  /\ \A x \in DOMAIN storage : storage[x] \in Blocks

LEMMA ZeroBlockType == ZeroBlock \in Blocks
BY CacheAssumption DEF ZeroBlock, Blocks

LEMMA BlockType ==
  ASSUME NEW storage, StorageOK(storage), NEW x
  PROVE  BlockAt(storage, x) \in Blocks
BY ZeroBlockType DEF StorageOK, BlockAt

LEMMA WithBlockOK ==
  ASSUME NEW storage, StorageOK(storage), NEW a \in Addresses, NEW block \in Blocks
  PROVE  StorageOK(WithBlock(storage, line_addr(a), block))
<1> DEFINE new == WithBlock(storage, line_addr(a), block)
<1>1. /\ DOMAIN new = DOMAIN storage \cup {line_addr(a)}
      /\ \A x \in DOMAIN storage \cup {line_addr(a)} :
           new[x] = IF x = line_addr(a) THEN block ELSE storage[x]
  BY DEF WithBlock
<1> HIDE DEF new
<1>2. StorageOK(new)
  BY <1>1 DEF StorageOK
<1> QED
  BY <1>2 DEF new

-----------------------------------------------------------------------------
(* The inductive invariant: the four invariants that are checked, together. *)

\* Lines, memory and history.
LinesOK ==
  /\ lines_ \in [Indices -> CacheLine]
  /\ StorageOK(storage_)
  /\ bypassed \subseteq {home(i) : i \in {j \in Indices : lines_[j].valid}}
  /\ LinesAreBacked
  /\ CleanLinesMatch

\* The counters.
StatsOK ==
  /\ hits_ \in 0 .. CounterMod - 1
  /\ misses_ \in 0 .. CounterMod - 1
  /\ calls \in 0 .. CounterMod - 1
  /\ StatsCountAccesses

LEMMA InvParts ==
  TypeOK /\ LinesAreBacked /\ CleanLinesMatch /\ StatsCountAccesses <=> LinesOK /\ StatsOK
BY DEF TypeOK, LinesOK, StatsOK, StorageOK

LEMMA LineType ==
  ASSUME LinesOK, NEW i \in Indices
  PROVE  /\ lines_[i] \in CacheLine /\ lines_[i].tag \in Tags /\ lines_[i].data \in Blocks
         /\ lines_[i].valid \in BOOLEAN /\ lines_[i].dirty \in BOOLEAN
         /\ lines_[i].dirty => lines_[i].valid
BY DEF LinesOK, CacheLine

\* The homes of two lines differ.
LEMMA HomesDiffer ==
  ASSUME LinesOK, NEW i \in Indices, NEW j \in Indices, home(i) = home(j)
  PROVE  i = j
BY LineType, LinesDiffer DEF home

\* An address hits the line whose home is its line address.
LEMMA HitIff ==
  ASSUME LinesOK, NEW a \in Addresses
  PROVE  /\ index_of(a) \in Indices
         /\ Hit(a) <=> lines_[index_of(a)].valid /\ line_addr(a) = home(index_of(a))
         /\ \A j \in Indices : line_addr(a) = home(j) => j = index_of(a)
<1>1. /\ tag_of(a) \in Tags /\ index_of(a) \in Indices
      /\ line_addr(a) = serialize_address(tag_of(a), index_of(a), 0)
  BY Fields
<1>2. ASSUME NEW j \in Indices, line_addr(a) = home(j)
      PROVE  j = index_of(a) /\ lines_[j].tag = tag_of(a)
  BY <1>1, <1>2, LineType, LinesDiffer DEF home
<1> QED
  BY <1>1, <1>2 DEF Hit, home

\* Counting one access on either side counts it in the sum.
LEMMA BumpSum ==
  ASSUME NEW m \in Nat \ {0}, NEW h \in 0 .. m - 1, NEW k \in 0 .. m - 1
  PROVE  /\ (((h + 1) % m) + k) % m = (((h + k) % m) + 1) % m
         /\ (h + ((k + 1) % m)) % m = (((h + k) % m) + 1) % m
         /\ (h + 1) % m \in 0 .. m - 1
<1>1. \A x \in 0 .. 2 * m - 1 : x % m = IF x < m THEN x ELSE x - m
  <2> SUFFICES ASSUME NEW x \in 0 .. 2 * m - 1
               PROVE  x % m = IF x < m THEN x ELSE x - m
    OBVIOUS
  <2>1. CASE x < m
    BY <2>1
  <2>2. CASE x >= m
    <3>1. x - m \in 0 .. m - 1 /\ 1 * m + (x - m) = x
      BY <2>2
    <3>2. (1 * m + (x - m)) % m = x - m
      BY <3>1, DivMod
    <3> QED
      BY <2>2, <3>1, <3>2
  <2> QED
    BY <2>1, <2>2
<1> DEFINE a == (h + 1) % m
           b == (k + 1) % m
           c == (h + k) % m
<1>2. /\ a = IF h + 1 < m THEN h + 1 ELSE h + 1 - m
      /\ b = IF k + 1 < m THEN k + 1 ELSE k + 1 - m
      /\ c = IF h + k < m THEN h + k ELSE h + k - m
  BY <1>1
<1> HIDE DEF a, b, c
<1>3. /\ (a + k) % m = IF a + k < m THEN a + k ELSE a + k - m
      /\ (h + b) % m = IF h + b < m THEN h + b ELSE h + b - m
      /\ (c + 1) % m = IF c + 1 < m THEN c + 1 ELSE c + 1 - m
  BY <1>1, <1>2
<1>4. a \in 0 .. m - 1 /\ (a + k) % m = (c + 1) % m /\ (h + b) % m = (c + 1) % m
  BY <1>2, <1>3
<1> QED
  BY <1>4 DEF a, b, c

\* evict writes a dirty line to its home, and nothing else.
LEMMA EvictedIs ==
  ASSUME LinesOK, NEW i \in Indices
  PROVE  /\ StorageOK(EvictedStorage(i))
         /\ DOMAIN storage_ \subseteq DOMAIN EvictedStorage(i)
         /\ \A x : BlockAt(EvictedStorage(i), x)
                     = IF NeedsStore(i) /\ x = home(i) THEN lines_[i].data
                       ELSE BlockAt(storage_, x)
<1>1. PICK a \in Addresses : home(i) = line_addr(a)
  BY LineType, LineAddress DEF home
<1>2. CASE NeedsStore(i)
  <2>1. StorageOK(WithBlock(storage_, home(i), lines_[i].data))
    BY <1>1, LineType, WithBlockOK DEF LinesOK
  <2> DEFINE h == home(i)
             block == lines_[i].data
             new == WithBlock(storage_, h, block)
  <2>2. EvictedStorage(i) = new
    BY <1>2 DEF EvictedStorage
  <2>3. DOMAIN storage_ \subseteq DOMAIN new
    BY DEF WithBlock
  <2>4. \A x : BlockAt(new, x) = IF x = h THEN block ELSE BlockAt(storage_, x)
    <3> HIDE DEF h, block
    <3> QED
      BY DEF WithBlock, BlockAt
  <2> QED
    BY <1>2, <2>1, <2>2, <2>3, <2>4
<1>3. CASE ~NeedsStore(i)
  BY <1>3 DEF EvictedStorage, LinesOK
<1> QED
  BY <1>2, <1>3

-----------------------------------------------------------------------------
(* A miss puts a line in the place of another.                             *)

\* The line for a, but for the bytes at some offsets, or no line at all takes
\* the place of the line at its index, which is written back if it is dirty.
Replaces(a, written) ==
  LET i == index_of(a)
      block == BlockAt(EvictedStorage(i), line_addr(a))
  IN  /\ ~Hit(a)
      /\ \E line \in CacheLine :
           /\ lines_' = [lines_ EXCEPT ![i] = line]
           /\ line.valid =>
                /\ line.tag = tag_of(a)
                /\ \A o \in Offsets \ written : line.data[o] = block[o]
                /\ ~line.dirty => line.data = block
                /\ line_addr(a) \in DOMAIN storage_'
      /\ StorageOK(storage_')
      /\ DOMAIN storage_ \subseteq DOMAIN storage_'
      /\ \A x : BlockAt(storage_', x) = BlockAt(EvictedStorage(i), x)
      /\ Evicts(i)

LEMMA ReplaceKeeps ==
  ASSUME LinesOK, NEW a \in Addresses, NEW written, Replaces(a, written)
  PROVE  LinesOK'
<1> DEFINE i == index_of(a)
           block == BlockAt(EvictedStorage(i), line_addr(a))
<1>0. i \in Indices /\ line_addr(a) = serialize_address(tag_of(a), i, 0)
  BY Fields
<1>1. PICK line \in CacheLine :
           /\ lines_' = [lines_ EXCEPT ![i] = line]
           /\ line.valid => /\ line.tag = tag_of(a)
                            /\ ~line.dirty => line.data = block
                            /\ line_addr(a) \in DOMAIN storage_'
  BY DEF Replaces
<1>2. /\ StorageOK(storage_') /\ DOMAIN storage_ \subseteq DOMAIN storage_'
      /\ \A x : BlockAt(storage_', x) = BlockAt(EvictedStorage(i), x)
      /\ bypassed' = IF lines_[i].valid THEN bypassed \ {home(i)} ELSE bypassed
  BY DEF Replaces, Evicts
<1>3. lines_ \in [Indices -> CacheLine]
  BY DEF LinesOK
<1>4. lines_' \in [Indices -> CacheLine] /\ lines_'[i] = line
  BY <1>0, <1>1, <1>3
<1>5. ASSUME NEW j \in Indices, j # i
      PROVE  lines_'[j] = lines_[j] /\ home(j)' = home(j) /\ home(j) # home(i)
  BY <1>0, <1>1, <1>3, <1>5, HomesDiffer DEF home
<1>6. line.valid => home(i)' = line_addr(a)
  BY <1>0, <1>1, <1>4 DEF home
<1>7. (bypassed \subseteq {home(k) : k \in {j \in Indices : lines_[j].valid}})'
  <2> SUFFICES ASSUME NEW x \in bypassed'
               PROVE  \E j \in Indices : lines_'[j].valid /\ x = home(j)'
    OBVIOUS
  <2>1. PICK j \in Indices : lines_[j].valid /\ x = home(j)
    BY <1>2 DEF LinesOK
  <2>2. j # i
    BY <1>2, <2>1
  <2> QED
    BY <1>5, <2>1, <2>2
<1>8. ASSUME NEW j \in Indices, lines_'[j].valid
      PROVE  home(j)' \in DOMAIN storage_'
  <2>1. CASE j = i
    BY <1>1, <1>4, <1>6, <1>8, <2>1
  <2>2. CASE j # i
    BY <1>2, <1>5, <1>8, <2>2 DEF LinesOK, LinesAreBacked
  <2> QED
    BY <2>1, <2>2
<1>9. ASSUME NEW j \in Indices, lines_'[j].valid, ~lines_'[j].dirty, home(j)' \notin bypassed'
      PROVE  lines_'[j].data = BlockAt(storage_', home(j)')
  <2>1. CASE j = i
    BY <1>1, <1>2, <1>4, <1>6, <1>9, <2>1
  <2>2. CASE j # i
    <3>1. lines_[j].data = BlockAt(storage_, home(j))
      BY <1>2, <1>5, <1>9, <2>2 DEF LinesOK, CleanLinesMatch
    <3>2. BlockAt(storage_', home(j)) = BlockAt(storage_, home(j))
      BY <1>0, <1>2, <1>5, <2>2, EvictedIs
    <3> QED
      BY <1>5, <2>2, <3>1, <3>2
  <2> QED
    BY <2>1, <2>2
<1>10. LinesAreBacked'
  BY <1>8 DEF LinesAreBacked
<1>11. CleanLinesMatch'
  BY <1>9 DEF CleanLinesMatch
<1> QED
  BY <1>2, <1>4, <1>7, <1>10, <1>11 DEF LinesOK

\* What a reader sees of an address changes only at those offsets, or if a
\* direct write had gone around its line.
LEMMA ReplaceViews ==
  ASSUME LinesOK, NEW a \in Addresses, NEW written, Replaces(a, written), NEW b \in Addresses
  PROVE  \/ View(b)' = View(b)
         \/ line_addr(b) = line_addr(a) /\ offset_of(b) \in written
         \/ line_addr(b) \in bypassed \ bypassed'
<1> DEFINE i == index_of(a)
           j == index_of(b)
           o == offset_of(b)
           block == BlockAt(EvictedStorage(i), line_addr(a))
<1>0. /\ i \in Indices /\ line_addr(a) = serialize_address(tag_of(a), i, 0)
      /\ j \in Indices /\ line_addr(b) = serialize_address(tag_of(b), j, 0)
      /\ o \in Offsets /\ tag_of(a) \in Tags /\ tag_of(b) \in Tags
  BY Fields
<1>1. PICK line \in CacheLine :
           /\ lines_' = [lines_ EXCEPT ![i] = line]
           /\ line.valid => /\ line.tag = tag_of(a)
                            /\ \A p \in Offsets \ written : line.data[p] = block[p]
  BY DEF Replaces
<1>2. /\ \A x : BlockAt(storage_', x) = BlockAt(EvictedStorage(i), x)
      /\ bypassed' = IF lines_[i].valid THEN bypassed \ {home(i)} ELSE bypassed
  BY DEF Replaces, Evicts
<1>3. lines_ \in [Indices -> CacheLine] /\ lines_'[i] = line
  BY <1>0, <1>1 DEF LinesOK
<1>4. View(b) = IF Hit(b) THEN lines_[j].data[o] ELSE BlockAt(storage_, line_addr(b))[o]
  BY DEF View, Cached
<1>5. View(b)' = IF lines_'[j].valid /\ lines_'[j].tag = tag_of(b) THEN lines_'[j].data[o]
                 ELSE BlockAt(EvictedStorage(i), line_addr(b))[o]
  BY <1>2 DEF View, Cached, Hit
<1>6. BlockAt(EvictedStorage(i), line_addr(b))
        = IF NeedsStore(i) /\ line_addr(b) = home(i) THEN lines_[i].data
          ELSE BlockAt(storage_, line_addr(b))
  BY <1>0, EvictedIs
<1>7. /\ Hit(b) <=> lines_[j].valid /\ line_addr(b) = home(j)
      /\ line_addr(b) = home(i) => i = j
  BY <1>0, HitIff
<1>8. CASE j # i
  <2>1. lines_'[j] = lines_[j]
    BY <1>0, <1>1, <1>3, <1>8
  <2> QED
    BY <1>4, <1>5, <1>6, <1>7, <1>8, <2>1 DEF Hit
<1>9. CASE j = i /\ Hit(b)
  <2>1. tag_of(b) # tag_of(a)
    BY <1>9 DEF Replaces, Hit
  <2>2. lines_[i].valid /\ line_addr(b) = home(i) /\ View(b) = lines_[i].data[o]
    BY <1>4, <1>7, <1>9
  <2>3. View(b)' = BlockAt(EvictedStorage(i), line_addr(b))[o]
    BY <1>1, <1>3, <1>5, <1>9, <2>1
  <2>4. CASE lines_[i].dirty
    BY <1>6, <2>2, <2>3, <2>4 DEF NeedsStore
  <2>5. CASE ~lines_[i].dirty /\ home(i) \notin bypassed
    <3>1. lines_[i].data = BlockAt(storage_, home(i))
      BY <1>0, <2>2, <2>5 DEF LinesOK, CleanLinesMatch
    <3> QED
      BY <1>6, <2>2, <2>3, <2>5, <3>1 DEF NeedsStore
  <2>6. CASE home(i) \in bypassed
    BY <1>2, <2>2, <2>6
  <2> QED
    BY <2>4, <2>5, <2>6
<1>10. CASE j = i /\ ~Hit(b)
  <2>1. View(b) = BlockAt(EvictedStorage(i), line_addr(b))[o]
    BY <1>4, <1>6, <1>7, <1>10 DEF NeedsStore
  <2>2. CASE line.valid /\ line.tag = tag_of(b)
    <3>1. line_addr(b) = line_addr(a) /\ View(b)' = line.data[o]
      BY <1>0, <1>1, <1>3, <1>5, <1>10, <2>2
    <3>2. CASE o \notin written
      BY <1>0, <1>1, <2>1, <2>2, <3>1, <3>2
    <3> QED
      BY <3>1, <3>2
  <2>3. CASE ~(line.valid /\ line.tag = tag_of(b))
    BY <1>3, <1>5, <1>10, <2>1, <2>3
  <2> QED
    BY <2>2, <2>3
<1> QED
  BY <1>8, <1>9, <1>10

LEMMA EvictsLess ==
  ASSUME NEW i, Evicts(i)
  PROVE  bypassed' \subseteq bypassed
BY DEF Evicts

\* A fetch inserts its block and changes none.
LEMMA FetchIs ==
  ASSUME LinesOK, NEW a \in Addresses, storage_' = FetchedStorage(a, index_of(a))
  PROVE  LET i == index_of(a)
         IN  /\ Fetched(a, i) \in Blocks
             /\ StorageOK(storage_')
             /\ DOMAIN storage_ \subseteq DOMAIN storage_'
             /\ line_addr(a) \in DOMAIN storage_'
             /\ \A x : BlockAt(storage_', x) = BlockAt(EvictedStorage(i), x)
<1> DEFINE i == index_of(a)
           s == EvictedStorage(i)
           block == Fetched(a, i)
           addr == line_addr(a)
<1>1. StorageOK(s) /\ DOMAIN storage_ \subseteq DOMAIN s
  BY Fields, EvictedIs
<1>2. block = BlockAt(s, addr) /\ storage_' = WithBlock(s, addr, block)
  BY DEF Fetched, FetchedStorage
<1> HIDE DEF s, block
<1>3. block \in Blocks
  BY <1>1, <1>2, BlockType
<1>4. StorageOK(storage_')
  BY <1>1, <1>2, <1>3, WithBlockOK
<1> HIDE DEF addr
<1>5. DOMAIN storage_' = DOMAIN s \cup {addr}
  BY <1>2 DEF WithBlock
<1>6. \A x : BlockAt(storage_', x) = BlockAt(s, x)
  BY <1>2 DEF WithBlock, BlockAt
<1> QED
  BY <1>1, <1>3, <1>4, <1>5, <1>6 DEF s, block, addr

LEMMA ReadMissReplaces ==
  ASSUME LinesOK, NEW a \in Addresses, ReadMiss(a)
  PROVE  Replaces(a, {}) /\ reply' = Reply("read", a, View(a)')
<1> DEFINE i == index_of(a)
           block == Fetched(a, i)
           line == [valid |-> TRUE, dirty |-> FALSE, tag |-> tag_of(a), data |-> block]
<1>1. /\ i \in Indices /\ tag_of(a) \in Tags /\ offset_of(a) \in Offsets
      /\ lines_ \in [Indices -> CacheLine]
  BY Fields DEF LinesOK
<1>2. /\ ~Hit(a) /\ Evicts(i) /\ storage_' = FetchedStorage(a, i)
      /\ lines_' = [lines_ EXCEPT ![i] = line]
      /\ reply' = Reply("read", a, block[offset_of(a)])
  BY DEF ReadMiss, MissAccess
<1>3. /\ block \in Blocks /\ block = BlockAt(EvictedStorage(i), line_addr(a))
      /\ StorageOK(storage_')
      /\ DOMAIN storage_ \subseteq DOMAIN storage_'
      /\ line_addr(a) \in DOMAIN storage_'
      /\ \A x : BlockAt(storage_', x) = BlockAt(EvictedStorage(i), x)
  BY <1>2, FetchIs DEF Fetched
<1> HIDE DEF block
<1>4. line \in CacheLine
  BY <1>1, <1>3 DEF CacheLine
<1>5. Replaces(a, {})
  BY <1>2, <1>3, <1>4 DEF Replaces
<1>6. View(a)' = block[offset_of(a)]
  BY <1>1, <1>2 DEF View, Cached, Hit
<1> QED
  BY <1>2, <1>5, <1>6

LEMMA WriteMissReplaces ==
  ASSUME LinesOK, NEW a \in Addresses, NEW value \in Values, WriteMiss(a, value)
  PROVE  Replaces(a, {offset_of(a)}) /\ View(a)' = value
<1> DEFINE i == index_of(a)
           o == offset_of(a)
           fetched == Fetched(a, i)
           block == [fetched EXCEPT ![o] = value]
           line == [valid |-> TRUE, dirty |-> TRUE, tag |-> tag_of(a), data |-> block]
<1>1. /\ i \in Indices /\ tag_of(a) \in Tags /\ o \in Offsets
      /\ lines_ \in [Indices -> CacheLine]
  BY Fields DEF LinesOK
<1>2. /\ ~Hit(a) /\ Evicts(i) /\ storage_' = FetchedStorage(a, i)
      /\ lines_' = [lines_ EXCEPT ![i] = line]
  BY DEF WriteMiss, MissAccess
<1>3. /\ fetched \in Blocks /\ fetched = BlockAt(EvictedStorage(i), line_addr(a))
      /\ StorageOK(storage_')
      /\ DOMAIN storage_ \subseteq DOMAIN storage_'
      /\ line_addr(a) \in DOMAIN storage_'
      /\ \A x : BlockAt(storage_', x) = BlockAt(EvictedStorage(i), x)
  BY <1>2, FetchIs DEF Fetched
<1> HIDE DEF fetched
<1>4. /\ block \in Blocks /\ block[o] = value
      /\ \A p \in Offsets \ {o} : block[p] = fetched[p]
  BY <1>1, <1>3 DEF Blocks
<1> HIDE DEF block
<1>5. line \in CacheLine
  BY <1>1, <1>4 DEF CacheLine
<1>6. Replaces(a, {o})
  BY <1>2, <1>3, <1>4, <1>5 DEF Replaces
<1>7. View(a)' = value
  BY <1>1, <1>2, <1>4 DEF View, Cached, Hit
<1> QED
  BY <1>6, <1>7

\* A line can be written back without an insertion, so a miss that throws has
\* thrown at the fetch, with the old line already safe in memory.
LEMMA ThrowReplaces ==
  ASSUME LinesOK, NEW a \in Addresses, AccessThrows(a)
  PROVE  Replaces(a, {})
<1> DEFINE i == index_of(a)
<1>1. i \in Indices /\ lines_ \in [Indices -> CacheLine]
  BY Fields DEF LinesOK
<1>2. ~EvictInserts(i)
  BY <1>1 DEF EvictInserts, NeedsStore, Inserts, LinesOK, LinesAreBacked
<1>3. /\ ~Hit(a) /\ Evicts(i) /\ storage_' = EvictedStorage(i)
      /\ lines_' = [lines_ EXCEPT ![i] = EvictedLine(i)]
  BY <1>2 DEF AccessThrows
<1>4. EvictedLine(i) \in CacheLine /\ ~EvictedLine(i).valid
  BY <1>1 DEF EvictedLine, CacheLine
<1> QED
  BY <1>1, <1>3, <1>4, EvictedIs DEF Replaces

-----------------------------------------------------------------------------
(* Hits, flush and the direct calls.                                       *)

\* A hit writes into its line at most, which is then dirty.
LEMMA WriteHitKeeps ==
  ASSUME LinesOK, NEW a \in Addresses, NEW value \in Values, WriteHit(a, value)
  PROVE  /\ LinesOK'
         /\ View(a)' = value
         /\ \A b \in Addresses : b # a => View(b)' = View(b)
<1> DEFINE i == index_of(a)
           o == offset_of(a)
           line == [lines_[i] EXCEPT !.data[o] = value, !.dirty = TRUE]
<1>1. /\ i \in Indices /\ o \in Offsets /\ lines_ \in [Indices -> CacheLine]
      /\ lines_[i].valid /\ lines_[i].tag = tag_of(a) /\ lines_[i].data \in Blocks
      /\ lines_[i].tag \in Tags
  BY Fields, LineType DEF LinesOK, WriteHit, Hit
<1>2. lines_' = [lines_ EXCEPT ![i] = line] /\ storage_' = storage_ /\ bypassed' = bypassed
  BY DEF WriteHit, HitAccess
<1>3. /\ line.valid /\ line.dirty /\ line.tag = lines_[i].tag /\ line \in CacheLine
      /\ line.data = [lines_[i].data EXCEPT ![o] = value]
  BY <1>1 DEF CacheLine, Blocks
<1> HIDE DEF line
<1>4. lines_' \in [Indices -> CacheLine]
  BY <1>1, <1>2, <1>3
<1>5. \A j \in Indices : /\ home(j)' = home(j)
                         /\ lines_'[j].valid <=> lines_[j].valid
                         /\ j # i => lines_'[j] = lines_[j]
  BY <1>1, <1>2, <1>3 DEF home
<1>6. LinesOK'
  BY <1>1, <1>2, <1>3, <1>4, <1>5 DEF LinesOK, LinesAreBacked, CleanLinesMatch
<1>7. View(a)' = value
  BY <1>1, <1>2, <1>3 DEF View, Cached, Hit, Blocks
<1>8. ASSUME NEW b \in Addresses, b # a
      PROVE  View(b)' = View(b)
  <2>1. /\ index_of(b) \in Indices /\ offset_of(b) \in Offsets
        /\ b = serialize_address(tag_of(b), index_of(b), offset_of(b))
        /\ a = serialize_address(tag_of(a), i, o)
    BY Fields
  <2>2. CASE index_of(b) # i
    BY <1>2, <1>5, <2>1, <2>2 DEF View, Cached, Hit
  <2>3. CASE index_of(b) = i /\ tag_of(b) # tag_of(a)
    BY <1>1, <1>2, <1>3, <2>1, <2>3 DEF View, Cached, Hit
  <2>4. CASE index_of(b) = i /\ tag_of(b) = tag_of(a)
    <3>1. offset_of(b) # o
      BY <1>8, <2>1, <2>4
    <3> QED
      BY <1>1, <1>2, <1>3, <2>1, <2>4, <3>1 DEF View, Cached, Hit, Blocks
  <2> QED
    BY <2>2, <2>3, <2>4
<1> QED
  BY <1>6, <1>7, <1>8

\* flush inserts nothing, so it cannot fail, and stores every dirty line.
LEMMA FlushStores ==
  ASSUME LinesOK, NEW oom \in BOOLEAN, Flush(oom)
  PROVE  LET stored == {i \in Indices : NeedsStore(i)}
         IN  /\ reply' = Done
             /\ lines_' = [i \in Indices |->
                             IF i \in stored THEN [lines_[i] EXCEPT !.dirty = FALSE]
                             ELSE lines_[i]]
             /\ bypassed' = bypassed \ {home(i) : i \in stored}
             /\ DOMAIN storage_' = DOMAIN storage_
             /\ \A i \in stored : BlockAt(storage_', home(i)) = lines_[i].data
             /\ \A x : (\A i \in stored : x # home(i)) => BlockAt(storage_', x) = BlockAt(storage_, x)
<1> DEFINE stored == {i \in Indices : NeedsStore(i)}
<1>1. {i \in Indices : oom /\ EvictInserts(i)} = {}
  BY DEF EvictInserts, NeedsStore, Inserts, LinesOK, LinesAreBacked
<1>2. /\ reply' = Done
      /\ lines_' = [i \in Indices |->
                      IF i \in stored THEN [lines_[i] EXCEPT !.dirty = FALSE] ELSE lines_[i]]
      /\ storage_' = [x \in DOMAIN storage_ \cup {home(i) : i \in stored} |->
                        IF \E i \in stored : home(i) = x
                          THEN lines_[CHOOSE i \in stored : home(i) = x].data
                          ELSE storage_[x]]
      /\ bypassed' = bypassed \ {home(i) : i \in stored}
  BY <1>1 DEF Flush
<1>3. \A i \in stored : home(i) \in DOMAIN storage_
  BY DEF NeedsStore, LinesOK, LinesAreBacked
<1>4. ASSUME NEW i \in stored
      PROVE  (CHOOSE k \in stored : home(k) = home(i)) = i
  <2>1. \A k \in stored : home(k) = home(i) => k = i
    BY HomesDiffer
  <2> HIDE DEF stored
  <2> QED
    BY <2>1
<1> HIDE DEF stored
<1>5. DOMAIN storage_' = DOMAIN storage_
  BY <1>2, <1>3
<1>6. ASSUME NEW i \in stored
      PROVE  BlockAt(storage_', home(i)) = lines_[i].data
  <2>1. home(i) \in DOMAIN storage_' /\ storage_'[home(i)] = lines_[i].data
    BY <1>2, <1>4
  <2> QED
    BY <2>1 DEF BlockAt
<1>7. ASSUME NEW x, \A i \in stored : x # home(i)
      PROVE  BlockAt(storage_', x) = BlockAt(storage_, x)
  BY <1>2, <1>5, <1>7 DEF BlockAt
<1> QED
  BY <1>2, <1>5, <1>6, <1>7 DEF stored

LEMMA FlushKeeps ==
  ASSUME LinesOK, NEW oom \in BOOLEAN, Flush(oom)
  PROVE  /\ LinesOK'
         /\ \A b \in Addresses :
              /\ View(b)' = View(b)
              /\ \/ line_addr(b) \in bypassed'
                 \/ BlockAt(storage_', line_addr(b))[offset_of(b)] = View(b)
<1> DEFINE stored == {i \in Indices : NeedsStore(i)}
<1>1. lines_' = [i \in Indices |->
                   IF i \in stored THEN [lines_[i] EXCEPT !.dirty = FALSE] ELSE lines_[i]]
  BY FlushStores
<1>2. bypassed' = bypassed \ {home(i) : i \in stored} /\ DOMAIN storage_' = DOMAIN storage_
  BY FlushStores
<1>3. /\ \A i \in stored : BlockAt(storage_', home(i)) = lines_[i].data
      /\ \A x : (\A i \in stored : x # home(i)) => BlockAt(storage_', x) = BlockAt(storage_, x)
  BY FlushStores
<1>4. lines_ \in [Indices -> CacheLine] /\ stored \subseteq Indices
  BY DEF LinesOK
<1>5. lines_' \in [Indices -> CacheLine]
  BY <1>1, <1>4 DEF CacheLine
<1>6. ASSUME NEW i \in Indices
      PROVE  /\ lines_'[i].valid <=> lines_[i].valid
             /\ lines_'[i].tag = lines_[i].tag /\ lines_'[i].data = lines_[i].data
             /\ home(i)' = home(i)
  BY <1>1, <1>4 DEF CacheLine, home
<1>7. StorageOK(storage_')
  <2> SUFFICES ASSUME NEW x \in DOMAIN storage_'
               PROVE  storage_'[x] \in Blocks
    BY <1>2 DEF LinesOK, StorageOK
  <2>1. storage_'[x] = BlockAt(storage_', x) /\ storage_[x] = BlockAt(storage_, x)
        /\ storage_[x] \in Blocks
    BY <1>2 DEF BlockAt, LinesOK, StorageOK
  <2>2. CASE \E i \in stored : x = home(i)
    BY <1>3, <1>4, <2>1, <2>2, LineType
  <2>3. CASE \A i \in stored : x # home(i)
    BY <1>3, <2>1, <2>3
  <2> QED
    BY <2>2, <2>3
<1>8. (bypassed \subseteq {home(i) : i \in {j \in Indices : lines_[j].valid}})'
  <2>1. bypassed' \subseteq {home(i) : i \in {j \in Indices : lines_[j].valid}}
    BY <1>2 DEF LinesOK
  <2> QED
    BY <1>6, <2>1
\* A line equals its block after the flush, unless it is still gone around.
<1>9. ASSUME NEW i \in Indices, lines_[i].valid, home(i) \notin bypassed'
      PROVE  lines_[i].data = BlockAt(storage_', home(i))
  <2>1. CASE i \in stored
    BY <1>3, <2>1
  <2>2. CASE i \notin stored
    <3>1. \A k \in stored : home(i) # home(k)
      BY <1>4, <2>2, HomesDiffer
    <3>2. home(i) \notin bypassed /\ ~lines_[i].dirty
      BY <1>2, <1>9, <2>2, <3>1 DEF NeedsStore
    <3> QED
      BY <1>3, <1>9, <3>1, <3>2 DEF LinesOK, CleanLinesMatch
  <2> QED
    BY <2>1, <2>2
<1>10. LinesAreBacked' /\ CleanLinesMatch'
  BY <1>2, <1>6, <1>9 DEF LinesOK, LinesAreBacked, CleanLinesMatch
<1>11. LinesOK'
  BY <1>5, <1>7, <1>8, <1>10 DEF LinesOK
<1>12. ASSUME NEW b \in Addresses
       PROVE  /\ View(b)' = View(b)
              /\ \/ line_addr(b) \in bypassed'
                 \/ BlockAt(storage_', line_addr(b))[offset_of(b)] = View(b)
  <2>1. /\ index_of(b) \in Indices
        /\ Hit(b) <=> lines_[index_of(b)].valid /\ line_addr(b) = home(index_of(b))
        /\ \A j \in Indices : line_addr(b) = home(j) => j = index_of(b)
    BY HitIff
  <2>2. Hit(b)' <=> Hit(b)
    BY <1>6, <2>1 DEF Hit
  <2>3. CASE Hit(b)
    <3>1. View(b) = lines_[index_of(b)].data[offset_of(b)] /\ View(b)' = View(b)
      BY <1>6, <2>1, <2>2, <2>3 DEF View, Cached
    <3> QED
      BY <1>9, <2>1, <2>3, <3>1
  <2>4. CASE ~Hit(b)
    <3>1. \A i \in stored : line_addr(b) # home(i)
      BY <1>4, <2>1, <2>4 DEF NeedsStore
    <3>2. BlockAt(storage_', line_addr(b)) = BlockAt(storage_, line_addr(b))
      BY <1>3, <3>1
    <3> QED
      BY <2>2, <2>4, <3>2 DEF View, Cached
  <2> QED
    BY <2>3, <2>4
<1> QED
  BY <1>11, <1>12

\* A direct call stores a block: the one that was there, one that no line holds
\* a copy of, or one that it goes around its line with.
LEMMA StoreBlockKeeps ==
  ASSUME LinesOK, NEW a \in Addresses, NEW block \in Blocks, lines_' = lines_,
         storage_' = WithBlock(storage_, line_addr(a), block),
         \/ bypassed' = bypassed /\ (block = BlockAt(storage_, line_addr(a)) \/ ~Hit(a))
         \/ bypassed' = bypassed \cup {line_addr(a)} /\ Hit(a)
  PROVE  /\ LinesOK'
         /\ \A b \in Addresses :
              View(b)' = IF Hit(b) \/ line_addr(b) # line_addr(a) THEN View(b)
                         ELSE block[offset_of(b)]
<1> DEFINE addr == line_addr(a)
<1>1. /\ \A i \in Indices : home(i)' = home(i)
      /\ \A b \in Addresses : Hit(b)' <=> Hit(b)
  BY DEF home, Hit
<1>2. StorageOK(storage_')
  BY WithBlockOK DEF LinesOK
<1>3. /\ index_of(a) \in Indices
      /\ Hit(a) <=> lines_[index_of(a)].valid /\ addr = home(index_of(a))
      /\ \A j \in Indices : addr = home(j) => j = index_of(a)
  BY HitIff
<1> HIDE DEF addr
<1>4. DOMAIN storage_' = DOMAIN storage_ \cup {addr}
  BY DEF WithBlock, addr
<1>5. \A x : BlockAt(storage_', x) = IF x = addr THEN block ELSE BlockAt(storage_, x)
  BY DEF WithBlock, BlockAt, addr
<1>6. (bypassed \subseteq {home(i) : i \in {j \in Indices : lines_[j].valid}})'
  <2>1. bypassed' \subseteq {home(i) : i \in {j \in Indices : lines_[j].valid}}
    BY <1>3 DEF LinesOK, addr
  <2> QED
    BY <1>1, <2>1
<1>7. LinesAreBacked'
  BY <1>1, <1>4 DEF LinesOK, LinesAreBacked
<1>8. CleanLinesMatch'
  <2> SUFFICES ASSUME NEW i \in Indices, lines_[i].valid, ~lines_[i].dirty, home(i) \notin bypassed'
               PROVE  lines_[i].data = BlockAt(storage_', home(i))
    BY <1>1 DEF CleanLinesMatch
  <2>1. lines_[i].data = BlockAt(storage_, home(i))
    BY DEF LinesOK, CleanLinesMatch
  <2>2. CASE home(i) = addr
    BY <1>3, <1>5, <2>1, <2>2 DEF addr
  <2>3. CASE home(i) # addr
    BY <1>5, <2>1, <2>3
  <2> QED
    BY <2>2, <2>3
<1>9. LinesOK'
  BY <1>2, <1>6, <1>7, <1>8 DEF LinesOK
<1>10. ASSUME NEW b \in Addresses
       PROVE  View(b)' = IF Hit(b) \/ line_addr(b) # addr THEN View(b)
                         ELSE block[offset_of(b)]
  BY <1>1, <1>5 DEF View, Cached
<1> QED
  BY <1>9, <1>10 DEF addr

-----------------------------------------------------------------------------
(* Steps of the cache are steps of a flat memory.                          *)

LEMMA UsedAddresses == Used \subseteq Addresses
BY CacheAssumption

\* What a step must do to the views and the history to be a Touch.
LEMMA TouchIs ==
  ASSUME NEW targets, bypassed' \subseteq bypassed,
         \A b \in Used : \/ View(b)' = View(b)
                         \/ b \in targets
                         \/ line_addr(b) \in bypassed \ bypassed'
  PROVE  Flat!Touch(targets)
BY DEF Flat!Touch

LEMMA SameViewsTouch ==
  ASSUME bypassed' \subseteq bypassed, \A b \in Addresses : View(b)' = View(b)
  PROVE  Flat!Touch({})
BY UsedAddresses, TouchIs

\* A miss touches at most the byte it writes.
LEMMA ReplaceTouches ==
  ASSUME LinesOK, NEW a \in Addresses, NEW written \in {{}, {offset_of(a)}},
         Replaces(a, written)
  PROVE  Flat!Touch(IF written = {} THEN {} ELSE {a})
<1>1. bypassed' \subseteq bypassed
  BY DEF Replaces, Evicts
<1>2. ASSUME NEW b \in Used
      PROVE  \/ View(b)' = View(b)
             \/ b = a /\ written # {}
             \/ line_addr(b) \in bypassed \ bypassed'
  <2>1. \/ View(b)' = View(b)
        \/ line_addr(b) = line_addr(a) /\ offset_of(b) \in written
        \/ line_addr(b) \in bypassed \ bypassed'
    BY UsedAddresses, ReplaceViews
  <2>2. ASSUME line_addr(b) = line_addr(a), offset_of(b) = offset_of(a)
        PROVE  b = a
    BY <2>2, UsedAddresses, Fields, LinesDiffer
  <2> QED
    BY <2>1, <2>2
<1> QED
  BY <1>1, <1>2, TouchIs

LEMMA ReadTouches ==
  ASSUME NEW a \in Used, reply' = Reply("read", a, View(a)'), Flat!Touch({})
  PROVE  Flat!Next
<1>1. Flat!Read(a)
  BY DEF Flat!Read, Flat!Reply, Reply
<1> QED
  BY <1>1 DEF Flat!Next

LEMMA WriteTouches ==
  ASSUME NEW a \in Used, NEW value \in Values, reply' = Reply("written", a, value),
         View(a)' = value, Flat!Touch({a})
  PROVE  Flat!Next
<1>1. Flat!Write(a, value)
  BY DEF Flat!Write, Flat!Reply, Reply
<1> QED
  BY <1>1 DEF Flat!Next

LEMMA FailTouches ==
  ASSUME reply' = Thrown, Flat!Touch({})
  PROVE  Flat!Next
BY DEF Flat!Next, Flat!Fail, Flat!Thrown, Flat!Reply, Thrown, Reply

\* An insertion that fails has changed nothing.
LEMMA UnchangedFails ==
  ASSUME LinesOK, lines_' = lines_, storage_' = storage_, bypassed' = bypassed, reply' = Thrown
  PROVE  LinesOK' /\ Flat!Next
<1>1. LinesOK'
  BY DEF LinesOK, LinesAreBacked, CleanLinesMatch, home
<1>2. \A b \in Addresses : View(b)' = View(b)
  BY DEF View, Cached, Hit
<1> QED
  BY <1>1, <1>2, SameViewsTouch, FailTouches

LEMMA DirectRead ==
  ASSUME LinesOK, NEW a \in Used, NEW oom \in BOOLEAN, ReadByte(a, oom)
  PROVE  LinesOK' /\ Flat!Next
<1> DEFINE block == BlockAt(storage_, line_addr(a))
<1>1. a \in Addresses /\ block \in Blocks
  BY UsedAddresses, BlockType DEF LinesOK
<1>2. CASE oom
  BY <1>2, UnchangedFails DEF ReadByte, DirectCall
<1>3. CASE ~oom
  <2>1. /\ lines_' = lines_ /\ bypassed' = bypassed
        /\ storage_' = WithBlock(storage_, line_addr(a), block)
        /\ reply' = IF Hit(a) THEN Raw ELSE Reply("read", a, block[offset_of(a)])
    BY <1>3 DEF ReadByte, DirectCall, Cached
  <2>2. /\ LinesOK'
        /\ \A b \in Addresses :
             View(b)' = IF Hit(b) \/ line_addr(b) # line_addr(a) THEN View(b)
                        ELSE block[offset_of(b)]
    BY <1>1, <2>1, StoreBlockKeeps
  <2>3. \A b \in Addresses : View(b)' = View(b)
    BY <2>2 DEF View, Cached
  <2>4. CASE Hit(a)
    <3>1. Flat!Around
      BY <2>1, <2>3, <2>4, UsedAddresses DEF Flat!Around, Flat!Raw, Flat!Reply, Raw, Reply
    <3> QED
      BY <2>2, <3>1 DEF Flat!Next
  <2>5. CASE ~Hit(a)
    <3>1. View(a)' = block[offset_of(a)]
      BY <1>1, <2>2, <2>5
    <3> QED
      BY <2>1, <2>2, <2>3, <2>5, <3>1, SameViewsTouch, ReadTouches
  <2> QED
    BY <2>4, <2>5
<1> QED
  BY <1>2, <1>3

LEMMA DirectWrite ==
  ASSUME LinesOK, NEW a \in Used, NEW value \in Values, NEW oom \in BOOLEAN,
         WriteByte(a, value, oom)
  PROVE  LinesOK' /\ Flat!Next
<1> DEFINE old == BlockAt(storage_, line_addr(a))
           o == offset_of(a)
           block == [old EXCEPT ![o] = value]
<1>1. a \in Addresses /\ old \in Blocks /\ o \in Offsets
  BY UsedAddresses, BlockType, Fields DEF LinesOK
<1>2. block \in Blocks /\ block[o] = value /\ \A p \in Offsets : p # o => block[p] = old[p]
  BY <1>1 DEF Blocks
<1>3. CASE oom
  <2>1. ~Hit(a)
    BY <1>1, <1>3, HitIff
       DEF WriteByte, DirectCall, Inserts, LinesOK, LinesAreBacked
  <2> QED
    BY <1>3, <2>1, UnchangedFails DEF WriteByte, DirectCall, Cached
<1>4. CASE ~oom
  <2>1. /\ lines_' = lines_
        /\ storage_' = WithBlock(storage_, line_addr(a), block)
        /\ reply' = IF Hit(a) THEN Raw ELSE Reply("written", a, value)
        /\ bypassed' = IF Hit(a) THEN bypassed \cup {line_addr(a)} ELSE bypassed
    BY <1>4 DEF WriteByte, DirectCall, Cached
  <2> HIDE DEF block
  <2>2. /\ LinesOK'
        /\ \A b \in Addresses :
             View(b)' = IF Hit(b) \/ line_addr(b) # line_addr(a) THEN View(b)
                        ELSE block[offset_of(b)]
    BY <1>1, <1>2, <2>1, StoreBlockKeeps
  <2>3. CASE Hit(a)
    <3>1. ASSUME NEW b \in Addresses, line_addr(b) = line_addr(a)
          PROVE  Hit(b)
      <4>1. tag_of(b) = tag_of(a) /\ index_of(b) = index_of(a)
        BY <1>1, <3>1, Fields, LinesDiffer
      <4> QED
        BY <2>3, <4>1 DEF Hit
    <3>2. \A b \in Used : View(b)' = View(b)
      BY <2>2, <3>1, UsedAddresses
    <3>3. Flat!Around
      BY <2>1, <2>3, <3>2 DEF Flat!Around, Flat!Raw, Flat!Reply, Raw, Reply
    <3> QED
      BY <2>2, <3>3 DEF Flat!Next
  <2>4. CASE ~Hit(a)
    <3>1. ASSUME NEW b \in Used, b # a
          PROVE  View(b)' = View(b)
      <4>1. b \in Addresses /\ offset_of(b) \in Offsets
        BY UsedAddresses, Fields
      <4>2. line_addr(b) = line_addr(a) => offset_of(b) # o
        BY <1>1, <3>1, <4>1, Fields, LinesDiffer
      <4> QED
        BY <1>2, <2>2, <4>1, <4>2 DEF View, Cached
    <3>2. View(a)' = value
      BY <1>1, <1>2, <2>2, <2>4
    <3>3. Flat!Touch({a})
      BY <2>1, <2>4, <3>1, TouchIs
    <3> QED
      BY <2>1, <2>2, <2>4, <3>2, <3>3, WriteTouches
  <2> QED
    BY <2>3, <2>4
<1> QED
  BY <1>3, <1>4

LEMMA NextFlat ==
  ASSUME LinesOK, Next
  PROVE  LinesOK' /\ Flat!Next
<1>1. ASSUME NEW a \in Used, ReadHit(a)
      PROVE  LinesOK' /\ Flat!Next
  <2>1. lines_' = lines_ /\ storage_' = storage_ /\ bypassed' = bypassed
    BY <1>1 DEF ReadHit, HitAccess
  <2>2. LinesOK'
    BY <2>1 DEF LinesOK, LinesAreBacked, CleanLinesMatch, home
  <2>3. \A b \in Addresses : View(b)' = View(b)
    BY <2>1 DEF View, Cached, Hit
  <2>4. reply' = Reply("read", a, View(a)')
    BY <1>1, <2>1 DEF ReadHit, View, Cached, Hit
  <2> QED
    BY <2>1, <2>2, <2>3, <2>4, SameViewsTouch, ReadTouches
<1>2. ASSUME NEW a \in Used, ReadMiss(a)
      PROVE  LinesOK' /\ Flat!Next
  BY <1>2, UsedAddresses, ReadMissReplaces, ReplaceKeeps, ReplaceTouches, ReadTouches
<1>3. ASSUME NEW a \in Used, AccessThrows(a)
      PROVE  LinesOK' /\ Flat!Next
  <2>1. reply' = Thrown
    BY <1>3 DEF AccessThrows
  <2> QED
    BY <1>3, <2>1, UsedAddresses, ThrowReplaces, ReplaceKeeps, ReplaceTouches, FailTouches
<1>4. ASSUME NEW a \in Used, NEW value \in Values, WriteHit(a, value)
      PROVE  LinesOK' /\ Flat!Next
  <2>1. bypassed' = bypassed /\ reply' = Reply("written", a, value)
    BY <1>4 DEF WriteHit, HitAccess
  <2>2. LinesOK' /\ View(a)' = value /\ \A b \in Addresses : b # a => View(b)' = View(b)
    BY <1>4, UsedAddresses, WriteHitKeeps
  <2>3. Flat!Touch({a})
    BY <2>1, <2>2, UsedAddresses, TouchIs
  <2> QED
    BY <2>1, <2>2, <2>3, WriteTouches
<1>5. ASSUME NEW a \in Used, NEW value \in Values, WriteMiss(a, value)
      PROVE  LinesOK' /\ Flat!Next
  <2>1. reply' = Reply("written", a, value)
    BY <1>5 DEF WriteMiss
  <2>2. Replaces(a, {offset_of(a)}) /\ View(a)' = value
    BY <1>5, UsedAddresses, WriteMissReplaces
  <2>3. Flat!Touch({a})
    BY <2>2, UsedAddresses, ReplaceTouches
  <2> QED
    BY <2>1, <2>2, <2>3, UsedAddresses, ReplaceKeeps, WriteTouches
<1>6. ASSUME NEW oom \in BOOLEAN, Flush(oom)
      PROVE  LinesOK' /\ Flat!Next
  <2>1. reply' = Done /\ bypassed' \subseteq bypassed
    BY <1>6, FlushStores
  <2>2. LinesOK' /\ Flat!Touch({})
    BY <1>6, <2>1, FlushKeeps, SameViewsTouch
  <2>3. Flat!Other
    BY <2>1, <2>2 DEF Flat!Other, Flat!Done, Flat!Reply, Done, Reply
  <2> QED
    BY <2>2, <2>3 DEF Flat!Next
<1> QED
  BY <1>1, <1>2, <1>3, <1>4, <1>5, <1>6, DirectRead, DirectWrite DEF Next

LEMMA StutterLines ==
  ASSUME LinesOK, UNCHANGED vars
  PROVE  LinesOK' /\ UNCHANGED Flat!vars
<1>1. lines_' = lines_ /\ storage_' = storage_ /\ bypassed' = bypassed /\ reply' = reply
  BY DEF vars
<1>2. LinesOK'
  BY <1>1 DEF LinesOK, LinesAreBacked, CleanLinesMatch, home
<1>3. \A b \in Used : View(b)' = View(b)
  BY <1>1 DEF View, Cached, Hit
<1> QED
  BY <1>1, <1>2, <1>3 DEF Flat!vars

LEMMA InitLines == Init => LinesOK /\ Flat!Init
<1> SUFFICES ASSUME Init
             PROVE  LinesOK /\ Flat!Init
  OBVIOUS
<1> DEFINE line == [valid |-> FALSE, dirty |-> FALSE, tag |-> 0, data |-> ZeroBlock]
<1>1. lines_ = [i \in Indices |-> line] /\ storage_ = <<>> /\ bypassed = {} /\ reply = Done
  BY DEF Init
<1>2. line \in CacheLine
  BY Zero, ZeroBlockType DEF CacheLine
<1> HIDE DEF line
<1>3. \A i \in Indices : lines_[i] = line
  BY <1>1
<1>4. ~line.valid
  BY DEF line
<1>5. DOMAIN storage_ = {}
  BY <1>1
<1>6. LinesOK
  BY <1>1, <1>2, <1>3, <1>4, <1>5 DEF LinesOK, StorageOK, LinesAreBacked, CleanLinesMatch
<1>7. ASSUME NEW b \in Used
      PROVE  View(b) = 0
  <2>1. index_of(b) \in Indices /\ offset_of(b) \in Offsets
    BY UsedAddresses, Fields
  <2>2. ~Hit(b)
    BY <1>3, <1>4, <2>1 DEF Hit
  <2> QED
    BY <1>5, <2>1, <2>2 DEF View, Cached, BlockAt, ZeroBlock
<1>8. Flat!Init
  BY <1>1, <1>7 DEF Flat!Init, Flat!Done, Flat!Reply, Done, Reply
<1> QED
  BY <1>6, <1>8

-----------------------------------------------------------------------------
(* The counters.                                                           *)

\* A step counts one access on one side, or none.
LEMMA Counts ==
  ASSUME [Next]_vars
  PROVE  \/ hits_' = Bump(hits_) /\ misses_' = misses_ /\ calls' = Bump(calls)
         \/ hits_' = hits_ /\ misses_' = Bump(misses_) /\ calls' = Bump(calls)
         \/ UNCHANGED <<hits_, misses_, calls>>
         \/ \E a \in Used : AccessThrows(a) /\ EvictInserts(index_of(a))
<1>1. CASE UNCHANGED vars
  BY <1>1 DEF vars
<1>2. ASSUME NEW a \in Used, ReadHit(a) \/ \E v \in Values : WriteHit(a, v)
      PROVE  hits_' = Bump(hits_) /\ misses_' = misses_ /\ calls' = Bump(calls)
  BY <1>2 DEF ReadHit, WriteHit, HitAccess
<1>3. ASSUME NEW a \in Used, ReadMiss(a) \/ \E v \in Values : WriteMiss(a, v)
      PROVE  hits_' = hits_ /\ misses_' = Bump(misses_) /\ calls' = Bump(calls)
  BY <1>3 DEF ReadMiss, WriteMiss, MissAccess, Misses
<1>4. ASSUME NEW a \in Used, AccessThrows(a), ~EvictInserts(index_of(a))
      PROVE  hits_' = hits_ /\ misses_' = Bump(misses_) /\ calls' = Bump(calls)
  BY <1>4 DEF AccessThrows, Misses
<1>5. ASSUME NEW oom \in BOOLEAN,
             \/ Flush(oom)
             \/ \E a \in Used : ReadByte(a, oom) \/ \E v \in Values : WriteByte(a, v, oom)
      PROVE  UNCHANGED <<hits_, misses_, calls>>
  BY <1>5 DEF Flush, ReadByte, WriteByte, DirectCall
<1> QED
  BY <1>1, <1>2, <1>3, <1>4, <1>5 DEF Next

LEMMA NextStats ==
  ASSUME LinesOK, StatsOK, [Next]_vars
  PROVE  StatsOK'
<1>1. /\ CounterMod \in Nat \ {0}
      /\ hits_ \in 0 .. CounterMod - 1 /\ misses_ \in 0 .. CounterMod - 1
      /\ calls \in 0 .. CounterMod - 1 /\ (hits_ + misses_) % CounterMod = calls
  BY CacheAssumption DEF StatsOK, StatsCountAccesses
<1>2. ASSUME NEW a \in Used
      PROVE  ~EvictInserts(index_of(a))
  <2>1. index_of(a) \in Indices
    BY UsedAddresses, Fields
  <2> QED
    BY <2>1 DEF EvictInserts, NeedsStore, Inserts, LinesOK, LinesAreBacked
<1>3. CASE hits_' = Bump(hits_) /\ misses_' = misses_ /\ calls' = Bump(calls)
  <2>1. Bump(hits_) \in 0 .. CounterMod - 1 /\ Bump(calls) \in 0 .. CounterMod - 1
        /\ (Bump(hits_) + misses_) % CounterMod = Bump(calls)
    BY <1>1, BumpSum DEF Bump
  <2> QED
    BY <1>1, <1>3, <2>1 DEF StatsOK, StatsCountAccesses
<1>4. CASE hits_' = hits_ /\ misses_' = Bump(misses_) /\ calls' = Bump(calls)
  <2>1. Bump(misses_) \in 0 .. CounterMod - 1 /\ Bump(calls) \in 0 .. CounterMod - 1
        /\ (hits_ + Bump(misses_)) % CounterMod = Bump(calls)
    BY <1>1, BumpSum DEF Bump
  <2> QED
    BY <1>1, <1>4, <2>1 DEF StatsOK, StatsCountAccesses
<1>5. CASE UNCHANGED <<hits_, misses_, calls>>
  BY <1>5 DEF StatsOK, StatsCountAccesses
<1> QED
  BY <1>2, <1>3, <1>4, <1>5, Counts

-----------------------------------------------------------------------------
(* The theorems.                                                           *)

Inv == LinesOK /\ StatsOK

LEMMA InitInv == Init => Inv
<1> SUFFICES ASSUME Init
             PROVE  StatsOK
  BY InitLines DEF Inv
<1>1. hits_ = 0 /\ misses_ = 0 /\ calls = 0 /\ CounterMod \in Nat \ {0}
  BY CacheAssumption DEF Init
<1> QED
  BY <1>1 DEF StatsOK, StatsCountAccesses

LEMMA NextInv ==
  ASSUME Inv, [Next]_vars
  PROVE  Inv'
BY NextFlat, StutterLines, NextStats DEF Inv

LEMMA SpecInv == Spec => []Inv
<1>1. Inv /\ [Next]_vars => Inv'
  BY NextInv
<1> QED
  BY <1>1, InitInv, PTL DEF Spec

\* Type correctness of the cache and its memory.
THEOREM TypeCorrect == Spec => []TypeOK
<1>1. Inv => TypeOK
  BY InvParts DEF Inv
<1> QED
  BY <1>1, SpecInv, PTL

\* Every valid line can be written back without an insertion.
THEOREM LinesStayBacked == Spec => []LinesAreBacked
BY SpecInv, PTL DEF Inv, LinesOK

\* A clean line may be dropped.
THEOREM CleanLinesAlwaysMatch == Spec => []CleanLinesMatch
BY SpecInv, PTL DEF Inv, LinesOK

\* The statistics count each access once, for counters of any width.
THEOREM StatsAreRight == Spec => []StatsCountAccesses
BY SpecInv, PTL DEF Inv, StatsOK

\* After flush the memory holds what a reader of the cache sees.
THEOREM FlushIsComplete == Spec => FlushWritesBack
<1>1. Inv /\ [Next]_vars =>
        [(\E oom \in BOOLEAN : Flush(oom)) =>
           \A a \in Addresses :
             line_addr(a) \in bypassed'
               \/ BlockAt(storage_', line_addr(a))[offset_of(a)] = View(a)]_vars
  BY FlushKeeps DEF Inv
<1> QED
  BY <1>1, SpecInv, PTL DEF Spec, FlushWritesBack

\* The cache in front of its memory implements the memory alone.
THEOREM CacheImplementsFlatMemory == Spec => ImplementsFlatMemory
<1>1. Inv /\ [Next]_vars => [Flat!Next]_(Flat!vars)
  BY NextFlat, StutterLines DEF Inv
<1>2. Init => Flat!Init
  BY InitLines
<1> QED
  BY <1>1, <1>2, SpecInv, PTL DEF Spec, ImplementsFlatMemory, Flat!Spec
=============================================================================
