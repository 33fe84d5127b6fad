--------------------------- MODULE DirectMapCache ---------------------------
(***************************************************************************)
(* DirectMapCache over BackingMemory (examples/cache_example.cpp): a       *)
(* direct-mapped write-back, write-allocate cache in front of a sparse     *)
(* map from line addresses to blocks.                                      *)
(*                                                                         *)
(* One thread makes every call, so a call is one action.  The only thing   *)
(* that can fail is an insertion into storage_: a call whose line_at has   *)
(* to insert may throw std::bad_alloc and leave what it had done so far.   *)
(* Of flush and the direct calls, oom says that an insertion fails.        *)
(***************************************************************************)
EXTENDS CacheAddress

CONSTANTS
  Values,      \* values of a std::byte, 0 among them
  Used,        \* the addresses that clients use
  CounterMod   \* number of values of hits_ and misses_ (2^32)

ASSUME CacheAssumption ==
  0 \in Values /\ Used \subseteq Addresses /\ CounterMod \in Nat \ {0}

Blocks == [Offsets -> Values]
ZeroBlock == [o \in Offsets |-> 0]

VARIABLES
  lines_,   \* the cache lines
  storage_, \* BackingMemory's map, a function on the line addresses it holds
  hits_, misses_,
  reply,    \* history: the last call and what it returned
  calls,    \* history: completed or failed accesses, modulo CounterMod
  bypassed  \* history: addresses of cached lines whose memory was written directly

vars == <<lines_, storage_, hits_, misses_, reply, calls, bypassed>>

\* An invalid line is never dirty.
CacheLine ==
  {line \in [valid : BOOLEAN, dirty : BOOLEAN, tag : Tags, data : Blocks] :
     line.dirty => line.valid}

Reply(op, address, value) == [op |-> op, address |-> address, value |-> value]
Done == Reply("done", 0, 0)
Thrown == Reply("bad_alloc", 0, 0)

Bump(counter) == (counter + 1) % CounterMod

-----------------------------------------------------------------------------
(* BackingMemory.                                                          *)

\* line_at reads a missing block as zeros ...
BlockAt(storage, addr) == IF addr \in DOMAIN storage THEN storage[addr] ELSE ZeroBlock

\* ... and inserts it; store_line then overwrites it.
WithBlock(storage, addr, block) ==
  [a \in DOMAIN storage \cup {addr} |-> IF a = addr THEN block ELSE storage[a]]

Inserts(storage, addr) == addr \notin DOMAIN storage

-----------------------------------------------------------------------------
(* Lines.                                                                  *)

\* Faulty variant: the index is left out.
home_unindexed(i) == serialize_address(lines_[i].tag, 0, 0)

\* The address a line is written back to.
home(i) == serialize_address(lines_[i].tag, i, 0)

Hit(address) ==
  LET line == lines_[index_of(address)]
  IN  line.valid /\ line.tag = tag_of(address)

NeedsStore(i) == lines_[i].valid /\ lines_[i].dirty

EvictInserts(i) == NeedsStore(i) /\ Inserts(storage_, home(i))

\* Faulty variant: a dirty line is dropped.
EvictedStorage_dropped(i) == storage_
\* Faulty variant: an evicted line stays dirty.
EvictedLine_dirty(i) == [lines_[i] EXCEPT !.valid = FALSE]

\* storage_ and the line after evict, which a miss calls for a valid line.
EvictedStorage(i) ==
  IF NeedsStore(i) THEN WithBlock(storage_, home(i), lines_[i].data) ELSE storage_

EvictedLine(i) ==
  IF lines_[i].valid THEN [lines_[i] EXCEPT !.valid = FALSE, !.dirty = FALSE] ELSE lines_[i]

-----------------------------------------------------------------------------
Init ==
  /\ lines_ = [i \in Indices |->
                 [valid |-> FALSE, dirty |-> FALSE, tag |-> 0, data |-> ZeroBlock]]
  /\ storage_ = <<>>
  /\ hits_ = 0 /\ misses_ = 0
  /\ reply = Done
  /\ calls = 0
  /\ bypassed = {}

HitAccess ==
  /\ hits_' = Bump(hits_)
  /\ calls' = Bump(calls)
  /\ UNCHANGED <<storage_, misses_, bypassed>>

ReadHit(address) ==
  /\ Hit(address)
  /\ HitAccess
  /\ reply' = Reply("read", address, lines_[index_of(address)].data[offset_of(address)])
  /\ UNCHANGED lines_

\* Faulty variant: the line is not marked dirty.
WriteHit_clean(address, value) ==
  /\ Hit(address)
  /\ HitAccess
  /\ lines_' = [lines_ EXCEPT ![index_of(address)].data[offset_of(address)] = value]
  /\ reply' = Reply("written", address, value)

WriteHit(address, value) ==
  /\ Hit(address)
  /\ HitAccess
  /\ lines_' = [lines_ EXCEPT ![index_of(address)].data[offset_of(address)] = value,
                              ![index_of(address)].dirty = TRUE]
  /\ reply' = Reply("written", address, value)

\* evict, then fetch_line: the block that the line at index i receives.
Fetched(address, i) == BlockAt(EvictedStorage(i), line_addr(address))

\* Faulty variants: the fetch inserts nothing; the miss is not counted.
FetchedStorage_unbacked(address, i) == EvictedStorage(i)
Misses_uncounted == misses_

\* storage_ after the fetch, which inserts a missing block.
FetchedStorage(address, i) ==
  WithBlock(EvictedStorage(i), line_addr(address), Fetched(address, i))

Misses == Bump(misses_)

\* The line at index i leaves the cache, written back or not.
Evicts(i) == bypassed' = IF lines_[i].valid THEN bypassed \ {home(i)} ELSE bypassed

MissAccess(address, i) ==
  /\ storage_' = FetchedStorage(address, i)
  /\ misses_' = Misses
  /\ calls' = Bump(calls)
  /\ Evicts(i)
  /\ UNCHANGED hits_

ReadMiss(address) ==
  LET i == index_of(address)
      block == Fetched(address, i)
  IN  /\ ~Hit(address)
      /\ MissAccess(address, i)
      /\ lines_' = [lines_ EXCEPT ![i] = [valid |-> TRUE, dirty |-> FALSE,
                                          tag |-> tag_of(address), data |-> block]]
      /\ reply' = Reply("read", address, block[offset_of(address)])

WriteMiss(address, value) ==
  LET i == index_of(address)
      block == [Fetched(address, i) EXCEPT ![offset_of(address)] = value]
  IN  /\ ~Hit(address)
      /\ MissAccess(address, i)
      /\ lines_' = [lines_ EXCEPT ![i] = [valid |-> TRUE, dirty |-> TRUE,
                                          tag |-> tag_of(address), data |-> block]]
      /\ reply' = Reply("written", address, value)

(***************************************************************************)
(* A miss that throws.  If the write-back throws nothing has happened; if  *)
(* the fetch does, the old line is gone and the miss has been counted.     *)
(***************************************************************************)
AccessThrows(address) ==
  LET i == index_of(address)
      early == EvictInserts(i)
  IN  /\ ~Hit(address)
      /\ early \/ Inserts(EvictedStorage(i), line_addr(address))
      /\ lines_' = IF early THEN lines_ ELSE [lines_ EXCEPT ![i] = EvictedLine(i)]
      /\ storage_' = IF early THEN storage_ ELSE EvictedStorage(i)
      /\ misses_' = IF early THEN misses_ ELSE Misses
      /\ IF early THEN UNCHANGED bypassed ELSE Evicts(i)
      /\ calls' = Bump(calls)
      /\ reply' = Thrown
      /\ UNCHANGED hits_

\* The lines are stored in order; one whose insertion throws ends the loop.
Flush(oom) ==
  LET failing == {i \in Indices : oom /\ EvictInserts(i)}
      stored == {i \in Indices : NeedsStore(i) /\ \A j \in failing : i < j}
  IN  /\ oom => failing # {}
      /\ reply' = IF oom THEN Thrown ELSE Done
      /\ UNCHANGED <<hits_, misses_, calls>>
      /\ lines_' = [i \in Indices |->
                      IF i \in stored THEN [lines_[i] EXCEPT !.dirty = FALSE] ELSE lines_[i]]
      /\ storage_' = [a \in DOMAIN storage_ \cup {home(i) : i \in stored} |->
                        IF \E i \in stored : home(i) = a
                          THEN lines_[CHOOSE i \in stored : home(i) = a].data
                          ELSE storage_[a]]
      /\ bypassed' = bypassed \ {home(i) : i \in stored}

-----------------------------------------------------------------------------
(* BackingMemory used directly.  main does so only before the first        *)
(* access, but nothing stops a client from doing it under a cached line.   *)

Cached(address) == Hit(address)

\* The reply of a direct call that went around a cached line.
Raw == Reply("raw", 0, 0)

DirectCall(op, address, value, block, oom) ==
  LET addr == line_addr(address)
  IN  /\ oom => Inserts(storage_, addr)
      /\ storage_' = IF oom THEN storage_ ELSE WithBlock(storage_, addr, block)
      /\ reply' = IF oom THEN Thrown
                  ELSE IF Cached(address) THEN Raw ELSE Reply(op, address, value)
      /\ UNCHANGED <<lines_, hits_, misses_, calls>>

WriteByte(address, value, oom) ==
  LET block == BlockAt(storage_, line_addr(address))
  IN  /\ DirectCall("written", address, value, [block EXCEPT ![offset_of(address)] = value], oom)
      /\ bypassed' = IF Cached(address) THEN bypassed \cup {line_addr(address)} ELSE bypassed

ReadByte(address, oom) ==
  LET block == BlockAt(storage_, line_addr(address))
  IN  /\ DirectCall("read", address, block[offset_of(address)], block, oom)
      /\ UNCHANGED bypassed

Next ==
  \/ \E a \in Used :
       \/ ReadHit(a) \/ ReadMiss(a) \/ AccessThrows(a)
       \/ \E v \in Values : WriteHit(a, v) \/ WriteMiss(a, v)
  \/ \E oom \in BOOLEAN :
       \/ Flush(oom)
       \/ \E a \in Used : ReadByte(a, oom) \/ \E v \in Values : WriteByte(a, v, oom)

Spec == Init /\ [][Next]_vars

-----------------------------------------------------------------------------
TypeOK ==
  /\ lines_ \in [Indices -> CacheLine]
  /\ DOMAIN storage_ \subseteq {line_addr(a) : a \in Addresses}
  /\ \A a \in DOMAIN storage_ : storage_[a] \in Blocks
  /\ hits_ \in 0 .. CounterMod - 1
  /\ misses_ \in 0 .. CounterMod - 1
  /\ calls \in 0 .. CounterMod - 1
  /\ bypassed \subseteq {home(i) : i \in {j \in Indices : lines_[j].valid}}

(***************************************************************************)
(* A line that is not dirty equals its block in memory, if nobody wrote    *)
(* that block directly since the fetch: dropping it loses nothing.         *)
(***************************************************************************)
CleanLinesMatch ==
  \A i \in Indices :
    lines_[i].valid /\ ~lines_[i].dirty /\ home(i) \notin bypassed
      => lines_[i].data = BlockAt(storage_, home(i))

(***************************************************************************)
(* Every valid line has its block in storage_ already, so writing it back  *)
(* inserts nothing: evict and flush cannot run out of memory, and a write  *)
(* that was acknowledged is never lost to a failed allocation.             *)
(***************************************************************************)
LinesAreBacked == \A i \in Indices : lines_[i].valid => home(i) \in DOMAIN storage_

\* Each access is counted once, as a hit or as a miss, also if it throws.
StatsCountAccesses == (hits_ + misses_) % CounterMod = calls

\* The byte that the next read of an address returns.
View(a) ==
  IF Cached(a) THEN lines_[index_of(a)].data[offset_of(a)]
  ELSE BlockAt(storage_, line_addr(a))[offset_of(a)]

(***************************************************************************)
(* flush, even when memory is exhausted, leaves in BackingMemory exactly   *)
(* what a reader of the cache sees, a clean line whose memory was written  *)
(* directly aside: that one the flush passes over.                         *)
(***************************************************************************)
FlushWritesBack ==
  [][(\E oom \in BOOLEAN : Flush(oom)) =>
       \A a \in Addresses :
         line_addr(a) \in bypassed'
           \/ BlockAt(storage_', line_addr(a))[offset_of(a)] = View(a)]_vars

Flat == INSTANCE FlatMemory WITH
          Addresses <- Used,
          mem <- [a \in Used |-> View(a)],
          stale <- {a \in Used : line_addr(a) \in bypassed}

(***************************************************************************)
(* The cache in front of its memory behaves like the memory alone, also    *)
(* with allocations that fail and with direct calls on uncached addresses; *)
(* a direct write under a cached line spoils no other line, and that one   *)
(* only until it is next evicted or written back.                          *)
(***************************************************************************)
ImplementsFlatMemory == Flat!Spec
=============================================================================
