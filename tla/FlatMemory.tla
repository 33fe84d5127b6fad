----------------------------- MODULE FlatMemory -----------------------------
(***************************************************************************)
(* What a client of a write-back cache may count on: one byte per address. *)
(* A read returns the byte last written, a call that throws changed no     *)
(* byte, and everything else the cache does is invisible.  Bytes that a    *)
(* client has written around the cache are stale: those may still change   *)
(* by themselves, once, as they cease to be stale.                         *)
(***************************************************************************)
EXTENDS Integers

CONSTANTS Addresses, Values

VARIABLES
  mem,   \* the byte at each address, as a reader of the cache sees it
  stale, \* addresses of which the cache and the memory hold different bytes
  reply  \* the last call and its result

vars == <<mem, stale, reply>>

Reply(op, a, v) == [op |-> op, address |-> a, value |-> v]
Done == Reply("done", 0, 0)
Thrown == Reply("bad_alloc", 0, 0)
Raw == Reply("raw", 0, 0)

Init ==
  /\ mem = [a \in Addresses |-> 0]
  /\ stale = {}
  /\ reply = Done

\* A call through the cache that touches only the byte at one of the targets.
Touch(targets) ==
  /\ \A a \in Addresses : mem'[a] = mem[a] \/ a \in targets \/ a \in stale \ stale'
  /\ stale' = {} \/ stale' \subseteq stale

Read(a) == reply'.address = a /\ reply' = Reply("read", a, mem'[a]) /\ Touch({})

Write(a, v) == reply'.address = a /\ reply' = Reply("written", a, v) /\ mem'[a] = v /\ Touch({a})

Fail == reply' = Thrown /\ Touch({})

\* Any other call that returns: nothing a reader can tell.
Other == reply' = Done /\ Touch({})

\* A call around the cache at a cached address: no reader of the cache sees it yet.
Around ==
  /\ reply' = Raw
  /\ mem' = mem
  /\ stale \subseteq stale'

Next ==
  \/ Fail \/ Other \/ Around
  \/ \E a \in Addresses : Read(a) \/ \E v \in Values : Write(a, v)

Spec == Init /\ [][Next]_vars
=============================================================================
