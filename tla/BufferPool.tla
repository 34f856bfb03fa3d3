------------------------------ MODULE BufferPool ------------------------------
(***************************************************************************)
(* The GPU buffer pool of the speech engines (src/gpu/buffer-pool.js):     *)
(* allocations draw from the free list while an arena is open, and a       *)
(* closed arena puts back what was not pinned.  The operators take and     *)
(* return the state of a pool.  Buffers of one size class are modelled; a  *)
(* buffer nobody refers to any more may stand for a new one.               *)
(***************************************************************************)
EXTENDS Naturals, Sequences, SequencesExt, FiniteSets

Buffers == Nat \ {0}

\* last: the buffer the latest allocation returned, 0 before.
Pool == [free : Seq(Buffers), arenas : Seq(Seq(Buffers)), last : Nat]

EmptyPool == [free |-> <<>>, arenas |-> <<>>, last |-> 0]

InArenas(p) == UNION {ToSet(p.arenas[i]) : i \in DOMAIN p.arenas}

\* device.createBuffer: a buffer that is in nobody's hands.
NewBuffer(used) == Min((1 .. Cardinality(used) + 1) \ used)

CreateBuffer(p, held) ==
  [p EXCEPT !.last = NewBuffer(held \union ToSet(p.free) \union InArenas(p))]

Get(p, held) ==
  IF p.free = <<>> THEN CreateBuffer(p, held)
  ELSE [p EXCEPT !.free = Front(@), !.last = Last(p.free)]

Put(p, b) == [p EXCEPT !.free = Append(@, b)]

PushArena(p) == [p EXCEPT !.arenas = Append(@, <<>>)]

\* Tracked by the newest arena; without one the pool is left alone.
AllocRaw(p, held) ==
  IF p.arenas = <<>> THEN CreateBuffer(p, held)
  ELSE LET q == Get(p, held)
       IN  [q EXCEPT !.arenas[Len(q.arenas)] = Append(@, q.last)]

\* Without a handle: the newest arena.
PopArena(p) == [p EXCEPT !.arenas = Front(@), !.free = @ \o Last(p.arenas)]

\* Mutant: the arena keeps the entry.
PinInPlace(p, b) == p

\* The buffer's first entry in the newest arena that has one is spliced out: it belongs to whoever
\* pinned it.
Pin(p, b) ==
  LET having == {i \in DOMAIN p.arenas : b \in ToSet(p.arenas[i])}
      newest == Max(having)
      entry == Min({j \in DOMAIN p.arenas[newest] : p.arenas[newest][j] = b})
  IN  IF having = {} THEN p
      ELSE [p EXCEPT !.arenas[newest] = SubSeq(@, 1, entry - 1) \o SubSeq(@, entry + 1, Len(@))]

\* Destroy pooled buffers, the latest first, down to the budget.
Trim(p, budget) ==
  IF Len(p.free) <= budget THEN p ELSE [p EXCEPT !.free = SubSeq(@, 1, budget)]
==============================================================================
