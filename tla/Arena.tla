------------------------------- MODULE Arena -------------------------------
(***************************************************************************)
(* The lock-free Arena of util/arena.cc (src/Test/Test.cpp, lines 61-268): *)
(* threads allocate concurrently from the head block of the normal list    *)
(* by a CAS on its rem counter, install a new block by a CAS on blocks_,   *)
(* and push one dedicated block per large request on large_ by a CAS      *)
(* retry loop.  AllocateFinalize then carves the bytes from the block's    *)
(* upper cursor (sizes already a multiple of align_) or its lower cursor   *)
(* (all others) with a CAS loop on that cursor.                            *)
(*                                                                         *)
(* Addresses are (block, offset) pairs; a block's base is page-aligned, so *)
(* an offset's alignment is the address's.  Each atomic load, store or     *)
(* CAS of the code is one step, except that a load of blocks_ and the load *)
(* of that block's rem are one step (blocks are never freed while the      *)
(* arena lives, so a later rem is as good as an earlier one).              *)
(*                                                                         *)
(* NewBlock ends without a return statement ("//return nb;"): the value    *)
(* its caller receives is whatever the return register holds.  The model  *)
(* lets it be the block just built ("nb") or a pointer to memory that is   *)
(* not a Block ("stray", read as zero-filled: rem, cursors and size 0),    *)
(* as NewBlockResults allows.                                              *)
(***************************************************************************)
EXTENDS Integers, Sequences, FiniteSets, TLC

CONSTANTS
    Threads,          \* threads allocating from one Arena
    Reqs,             \* Reqs[t]: t's requests, [fn |-> "Allocate" | "AllocateAligned", n]
    BlockSize,        \* BLOCK_SIZE
    PageSize,         \* page_size_
    Align,            \* align_
    BlockHdr,         \* sizeof(Block), counted by memory_usage_
    MaxBlocks,        \* bound on the blocks NewBlock may build
    NewBlockResults   \* what NewBlock's caller may receive: SUBSET {"nb", "stray"}

ASSUME /\ PageSize \in Nat \ {0} /\ Align \in Nat \ {0}
       /\ BlockSize % PageSize = 0
       /\ NewBlockResults \subseteq {"nb", "stray"} /\ NewBlockResults # {}

NULL == 0
Threshold == BlockSize \div 4                       \* BLOCK_SIZE >> 2
RoundUp(x, y) == ((x + y - 1) \div y) * y            \* (x + y - 1) & ~(y - 1)
Ids == 1..MaxBlocks

VARIABLES
    blocks_,        \* head of the normal block list
    large_,         \* head of the large block list
    blk,            \* id -> [size, rem, lower, upper, next, owned, live]
    nextBlk,        \* next fresh block id
    memory_usage_,
    th,             \* th[t]: pc, request index and the locals of Allocate*
    granted         \* history: [t, i, fn, blk, lo, hi] of every returned range

vars == <<blocks_, large_, blk, nextBlk, memory_usage_, th, granted>>

Req(t) == Reqs[t][th[t].idx]
HasReq(t) == th[t].idx <= Len(Reqs[t])
Idle == [pc |-> "idle", idx |-> 1, n |-> 0, b |-> NULL, rem |-> 0, nb |-> NULL,
         upper |-> FALSE, expected |-> 0]

\* A block fresh from NewBlock(bytes): page-rounded, both cursors at its ends.
Fresh(bytes) ==
    LET sz == RoundUp(bytes, PageSize)
    IN [size |-> sz, rem |-> sz, lower |-> 0, upper |-> sz, next |-> NULL,
        owned |-> TRUE, live |-> TRUE]

\* What a stray pointer returned by NewBlock reads as.
Stray == [size |-> 0, rem |-> 0, lower |-> 0, upper |-> 0, next |-> NULL,
          owned |-> FALSE, live |-> TRUE]

\* NewBlock(bytes) builds block nextBlk; its caller receives id r, which
\* is nextBlk itself or, for a stray result, a further id standing for the
\* memory the pointer designates.
NewBlock(bytes, r) ==
    \E res \in NewBlockResults :
       LET stray == res = "stray" IN
       /\ nextBlk + (IF stray THEN 1 ELSE 0) <= MaxBlocks
       /\ r = IF stray THEN nextBlk + 1 ELSE nextBlk
       /\ blk' = (nextBlk :> Fresh(bytes)) @@ (r :> IF stray THEN Stray ELSE Fresh(bytes)) @@ blk
       /\ nextBlk' = r + 1

Set(t, r) == th' = [th EXCEPT ![t] = r]

(* Arena(): memory_usage_ = sizeof(Block); blocks_ = NewBlock(1 << 16);   *)
(* large_ = NULL; memory_usage_ += sizeof(Block).                          *)
Init ==
    /\ \E res \in NewBlockResults :
          LET r == IF res = "stray" THEN 2 ELSE 1 IN
          /\ blk = (1 :> Fresh(BlockSize)) @@ (r :> IF res = "stray" THEN Stray ELSE Fresh(BlockSize))
          /\ nextBlk = r + 1
          /\ blocks_ = r
    /\ large_ = NULL
    /\ memory_usage_ = 2 * BlockHdr
    /\ th = [t \in Threads |-> Idle]
    /\ granted = {}

-----------------------------------------------------------------------------
(* Allocate / AllocateAligned entry: AllocateAligned rounds the size up to *)
(* align_; a size above BLOCK_SIZE >> 2 goes to AllocateLarge.             *)
\* Mutant: AllocateAligned passes the size on without rounding it up.
StartNoPad(t) ==
    /\ th[t].pc = "idle" /\ HasReq(t)
    /\ LET n == Req(t).n
       IN Set(t, [th[t] EXCEPT !.n = n,
                               !.pc = IF n > Threshold THEN "large_new" ELSE "load"])
    /\ UNCHANGED <<blocks_, large_, blk, nextBlk, memory_usage_, granted>>

Start(t) ==
    /\ th[t].pc = "idle" /\ HasReq(t)
    /\ LET n == IF Req(t).fn = "AllocateAligned" THEN RoundUp(Req(t).n, Align)
                ELSE Req(t).n
       IN Set(t, [th[t] EXCEPT !.n = n,
                               !.pc = IF n > Threshold THEN "large_new" ELSE "load"])
    /\ UNCHANGED <<blocks_, large_, blk, nextBlk, memory_usage_, granted>>

(* Allocate: b = load_ptr_acquire(&blocks_); rem = load_32_acquire(&b->rem) *)
Load(t) ==
    /\ th[t].pc = "load"
    /\ Set(t, [th[t] EXCEPT !.b = blocks_, !.rem = blk[blocks_].rem, !.pc = "cas"])
    /\ UNCHANGED <<blocks_, large_, blk, nextBlk, memory_usage_, granted>>

(* while (rem >= bytes): CAS b->rem from rem to rem - bytes; on success    *)
(* AllocateFinalize(b, bytes), else rem = witness.  rem < bytes: NewBlock. *)
\* Mutant: a failed CAS retries with the same stale rem.
CasRemNoWitness(t) ==
    /\ th[t].pc = "cas"
    /\ LET b == th[t].b IN
       \/ /\ th[t].rem >= th[t].n /\ blk[b].rem = th[t].rem
          /\ blk' = [blk EXCEPT ![b].rem = th[t].rem - th[t].n]
          /\ Set(t, [th[t] EXCEPT !.pc = "fin_load"])
       \/ /\ th[t].rem >= th[t].n /\ blk[b].rem # th[t].rem
          /\ UNCHANGED <<blk, th>>
       \/ /\ th[t].rem < th[t].n
          /\ Set(t, [th[t] EXCEPT !.pc = "newblock"]) /\ UNCHANGED blk
    /\ UNCHANGED <<blocks_, large_, nextBlk, memory_usage_, granted>>

\* Mutant: the room test is off by one (rem + 1 >= bytes).
CasRemOffByOne(t) ==
    /\ th[t].pc = "cas"
    /\ LET b == th[t].b IN
       \/ /\ th[t].rem + 1 >= th[t].n /\ blk[b].rem = th[t].rem
          /\ blk' = [blk EXCEPT ![b].rem = th[t].rem - th[t].n]
          /\ Set(t, [th[t] EXCEPT !.pc = "fin_load"])
       \/ /\ th[t].rem + 1 >= th[t].n /\ blk[b].rem # th[t].rem
          /\ Set(t, [th[t] EXCEPT !.rem = blk[b].rem]) /\ UNCHANGED blk
       \/ /\ th[t].rem + 1 < th[t].n
          /\ Set(t, [th[t] EXCEPT !.pc = "newblock"]) /\ UNCHANGED blk
    /\ UNCHANGED <<blocks_, large_, nextBlk, memory_usage_, granted>>

CasRem(t) ==
    /\ th[t].pc = "cas"
    /\ LET b == th[t].b IN
       \/ /\ th[t].rem >= th[t].n /\ blk[b].rem = th[t].rem
          /\ blk' = [blk EXCEPT ![b].rem = th[t].rem - th[t].n]
          /\ Set(t, [th[t] EXCEPT !.pc = "fin_load"])
       \/ /\ th[t].rem >= th[t].n /\ blk[b].rem # th[t].rem
          /\ Set(t, [th[t] EXCEPT !.rem = blk[b].rem]) /\ UNCHANGED blk
       \/ /\ th[t].rem < th[t].n
          /\ Set(t, [th[t] EXCEPT !.pc = "newblock"]) /\ UNCHANGED blk
    /\ UNCHANGED <<blocks_, large_, nextBlk, memory_usage_, granted>>

(* nb = NewBlock(BLOCK_SIZE) *)
NewNormal(t) ==
    /\ th[t].pc = "newblock"
    /\ \E r \in Ids : NewBlock(BlockSize, r) /\ Set(t, [th[t] EXCEPT !.nb = r, !.pc = "link"])
    /\ UNCHANGED <<blocks_, large_, memory_usage_, granted>>

(* nb->next = b; CAS blocks_ from b to nb: on success count the Block in   *)
(* memory_usage_, on failure delete nb (its view is unmapped).  Either way *)
(* the outer loop reloads blocks_.                                         *)
\* Mutant: the installed block is not counted in memory_usage_.
LinkNoCount(t) ==
    /\ th[t].pc = "link"
    /\ LET b == th[t].b
           nb == th[t].nb
       IN IF blocks_ = b
          THEN /\ blocks_' = nb
               /\ blk' = [blk EXCEPT ![nb].next = b]
               /\ UNCHANGED memory_usage_
          ELSE /\ blk' = [blk EXCEPT ![nb].next = b, ![nb].live = FALSE]
               /\ UNCHANGED <<blocks_, memory_usage_>>
    /\ Set(t, [th[t] EXCEPT !.pc = "load"])
    /\ UNCHANGED <<large_, nextBlk, granted>>

Link(t) ==
    /\ th[t].pc = "link"
    /\ LET b == th[t].b
           nb == th[t].nb
       IN IF blocks_ = b
          THEN /\ blocks_' = nb
               /\ blk' = [blk EXCEPT ![nb].next = b]
               /\ memory_usage_' = memory_usage_ + BlockHdr
          ELSE /\ blk' = [blk EXCEPT ![nb].next = b, ![nb].live = FALSE]
               /\ UNCHANGED <<blocks_, memory_usage_>>
    /\ Set(t, [th[t] EXCEPT !.pc = "load"])
    /\ UNCHANGED <<large_, nextBlk, granted>>

(* AllocateLarge: nb = NewBlock(bytes) *)
LargeNew(t) ==
    /\ th[t].pc = "large_new"
    /\ \E r \in Ids : NewBlock(th[t].n, r) /\ Set(t, [th[t] EXCEPT !.nb = r, !.pc = "large_load"])
    /\ UNCHANGED <<blocks_, large_, memory_usage_, granted>>

(* b = load_ptr_acquire(&large_); nb->next = b *)
LargeLoad(t) ==
    /\ th[t].pc = "large_load"
    /\ blk' = [blk EXCEPT ![th[t].nb].next = large_]
    /\ Set(t, [th[t] EXCEPT !.b = large_, !.pc = "large_cas"])
    /\ UNCHANGED <<blocks_, large_, nextBlk, memory_usage_, granted>>

(* while CAS large_ from b to nb fails: b = witness; nb->next = b.  Then   *)
(* count the Block and AllocateFinalize(nb, bytes).                        *)
\* Mutant: the push ignores the witness and overwrites large_.
LargeCasBlind(t) ==
    /\ th[t].pc = "large_cas"
    /\ large_' = th[t].nb
    /\ memory_usage_' = memory_usage_ + BlockHdr
    /\ Set(t, [th[t] EXCEPT !.b = th[t].nb, !.pc = "fin_load"])
    /\ UNCHANGED <<blocks_, blk, nextBlk, granted>>

LargeCas(t) ==
    /\ th[t].pc = "large_cas"
    /\ IF large_ = th[t].b
       THEN /\ large_' = th[t].nb
            /\ memory_usage_' = memory_usage_ + BlockHdr
            /\ Set(t, [th[t] EXCEPT !.b = th[t].nb, !.pc = "fin_load"])
            /\ UNCHANGED blk
       ELSE /\ blk' = [blk EXCEPT ![th[t].nb].next = large_]
            /\ Set(t, [th[t] EXCEPT !.b = large_])
            /\ UNCHANGED <<large_, memory_usage_>>
    /\ UNCHANGED <<blocks_, nextBlk, granted>>

(* AllocateFinalize: a size that is a multiple of align_ is taken from     *)
(* next_upper downwards, any other from next_lower upwards; load it.       *)
FinLoad(t) ==
    /\ th[t].pc = "fin_load"
    /\ LET up == th[t].n = RoundUp(th[t].n, Align)
           b == blk[th[t].b]
       IN Set(t, [th[t] EXCEPT !.upper = up, !.pc = "fin_cas",
                               !.expected = IF up THEN b.upper ELSE b.lower])
    /\ UNCHANGED <<blocks_, large_, blk, nextBlk, memory_usage_, granted>>

Cursor(t) == IF th[t].upper THEN blk[th[t].b].upper ELSE blk[th[t].b].lower

\* The range [lo, hi) the CAS from expected hands out.
Range(t) ==
    IF th[t].upper
    THEN [lo |-> th[t].expected - th[t].n, hi |-> th[t].expected]
    ELSE [lo |-> th[t].expected, hi |-> th[t].expected + th[t].n]

\* The cursor value the CAS stores, and the granted range and accounting.
Claim(t) ==
    LET r == Range(t) IN
    /\ blk' = IF th[t].upper THEN [blk EXCEPT ![th[t].b].upper = r.lo]
                             ELSE [blk EXCEPT ![th[t].b].lower = r.hi]
    /\ granted' = granted \cup {[t |-> t, i |-> th[t].idx, fn |-> Req(t).fn,
                                 blk |-> th[t].b, lo |-> r.lo, hi |-> r.hi]}
    /\ memory_usage_' = memory_usage_ + th[t].n
    /\ Set(t, [Idle EXCEPT !.idx = th[t].idx + 1])

(* while CAS *p from expected to expected + cas_diff fails: expected =     *)
(* witness; then return expected + cas_diff + ret_diff.                    *)
\* Mutant: the cursor is stored, not compared-and-swapped.
FinCasBlind(t) ==
    /\ th[t].pc = "fin_cas"
    /\ Claim(t)
    /\ UNCHANGED <<blocks_, large_, nextBlk>>

FinCas(t) ==
    /\ th[t].pc = "fin_cas"
    /\ \/ Cursor(t) = th[t].expected /\ Claim(t)
       \/ /\ Cursor(t) # th[t].expected
          /\ Set(t, [th[t] EXCEPT !.expected = Cursor(t)])
          /\ UNCHANGED <<blk, granted, memory_usage_>>
    /\ UNCHANGED <<blocks_, large_, nextBlk>>

Finished(t) == th[t].pc = "idle" /\ ~HasReq(t)

\* Every thread has returned from its last call: the system stops.
Terminated == (\A t \in Threads : Finished(t)) /\ UNCHANGED vars

Step(t) ==
    \/ Start(t) \/ Load(t) \/ CasRem(t) \/ NewNormal(t) \/ Link(t)
    \/ LargeNew(t) \/ LargeLoad(t) \/ LargeCas(t) \/ FinLoad(t) \/ FinCas(t)

Next == (\E t \in Threads : Step(t)) \/ Terminated

(* Each thread is an OS thread that keeps running; a CAS loop is lock-free *)
(* but not wait-free, so each step is only weakly fair per thread.         *)
Spec == Init /\ [][Next]_vars /\ \A t \in Threads : WF_vars(Step(t))

-----------------------------------------------------------------------------
TypeOK ==
    /\ DOMAIN blk = 1..(nextBlk - 1) /\ nextBlk \in 1..(MaxBlocks + 1)
    /\ blocks_ \in DOMAIN blk /\ large_ \in {NULL} \cup DOMAIN blk
    /\ \A i \in DOMAIN blk : blk[i].rem \in Nat /\ blk[i].lower <= blk[i].upper
    /\ \A t \in Threads : th[t].pc \in {"idle", "load", "cas", "newblock", "link",
                                        "large_new", "large_load", "large_cas",
                                        "fin_load", "fin_cas"}

\* The blocks reached from list head h through next (the ~Arena walk).
RECURSIVE Chain(_, _)
Chain(h, fuel) ==
    IF h = NULL \/ fuel = 0 THEN {} ELSE {h} \cup Chain(blk[h].next, fuel - 1)

Listed == Chain(blocks_, MaxBlocks) \cup Chain(large_, MaxBlocks)

(* Allocate, AllocateAligned and AllocateLarge hand out disjoint memory    *)
(* (spec 8): no two ranges returned by AllocateFinalize's cursor CAS loops *)
(* overlap, whatever the interleaving of the rem, list and cursor CASes.   *)
AllocationsDisjoint ==
    \A g1, g2 \in granted :
        (g1 # g2 /\ g1.blk = g2.blk) => (g1.hi <= g2.lo \/ g2.hi <= g1.lo)

(* Every returned range lies inside the mapped view of a block NewBlock    *)
(* built, that block was not deleted by a lost blocks_ CAS, and it is on   *)
(* blocks_ or large_, so it lives until ~Arena unmaps it.                  *)
AllocationsOwned ==
    \A g \in granted :
        /\ blk[g.blk].owned /\ blk[g.blk].live
        /\ 0 <= g.lo /\ g.hi <= blk[g.blk].size
        /\ g.blk \in Listed

(* AllocateAligned returns an align_-aligned pointer (its assert, line 180,*)
(* and spec 8): the padded size always takes the upper cursor, which only  *)
(* ever moves by multiples of align_ from the page-aligned end.            *)
AlignedResults ==
    \A g \in granted : g.fn = "AllocateAligned" => g.lo % Align = 0

FSE == INSTANCE FiniteSetsExt

(* MemoryUsage is exact whenever no call is in flight: the Arena object's  *)
(* own sizeof(Block), one per block on blocks_ or large_ (a block deleted *)
(* after a lost blocks_ CAS is not counted), and the bytes of every        *)
(* returned range, though the three increments are separate relaxed       *)
(* atomics that follow the CASes they account for.                         *)
MemoryUsageAccounted ==
    (\A t \in Threads : th[t].pc = "idle") =>
        memory_usage_ = BlockHdr * (1 + Cardinality(Listed))
                        + FSE!MapThenSumSet(LAMBDA g : g.hi - g.lo, granted)

(* Every Allocate/AllocateAligned call returns: the CAS loops are lock-free *)
(* and every failed CAS reloads the value another thread installed.        *)
AllocationsComplete == <>(\A t \in Threads : Finished(t))
=============================================================================
