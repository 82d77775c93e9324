------------------------------ MODULE MCArena ------------------------------
(* Arena instantiated for TLC: BLOCK_SIZE 65536, page 4096 and align_ 8    *)
(* scaled to 8, 4 and 2, so that BLOCK_SIZE >> 2 is 2: sizes 1 and 2 go to *)
(* the normal list (1 unaligned, 2 aligned) and 3 to AllocateLarge.        *)
EXTENDS Arena

CONSTANTS t1, t2, t3

A(n) == [fn |-> "Allocate", n |-> n]
AA(n) == [fn |-> "AllocateAligned", n |-> n]

\* 11 normal bytes overflow the 8-byte first block: some thread builds a
\* second one, possibly racing another; two large requests race on large_.
ReqsMix == (t1 :> <<A(1), AA(1), AA(1)>>) @@ (t2 :> <<A(3), A(2)>>) @@ (t3 :> <<A(2), A(3), A(2)>>)

\* One large request: the NewBlock result reaches AllocateFinalize at once.
ReqsLarge == (t1 :> <<A(3)>>)
=============================================================================
