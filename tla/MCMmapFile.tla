----------------------------- MODULE MCMmapFile -----------------------------
(***************************************************************************)
(* Instances of MmapFile for TLC.  BlockSize is 2 units, so offsets 0-1    *)
(* are block 0 and 2-3 block 1; GrowViaTruncate grows a table of 0 entries *)
(* to 1 for block 0 and to 9 for blocks 1-8.                               *)
(***************************************************************************)
EXTENDS MmapFile

CONSTANTS w1, w2, w3

W(o, l) == [kind |-> "write", off |-> o, len |-> l]
A(l) == [kind |-> "append", len |-> l]
S == [kind |-> "sync"]

\* Two writers writing block 0.
OpsSameBlock == (w1 :> <<W(0, 1)>>) @@ (w2 :> <<W(0, 1)>>)

\* One writer writing block 0 twice.
OpsRewrite == w1 :> <<W(0, 1), W(0, 1)>>

\* One writer writing block 1 only, then syncing.
OpsSyncHole == w1 :> <<W(2, 1), S>>

\* Block 0 once, block 0 then block 9, and block 1: two growths to
\* different sizes (17 and 9 entries) can overlap.
OpsGrowShrink == (w1 :> <<W(0, 1)>>) @@ (w2 :> <<W(0, 1), W(18, 1)>>) @@ (w3 :> <<W(2, 1)>>)

\* Three writers: block 0 then Sync, block 1, and an Append of one unit
\* at whatever end_offset_ it reads; the owner closes the file after.
OpsWrite == (w1 :> <<W(0, 1), S>>) @@ (w2 :> <<W(2, 1)>>) @@ (w3 :> <<A(1)>>)
=============================================================================
