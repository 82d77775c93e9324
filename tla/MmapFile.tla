------------------------------ MODULE MmapFile ------------------------------
(***************************************************************************)
(* PosixMmapFile (src/unnamed/part_000, lines 136-471): a writable file    *)
(* backed by a growable table of memory-mapped segments, one per block of  *)
(* BlockSize bytes.  Every writer thread runs its own list of operations   *)
(* (WriteAt, Append, Sync) against the shared object; the owner closes it  *)
(* once every writer is finished (Close, then Close again from the         *)
(* destructor).                                                            *)
(*                                                                         *)
(* Offsets are counted in abstract units; a write is tracked per block it  *)
(* touches ("chunks"), which is all the properties tell apart.  Handles    *)
(* and views returned by the OS are fresh positive integers; 0 is NULL.    *)
(* Each critical section of mtx_ is one atomic step; the steps between     *)
(* them are the unlocked parts of the code, where other threads interleave.*)
(***************************************************************************)
EXTENDS Integers, Sequences, FiniteSets, TLC

CONSTANTS
    Writers,     \* the threads sharing one PosixMmapFile
    Ops,         \* Ops[t]: the operations thread t performs, in order
    BlockSize    \* block_size_, in units

ASSUME BlockSize \in Nat \ {0}

NULL == 0

VARIABLES
    \* PosixMmapFile's members
    segments_,          \* the segment table: [0..segments_sz_-1 -> Seg]
    segments_sz_,
    end_offset_,
    trunc_in_progress_,
    trunc_waiters_,
    base_handle_,       \* _base_handle: one member shared by every mapper
    fdOpen,             \* fd_ >= 0
    cnd,                \* threads blocked in cnd_.Wait()
    \* the operating system and the heap
    fileLen,            \* length of the file, in units
    handleSize,         \* mapping handle -> length of the file when created
    openHandles,        \* handles not yet closed
    viewBlk,            \* live mapped view -> the block it maps
    nextId,             \* next fresh handle or view id
    aborted,            \* abort() was called
    heapCorrupt,        \* a write past the end of the segment array
    \* th[t]: the locals of WriteAt / GetSegment / GrowViaTruncate / Sync
    th,
    \* history of what the program did, for the properties
    chunks,             \* [t, i, blk, view]: a memmove that was performed
    okWrites,           \* [t, i, kind, start, end, floor]: writes that returned OK;
                        \* floor: for an Append, the highest end of the writes
                        \* that had returned OK when it read end_offset_
    onDisk,             \* chunks flushed or written back to the file
    lastSync,           \* thread -> [ok, failed, missing] of its last Sync
    closeCalls, closeOk

fileVars == <<segments_, segments_sz_, end_offset_, trunc_in_progress_,
              trunc_waiters_, base_handle_, fdOpen, cnd>>
osVars == <<fileLen, handleSize, openHandles, viewBlk, nextId, aborted, heapCorrupt>>
hist == <<chunks, okWrites, onDisk, lastSync, closeCalls, closeOk>>
vars == <<fileVars, osVars, th, hist>>

NullSeg == [base |-> NULL, handle |-> NULL]

\* GrowViaTruncate's new table size: ((block + 7) & ~7ULL) + 1
NewSize(b) == ((b + 7) \div 8) * 8 + 1

Op(t) == Ops[t][th[t].opIdx]
HasOp(t) == th[t].opIdx <= Len(Ops[t])
Finished(t) == th[t].pc = "idle" /\ ~HasOp(t)
At(t, p) == ~aborted /\ th[t].pc = p

\* The base_ the table holds for block b, or NULL beyond its end.
SegBase(b) == IF b < segments_sz_ THEN segments_[b].base ELSE NULL
Installed == {i \in 0..segments_sz_ - 1 : segments_[i].base # NULL}

\* The highest end of a set of returned writes, 0 for none.
HighestEnd(ws) ==
    LET ends == {w.end : w \in ws} \cup {0}
    IN CHOOSE m \in ends : \A x \in ends : x <= m

\* A thread between operations; its locals hold nothing.
Idle == [pc |-> "idle", opIdx |-> 1, off |-> 0, wstart |-> 0, wend |-> 0, rem |-> 0,
         blk |-> 0, growErr |-> FALSE, base |-> NULL, ptr |-> NULL,
         syncBlock |-> 0, syncOk |-> TRUE, syncFailed |-> FALSE, syncNeed |-> {},
         floor |-> 0]

\* Thread t's next control point, with other locals changed by the caller.
Goto(t, p) == th' = [th EXCEPT ![t].pc = p]

\* A write operation returns: OK records it, IOError only moves on.
FinishWrite(t, ok) ==
    /\ th' = [th EXCEPT ![t] = [Idle EXCEPT !.opIdx = th[t].opIdx + 1]]
    /\ okWrites' = IF ok
                   THEN okWrites \cup {[t |-> t, i |-> th[t].opIdx, kind |-> Op(t).kind,
                                        start |-> th[t].wstart, end |-> th[t].wend,
                                        floor |-> th[t].floor]}
                   ELSE okWrites

-----------------------------------------------------------------------------
(* WriteAt's first critical section: end_offset_ = max(end_offset_, end). *)
(* A WriteAt operation enters from idle, an Append with the offset it read.*)
\* Mutant: end_offset_ is not advanced.
WriteAtNoEnd(t) ==
    /\ ~aborted
    /\ \/ th[t].pc = "writeat"
       \/ th[t].pc = "idle" /\ HasOp(t) /\ Op(t).kind = "write"
    /\ LET o == IF th[t].pc = "writeat" THEN th[t].off ELSE Op(t).off
           e == o + Op(t).len
       IN /\ end_offset_' = end_offset_
          /\ th' = [th EXCEPT ![t].off = o, ![t].wstart = o, ![t].wend = e,
                              ![t].rem = Op(t).len, ![t].pc = "loop"]
    /\ UNCHANGED <<segments_, segments_sz_, trunc_in_progress_, trunc_waiters_,
                   base_handle_, fdOpen, cnd, osVars, hist>>

\* Mutant: end_offset_ is set to this write's end rather than raised to it.
WriteAtNoMax(t) ==
    /\ ~aborted
    /\ \/ th[t].pc = "writeat"
       \/ th[t].pc = "idle" /\ HasOp(t) /\ Op(t).kind = "write"
    /\ LET o == IF th[t].pc = "writeat" THEN th[t].off ELSE Op(t).off
           e == o + Op(t).len
       IN /\ end_offset_' = e
          /\ th' = [th EXCEPT ![t].off = o, ![t].wstart = o, ![t].wend = e,
                              ![t].rem = Op(t).len, ![t].pc = "loop"]
    /\ UNCHANGED <<segments_, segments_sz_, trunc_in_progress_, trunc_waiters_,
                   base_handle_, fdOpen, cnd, osVars, hist>>

WriteAt(t) ==
    /\ ~aborted
    /\ \/ th[t].pc = "writeat"
       \/ th[t].pc = "idle" /\ HasOp(t) /\ Op(t).kind = "write"
    /\ LET o == IF th[t].pc = "writeat" THEN th[t].off ELSE Op(t).off
           e == o + Op(t).len
       IN /\ end_offset_' = IF end_offset_ < e THEN e ELSE end_offset_
          /\ th' = [th EXCEPT ![t].off = o, ![t].wstart = o, ![t].wend = e,
                              ![t].rem = Op(t).len, ![t].pc = "loop"]
    /\ UNCHANGED <<segments_, segments_sz_, trunc_in_progress_, trunc_waiters_,
                   base_handle_, fdOpen, cnd, osVars, hist>>

(* Append (AppendOp: Sequences defines Append): read end_offset_ under   *)
(* the lock, release it, then WriteAt.                                    *)
AppendOp(t) ==
    /\ At(t, "idle") /\ HasOp(t) /\ Op(t).kind = "append"
    /\ th' = [th EXCEPT ![t].off = end_offset_, ![t].pc = "writeat",
                        ![t].floor = HighestEnd(okWrites)]
    /\ UNCHANGED <<fileVars, osVars, hist>>

(* The while (rem > 0) loop of WriteAt: return OK when nothing is left,    *)
(* else GetSegment(offset / block_size_), whose first critical section     *)
(* reads segments_sz_ and the block's base_.                               *)
WriteLoop(t) ==
    /\ At(t, "loop")
    /\ \/ /\ th[t].rem = 0
          /\ FinishWrite(t, TRUE)
       \/ /\ th[t].rem > 0
          /\ LET b == th[t].off \div BlockSize
             IN th' = [th EXCEPT ![t].blk = b, ![t].base = SegBase(b),
                                 ![t].pc = IF SegBase(b) # NULL THEN "copy"
                                           ELSE IF segments_sz_ <= b THEN "grow"
                                           ELSE "map_create"]
          /\ UNCHANGED okWrites
    /\ UNCHANGED <<fileVars, osVars, chunks, onDisk, lastSync, closeCalls, closeOk>>

(* GrowViaTruncate's first critical section, entered with trunc_waiters_  *)
(* equal to w: wait while another truncate is in progress and the table    *)
(* is still too short; otherwise read cur_sz and set trunc_in_progress_ to *)
(* cur_sz <= block -- which clears the flag of a truncate in progress when *)
(* this thread finds the table already long enough.                        *)
\* Mutant: the wait forgets ++trunc_waiters_.
GrowDecideNoCount(t, w) ==
    LET b == th[t].blk IN
    \/ /\ trunc_in_progress_ /\ segments_sz_ <= b
       /\ trunc_waiters_' = w
       /\ cnd' = cnd \cup {t}
       /\ Goto(t, "grow_wait")
       /\ UNCHANGED trunc_in_progress_
    \/ /\ ~(trunc_in_progress_ /\ segments_sz_ <= b)
       /\ trunc_waiters_' = w
       /\ trunc_in_progress_' = (segments_sz_ <= b)
       /\ cnd' = cnd
       /\ Goto(t, IF segments_sz_ <= b THEN "chsize" ELSE "map_create")

GrowDecide(t, w) ==
    LET b == th[t].blk IN
    \/ /\ trunc_in_progress_ /\ segments_sz_ <= b
       /\ trunc_waiters_' = w + 1
       /\ cnd' = cnd \cup {t}
       /\ Goto(t, "grow_wait")
       /\ UNCHANGED trunc_in_progress_
    \/ /\ ~(trunc_in_progress_ /\ segments_sz_ <= b)
       /\ trunc_waiters_' = w
       /\ trunc_in_progress_' = (segments_sz_ <= b)
       /\ cnd' = cnd
       /\ Goto(t, IF segments_sz_ <= b THEN "chsize" ELSE "map_create")

Grow(t) ==
    /\ At(t, "grow")
    /\ GrowDecide(t, trunc_waiters_)
    /\ UNCHANGED <<segments_, segments_sz_, end_offset_, base_handle_, fdOpen,
                   osVars, hist>>

(* cnd_.Wait() returns once SignalAll removed t from the wait set; the     *)
(* thread holds mtx_ again, decrements trunc_waiters_ and re-checks.       *)
GrowWoken(t) ==
    /\ At(t, "grow_wait")
    /\ t \notin cnd
    /\ GrowDecide(t, trunc_waiters_ - 1)
    /\ UNCHANGED <<segments_, segments_sz_, end_offset_, base_handle_, fdOpen,
                   osVars, hist>>

(* _chsize(fd_, new_sz * block_size_), outside the lock; it may fail.      *)
Truncate(t) ==
    /\ At(t, "chsize")
    /\ \E ok \in BOOLEAN :
          /\ fileLen' = IF ok THEN NewSize(th[t].blk) * BlockSize ELSE fileLen
          /\ th' = [th EXCEPT ![t].growErr = ~ok, ![t].pc = "swap"]
    /\ UNCHANGED <<fileVars, handleSize, openHandles, viewBlk, nextId, aborted,
                   heapCorrupt, hist>>

(* The second critical section: copy segments_sz_ entries into a table of *)
(* new_sz entries (overrunning it when another truncate made the table     *)
(* longer meanwhile), install it, clear the flag and SignalAll -- whether  *)
(* or not _chsize succeeded.  Then GetSegment returns NULL on error.       *)
\* Mutant: the new table does not carry the old entries over.
SwapNoCopy(t) ==
    /\ At(t, "swap")
    /\ LET n == NewSize(th[t].blk) IN
       /\ segments_' = [i \in 0..n - 1 |-> NullSeg]
       /\ segments_sz_' = n
       /\ heapCorrupt' = (heapCorrupt \/ segments_sz_ > n)
    /\ trunc_in_progress_' = FALSE
    /\ cnd' = {}
    /\ \/ th[t].growErr /\ FinishWrite(t, FALSE)
       \/ ~th[t].growErr /\ Goto(t, "map_create") /\ UNCHANGED okWrites
    /\ UNCHANGED <<end_offset_, trunc_waiters_, base_handle_, fdOpen, fileLen,
                   handleSize, openHandles, viewBlk, nextId, aborted, chunks,
                   onDisk, lastSync, closeCalls, closeOk>>

\* Mutant: the new table is installed without cnd_.SignalAll().
SwapNoSignal(t) ==
    /\ At(t, "swap")
    /\ LET n == NewSize(th[t].blk) IN
       /\ segments_' = [i \in 0..n - 1 |-> IF i < segments_sz_ THEN segments_[i] ELSE NullSeg]
       /\ segments_sz_' = n
       /\ heapCorrupt' = (heapCorrupt \/ segments_sz_ > n)
    /\ trunc_in_progress_' = FALSE
    /\ cnd' = cnd
    /\ \/ th[t].growErr /\ FinishWrite(t, FALSE)
       \/ ~th[t].growErr /\ Goto(t, "map_create") /\ UNCHANGED okWrites
    /\ UNCHANGED <<end_offset_, trunc_waiters_, base_handle_, fdOpen, fileLen,
                   handleSize, openHandles, viewBlk, nextId, aborted, chunks,
                   onDisk, lastSync, closeCalls, closeOk>>

Swap(t) ==
    /\ At(t, "swap")
    /\ LET n == NewSize(th[t].blk) IN
       /\ segments_' = [i \in 0..n - 1 |-> IF i < segments_sz_ THEN segments_[i] ELSE NullSeg]
       /\ segments_sz_' = n
       /\ heapCorrupt' = (heapCorrupt \/ segments_sz_ > n)
    /\ trunc_in_progress_' = FALSE
    /\ cnd' = {}
    /\ \/ th[t].growErr /\ FinishWrite(t, FALSE)
       \/ ~th[t].growErr /\ Goto(t, "map_create") /\ UNCHANGED okWrites
    /\ UNCHANGED <<end_offset_, trunc_waiters_, base_handle_, fdOpen, fileLen,
                   handleSize, openHandles, viewBlk, nextId, aborted, chunks,
                   onDisk, lastSync, closeCalls, closeOk>>

(* _base_handle = CreateFileMappingA(file, 0, 0): a mapping of the whole   *)
(* file, stored in the shared member; it fails on an empty file and the    *)
(* code calls abort().                                                     *)
CreateMapping(t) ==
    /\ At(t, "map_create")
    /\ \/ /\ fileLen = 0
          /\ aborted' = TRUE
          /\ UNCHANGED <<base_handle_, handleSize, openHandles, nextId, th>>
       \/ /\ fileLen > 0
          /\ base_handle_' = nextId
          /\ handleSize' = (nextId :> fileLen) @@ handleSize
          /\ openHandles' = openHandles \cup {nextId}
          /\ nextId' = nextId + 1
          /\ Goto(t, "map_view")
          /\ UNCHANGED aborted
    /\ UNCHANGED <<segments_, segments_sz_, end_offset_, trunc_in_progress_,
                   trunc_waiters_, fdOpen, cnd, fileLen, viewBlk, heapCorrupt, hist>>

(* MapViewOfFile(_base_handle, block * block_size_, block_size_): through  *)
(* whatever handle the member holds now; it fails, and the code aborts,    *)
(* when that handle was closed or its mapping ends before the block does.  *)
MapView(t) ==
    /\ At(t, "map_view")
    /\ LET h == base_handle_
           ok == h \in openHandles /\ (th[t].blk + 1) * BlockSize <= handleSize[h]
       IN \/ /\ ok
             /\ viewBlk' = (nextId :> th[t].blk) @@ viewBlk
             /\ nextId' = nextId + 1
             /\ th' = [th EXCEPT ![t].ptr = nextId, ![t].pc = "install"]
             /\ UNCHANGED aborted
          \/ /\ ~ok
             /\ aborted' = TRUE
             /\ UNCHANGED <<viewBlk, nextId, th>>
    /\ UNCHANGED <<fileVars, fileLen, handleSize, openHandles, heapCorrupt, hist>>

(* The third critical section: if another thread installed the block in   *)
(* the meantime use its view and discard ours, else install ours with the  *)
(* handle the member holds now.  assert(block < segments_sz_) is compiled  *)
(* out of a release build, where a shorter table is written past its end.  *)
Install(t) ==
    /\ At(t, "install")
    /\ LET b == th[t].blk IN
       \/ /\ SegBase(b) # NULL
          /\ th' = [th EXCEPT ![t].base = SegBase(b), ![t].pc = "unmap_dup"]
          /\ UNCHANGED <<segments_, heapCorrupt>>
       \/ /\ SegBase(b) = NULL
          /\ segments_' = IF b < segments_sz_
                          THEN [segments_ EXCEPT ![b] = [base |-> th[t].ptr, handle |-> base_handle_]]
                          ELSE segments_
          /\ heapCorrupt' = (heapCorrupt \/ b >= segments_sz_)
          /\ th' = [th EXCEPT ![t].base = th[t].ptr, ![t].pc = "copy"]
    /\ UNCHANGED <<segments_sz_, end_offset_, trunc_in_progress_, trunc_waiters_,
                   base_handle_, fdOpen, cnd, fileLen, handleSize, openHandles,
                   viewBlk, nextId, aborted, hist>>

(* UnmapSegment(ptr): UnmapViewOfFile(ptr) and CloseHandle(_base_handle),  *)
(* the handle the shared member holds now, not the one ptr was mapped by.  *)
\* Mutant: the losing view is never unmapped.
UnmapDupKeepView(t) ==
    /\ At(t, "unmap_dup")
    /\ openHandles' = openHandles \ {base_handle_}
    /\ Goto(t, "copy")
    /\ UNCHANGED <<fileVars, fileLen, handleSize, viewBlk, nextId, aborted, heapCorrupt, hist>>

UnmapDup(t) ==
    /\ At(t, "unmap_dup")
    /\ viewBlk' = [v \in DOMAIN viewBlk \ {th[t].ptr} |-> viewBlk[v]]
    /\ openHandles' = openHandles \ {base_handle_}
    /\ Goto(t, "copy")
    /\ UNCHANGED <<fileVars, fileLen, handleSize, nextId, aborted, heapCorrupt, hist>>

(* memmove(base + loff, src, n) with n = min(block_size_ - loff, rem).     *)
Copy(t) ==
    /\ At(t, "copy")
    /\ LET loff == th[t].off - th[t].blk * BlockSize
           n == IF BlockSize - loff < th[t].rem THEN BlockSize - loff ELSE th[t].rem
       IN th' = [th EXCEPT ![t].rem = @ - n, ![t].off = @ + n, ![t].pc = "loop"]
    /\ chunks' = chunks \cup {[t |-> t, i |-> th[t].opIdx, blk |-> th[t].blk,
                               view |-> th[t].base]}
    /\ UNCHANGED <<fileVars, osVars, okWrites, onDisk, lastSync, closeCalls, closeOk>>

-----------------------------------------------------------------------------
(* Sync: walk the table from block 0 under the lock, one block at a time,  *)
(* and stop at the first block whose base_ is NULL.  syncNeed records the  *)
(* chunks of the writes that had returned OK when Sync was called.         *)
BeginSync(t) ==
    /\ At(t, "idle") /\ HasOp(t) /\ Op(t).kind = "sync"
    /\ th' = [th EXCEPT ![t].syncBlock = 0, ![t].syncOk = TRUE, ![t].syncFailed = FALSE,
                        ![t].syncNeed = {c \in chunks : \E w \in okWrites : w.t = c.t /\ w.i = c.i},
                        ![t].pc = "sync"]
    /\ UNCHANGED <<fileVars, osVars, hist>>

SyncLookup(t) ==
    /\ At(t, "sync")
    /\ LET b == SegBase(th[t].syncBlock) IN
       \/ /\ b = NULL
          /\ lastSync' = [lastSync EXCEPT ![t] = [ok |-> th[t].syncOk,
                             failed |-> th[t].syncFailed, missing |-> th[t].syncNeed \ onDisk]]
          /\ th' = [th EXCEPT ![t] = [Idle EXCEPT !.opIdx = th[t].opIdx + 1]]
       \/ /\ b # NULL
          /\ th' = [th EXCEPT ![t].base = b, ![t].pc = "sync_flush"]
          /\ UNCHANGED lastSync
    /\ UNCHANGED <<fileVars, osVars, chunks, okWrites, onDisk, closeCalls, closeOk>>

(* FlushViewOfFile(base) writes the block's dirty pages to the file; then *)
(* FlushFileBuffers(segments_[block].handle), whose result is tested as    *)
(* "!FlushFileBuffers(h) == 0": an error is reported when it succeeds.     *)
SyncFlush(t) ==
    /\ At(t, "sync_flush")
    /\ \E viewOk, fileOk \in BOOLEAN :
          /\ onDisk' = IF viewOk THEN onDisk \cup {c \in chunks : c.view = th[t].base}
                                 ELSE onDisk
          /\ th' = [th EXCEPT ![t].syncOk = @ /\ viewOk /\ ~fileOk,
                              ![t].syncFailed = @ \/ ~viewOk \/ ~fileOk,
                              ![t].syncBlock = @ + 1, ![t].pc = "sync"]
    /\ UNCHANGED <<fileVars, osVars, chunks, okWrites, lastSync, closeCalls, closeOk>>

(* Close, by the owner once every writer is finished: take fd_, the table *)
(* and end_offset_ under the lock; unmap every installed view (the OS      *)
(* writes its dirty pages back) and close its handle; _chsize(fd,          *)
(* end_offset), which may fail.  The destructor's second Close finds       *)
(* fd_ < 0 and returns OK.                                                 *)
Close ==
    /\ ~aborted
    /\ \A t \in Writers : Finished(t)
    /\ closeCalls < 2
    /\ closeCalls' = closeCalls + 1
    /\ \/ /\ fdOpen
          /\ LET views == {segments_[i].base : i \in Installed}
             IN /\ viewBlk' = [v \in DOMAIN viewBlk \ views |-> viewBlk[v]]
                /\ openHandles' = openHandles \ {segments_[i].handle : i \in Installed}
                /\ onDisk' = onDisk \cup {c \in chunks : c.view \in views}
          /\ \E ok \in BOOLEAN :
                /\ fileLen' = IF ok THEN end_offset_ ELSE fileLen
                /\ closeOk' = ok
          /\ fdOpen' = FALSE
          /\ segments_' = <<>>
          /\ segments_sz_' = 0
          /\ end_offset_' = 0
       \/ /\ ~fdOpen
          /\ UNCHANGED <<fdOpen, segments_, segments_sz_, end_offset_, fileLen,
                         viewBlk, openHandles, onDisk, closeOk>>
    /\ UNCHANGED <<trunc_in_progress_, trunc_waiters_, base_handle_, cnd, handleSize,
                   nextId, aborted, heapCorrupt, th, chunks, okWrites, lastSync>>

(* The program has stopped: closed twice, or abort() ended the process.   *)
Terminated ==
    /\ aborted \/ closeCalls = 2
    /\ UNCHANGED vars

-----------------------------------------------------------------------------
Init ==
    /\ segments_ = <<>>
    /\ segments_sz_ = 0
    /\ end_offset_ = 0
    /\ trunc_in_progress_ = FALSE
    /\ trunc_waiters_ = 0
    /\ base_handle_ = NULL
    /\ fdOpen = TRUE
    /\ cnd = {}
    /\ fileLen = 0
    /\ handleSize = <<>>
    /\ openHandles = {}
    /\ viewBlk = <<>>
    /\ nextId = 1
    /\ aborted = FALSE
    /\ heapCorrupt = FALSE
    /\ th = [t \in Writers |-> Idle]
    /\ chunks = {}
    /\ okWrites = {}
    /\ onDisk = {}
    /\ lastSync = [t \in Writers |-> [ok |-> TRUE, failed |-> FALSE, missing |-> {}]]
    /\ closeCalls = 0
    /\ closeOk = TRUE

Step(t) ==
    \/ WriteAt(t) \/ AppendOp(t) \/ WriteLoop(t)
    \/ Grow(t) \/ GrowWoken(t) \/ Truncate(t) \/ Swap(t)
    \/ CreateMapping(t) \/ MapView(t) \/ Install(t) \/ UnmapDup(t) \/ Copy(t)
    \/ BeginSync(t) \/ SyncLookup(t) \/ SyncFlush(t)

Next ==
    \/ \E t \in Writers : Step(t)
    \/ Close
    \/ Terminated

\* Every thread keeps running while it can: the OS scheduler runs threads
\* that are not blocked, and mtx_ is held only for short sections.
Fairness == \A t \in Writers : WF_vars(Step(t))

Spec == Init /\ [][Next]_vars /\ Fairness

-----------------------------------------------------------------------------
Seg == [base : Nat, handle : Nat]
PCs == {"idle", "writeat", "loop", "grow", "grow_wait", "chsize", "swap",
        "map_create", "map_view", "install", "unmap_dup", "copy", "sync", "sync_flush"}

TypeOK ==
    /\ segments_sz_ \in Nat
    /\ segments_ \in [0..segments_sz_ - 1 -> Seg]
    /\ end_offset_ \in Nat /\ trunc_waiters_ \in Nat
    /\ trunc_in_progress_ \in BOOLEAN /\ fdOpen \in BOOLEAN
    /\ cnd \subseteq Writers
    /\ base_handle_ \in Nat /\ fileLen \in Nat
    /\ openHandles \subseteq DOMAIN handleSize
    /\ \A t \in Writers : th[t].pc \in PCs
    /\ closeCalls \in 0..2

(* Every byte a completed memmove wrote is in the view that the segment   *)
(* table holds for its block, for as long as the file is open: no growth, *)
(* concurrent mapping or install loses or replaces a segment that writes   *)
(* went to (GrowViaTruncate's copy, GetSegment's re-check under mtx_).     *)
NoLostWrite ==
    fdOpen => \A c \in chunks : SegBase(c.blk) = c.view

(* Every live mapped view is either installed in the table or held by a    *)
(* thread between MapViewOfFile and its re-check: a view that lost the     *)
(* install race is always unmapped (GetSegment / UnmapSegment).            *)
ViewsAccounted ==
    \A v \in DOMAIN viewBlk :
        \/ \E i \in Installed : segments_[i].base = v
        \/ \E t \in Writers : th[t].pc \in {"install", "unmap_dup"} /\ th[t].ptr = v

(* Every writer eventually finishes all its operations (or the process    *)
(* aborted): no thread waits forever on cnd_ in GrowViaTruncate.          *)
WritersFinish ==
    <>(aborted \/ \A t \in Writers : Finished(t))

(* After Close returns OK, the data of every write that returned OK is in *)
(* the file: within the truncated length and flushed or written back.     *)
CloseKeepsData ==
    (closeCalls > 0 /\ closeOk) =>
        \A w \in okWrites :
            /\ w.end <= fileLen
            /\ \A c \in chunks : (c.t = w.t /\ c.i = w.i) => c \in onDisk

-----------------------------------------------------------------------------
(* Properties the code is found to break (see the README).                *)

(* Every installed segment records its own open mapping handle: no two     *)
(* segments share one and none was closed (GetSegment's _base_handle,      *)
(* UnmapSegment's CloseHandle, Close's CloseHandle per segment).           *)
SegmentHandlesOwned ==
    \A i \in Installed :
        /\ segments_[i].handle \in openHandles
        /\ \A j \in Installed \ {i} : segments_[i].handle # segments_[j].handle

(* A failed mapping at write time is reported to the caller of WriteAt as *)
(* an I/O error (spec 4.2), never by ending the process (GetSegment's      *)
(* abort() calls).                                                         *)
WriteErrorsReported == ~aborted

(* An Append never writes below a write that had returned OK before the  *)
(* Append read end_offset_: Append reads end_offset_ under mtx_, and        *)
(* WriteAt raises it to its end before copying.  (Two Appends running at   *)
(* once may still overlap each other; the spec leaves that open.)          *)
AppendAfterReturned ==
    \A v \in okWrites : v.kind = "append" => v.start >= v.floor

(* When Sync returns OK, every write that had returned OK before Sync was  *)
(* called has been flushed to the file (spec 4.2: Sync flushes every       *)
(* mapped segment; Sync's walk of the table).                              *)
SyncOkImpliesFlushed ==
    \A t \in Writers : lastSync[t].ok => lastSync[t].missing = {}

=============================================================================
