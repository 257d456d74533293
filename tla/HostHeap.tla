------------------------------ MODULE HostHeap ------------------------------
(***************************************************************************)
(* The guest heap that ExtHost (crates/vmrp-platform/src/lib.rs) keeps in  *)
(* the 6 MB memory manager region: a first-fit free list (heap_blocks), a  *)
(* map of the blocks in use (ext_allocations), and the three words of the  *)
(* guest's mr_table that report how much is left.  Every host function     *)
(* that takes or returns heap memory is an action: mr_malloc, mr_free,     *)
(* mr_realloc, mr_readFile, DSM mem_get and mem_free, mr_c_function_new in *)
(* its two variants, mr_editGetText, and the directory iteration, which    *)
(* takes its scratch buffer below the level of ext_allocations.            *)
(*                                                                         *)
(* A host function runs to completion while the guest's CPU waits for it,  *)
(* so a whole call is one step.                                            *)
(***************************************************************************)
EXTENDS Integers, Sequences, FiniteSets, SequencesExt

CONSTANTS
  PoolStart,   (* memory_manager_address: 0x280000                         *)
  PoolLen,     (* memory_manager_size: 0x600000                            *)
  Word,        (* number of values of a u32: 2^32                          *)
  Align,       (* alloc_raw's granularity: 8                               *)
  Header,      (* bytes in front of a block that hold its length: 4        *)
  Sizes,       (* the lengths the guest asks for (a u32 argument)          *)
  DataSizes,   (* lengths the host fills itself: files, texts              *)
  ScratchLen,  (* bytes of a directory entry buffer: 260                   *)
  MemGetLen,   (* what mem_get hands out: DSM_MEM_GET_SIZE, 4 MB           *)
  CtxInit,     (* mr_c_function_p_addr before the first context: 0x182000  *)
  Dirs,        (* directory handles the guest has open at one time         *)
  NoDir,       (* a handle that is not in `dirs'                           *)
  Stray        (* addresses the guest may pass without owning them         *)

PoolEnd == PoolStart + PoolLen
Pool == PoolStart .. PoolEnd - 1

ASSUME PoolAssumption ==
  /\ PoolStart \in Nat \ {0}
  /\ PoolLen \in Nat \ {0}
  /\ Word \in Nat
  /\ PoolEnd < Word
  /\ Align \in Nat \ {0}
  /\ Header \in Nat \ {0}

ASSUME RequestAssumption ==
  /\ Sizes \subseteq 0 .. Word - 1
  /\ DataSizes \subseteq 0 .. Word - Header - Align - 2
  /\ ScratchLen \in 1 .. Word - Align
  /\ MemGetLen \in 1 .. Word - Header - Align

ASSUME NameAssumption ==
  /\ CtxInit \in Nat \ Pool
  /\ Stray \subseteq Nat
  /\ NoDir \notin Nat

VARIABLES
  heap,        (* ExtHost: heap_blocks, ext_allocations, min_free, peak    *)
  cells,       (* the guest's LG_mem_left, LG_mem_min and LG_mem_top       *)
  told,        (* history: the heap when these words were last written     *)
  ctx,         (* ExtHost.mr_c_function_p_addr                             *)
  editText,    (* ExtHost.edit_text_ptr                                    *)
  loading,     (* ExtHost.active_plugin_ext_load.is_some()                 *)
  dirs,        (* ExtHost.dirs: the scratch_ptr of each open directory     *)
  pinned,      (* history: where each scratch buffer ever taken starts     *)
  held,        (* history: pointers the guest was given and has not freed  *)
  ctxFailed    (* history: an mr_c_function_new has run out of memory      *)

vars == <<heap, cells, told, ctx, editText, loading, dirs, pinned, held,
          ctxFailed>>

-----------------------------------------------------------------------------
(* The free list.                                                          *)

Block == [start : Nat, len : Nat]
Finish(b) == b.start + b.len

(* value.wrapping_add(mask) & !mask, for a granularity that is a power of two. *)
AlignUp(v) == LET sum == (v + Align - 1) % Word IN sum - (sum % Align)

Aligned(size) == AlignUp(Max({size, 1}))

(* Mutant of Total: no room for the length word. *)
TotalNoHeader(size) == Min({size, Word - 1})

(* size.saturating_add(4). *)
Total(size) == Min({size + Header, Word - 1})

FreeBytes(blocks) == FoldLeft(LAMBDA sum, b : sum + b.len, 0, blocks)

(* Mutant of Fits: the first block is taken without a look at its length. *)
FitsUnjudged(blocks, len) == DOMAIN blocks

(* iter().position(|block| block.len >= aligned): first fit. *)
Fits(blocks, len) == {i \in DOMAIN blocks : blocks[i].len >= len}
FirstFit(blocks, len) == Min(Fits(blocks, len))

(* Cut len bytes off the front of block i. *)
Carve(blocks, i, len) ==
  IF blocks[i].len = len
  THEN RemoveAt(blocks, i)
  ELSE [blocks EXCEPT ![i] = [start |-> @.start + len, len |-> @.len - len]]

(* Merge block i with the next one if the two touch. *)
Touch(blocks, i) ==
  /\ i \in 1 .. Len(blocks) - 1
  /\ Finish(blocks[i]) = blocks[i + 1].start
Coalesce(blocks, i) ==
  IF Touch(blocks, i)
  THEN RemoveAt([blocks EXCEPT ![i].len = @ + blocks[i + 1].len], i + 1)
  ELSE blocks

(* free_raw: insert in address order, merge with the block before, then    *)
(* with the block after the result; a range out of the pool is ignored.    *)
InsertionPoint(blocks, addr) ==
  Min({i \in DOMAIN blocks : blocks[i].start > addr} \cup {Len(blocks) + 1})
Inserted(blocks, addr, size) ==
  InsertAt(blocks, InsertionPoint(blocks, addr),
           [start |-> addr, len |-> Aligned(size)])
MergedAround(blocks, i) ==
  Coalesce(Coalesce(blocks, i - 1), IF Touch(blocks, i - 1) THEN i - 1 ELSE i)

(* Mutant of FreeRaw: the cursor does not follow the first merge. *)
FreeRawCursorStays(blocks, addr, size) ==
  LET at == InsertionPoint(blocks, addr)
  IN IF addr \in Pool /\ addr + Aligned(size) <= PoolEnd
     THEN Coalesce(Coalesce(Inserted(blocks, addr, size), at - 1), at)
     ELSE blocks

FreeRaw(blocks, addr, size) ==
  IF addr \in Pool /\ addr + Aligned(size) <= PoolEnd
  THEN MergedAround(Inserted(blocks, addr, size), InsertionPoint(blocks, addr))
  ELSE blocks

-----------------------------------------------------------------------------
(* Blocks in use.  An operator takes the heap before a call and returns    *)
(* the heap after it.                                                      *)

CanAllocRaw(h, size) == Fits(h.blocks, Aligned(size)) # {}

RawPtr(h, size) == h.blocks[FirstFit(h.blocks, Aligned(size))].start

AllocRaw(h, size) ==
  LET len    == Aligned(size)
      blocks == Carve(h.blocks, FirstFit(h.blocks, len), len)
      free   == FreeBytes(blocks)
  IN [h EXCEPT !.blocks = blocks,
               !.minFree = Min({@, free}),
               !.peakUsed = Max({@, PoolLen - free})]

CanAlloc(h, size) == size # 0 /\ CanAllocRaw(h, Total(size))

(* alloc_ext(size).unwrap_or(0) *)
AllocPtr(h, size) ==
  IF CanAlloc(h, size) THEN RawPtr(h, Total(size)) + Header ELSE 0

(* ext_allocations.insert *)
Entered(ext, ptr, entry) ==
  [p \in DOMAIN ext \cup {ptr} |-> IF p = ptr THEN entry ELSE ext[p]]

AllocExt(h, size) ==
  IF CanAlloc(h, size)
  THEN [AllocRaw(h, Total(size)) EXCEPT
          !.ext = Entered(@, AllocPtr(h, size),
                          [raw |-> RawPtr(h, Total(size)), len |-> size])]
  ELSE h

(* Mutant of FreeExt: the entry stays, so the block can be freed again. *)
FreeExtKeepsEntry(h, ptr) ==
  IF ptr \in DOMAIN h.ext
  THEN [h EXCEPT !.blocks = FreeRaw(@, h.ext[ptr].raw, Total(h.ext[ptr].len))]
  ELSE h

(* Mutant of FreeExt: the length word is not returned with the block. *)
FreeExtForgetsHeader(h, ptr) ==
  IF ptr \in DOMAIN h.ext
  THEN [h EXCEPT !.blocks = FreeRaw(@, h.ext[ptr].raw, h.ext[ptr].len),
                 !.ext = Restrict(@, DOMAIN @ \ {ptr})]
  ELSE h

FreeExt(h, ptr) ==
  IF ptr \in DOMAIN h.ext
  THEN [h EXCEPT !.blocks = FreeRaw(@, h.ext[ptr].raw, Total(h.ext[ptr].len)),
                 !.ext = Restrict(@, DOMAIN @ \ {ptr})]
  ELSE h

(* The memory manager words as sync_memory_manager_cells writes them. *)
Snapshot(h) == [left |-> FreeBytes(h.blocks), min |-> h.minFree, top |-> h.peakUsed]

Sync == cells' = Snapshot(heap') /\ told' = heap'

-----------------------------------------------------------------------------
(* ExtHost::new, with the cells ExtBootstrap::apply seeds. *)
Init ==
  /\ heap = [blocks |-> <<[start |-> PoolStart, len |-> PoolLen]>>,
             ext |-> << >>, minFree |-> PoolLen, peakUsed |-> 0]
  /\ cells = Snapshot(heap)
  /\ told = heap
  /\ ctx = CtxInit
  /\ editText = 0
  /\ loading = FALSE
  /\ dirs = [d \in Dirs |-> NoDir]
  /\ pinned = {}
  /\ held = {}
  /\ ctxFailed = FALSE

(* What the guest may pass as a block pointer. *)
GuestPtrs == held \cup Stray

HostOnly == <<ctx, editText, loading, dirs, pinned, ctxFailed>>

(* alloc_ext, the new pointer (or 0) in r0, and the cells. *)
Grant(size) ==
  /\ heap' = AllocExt(heap, size)
  /\ held' = held \cup ({AllocPtr(heap, size)} \ {0})
  /\ Sync
  /\ UNCHANGED HostOnly

(* The block is taken, then a store through a bad pointer of the guest's   *)
(* fails: the handler returns the error before it reaches its sync.        *)
GrantThenFault(size) ==
  /\ CanAlloc(heap, size)
  /\ heap' = AllocExt(heap, size)
  /\ UNCHANGED <<HostOnly, cells, told, held>>

Malloc(n) == Grant(Max({n, 1}))

AllocGuestBlock(n) == Grant(n)

(* mr_free and mem_free. *)
Free(p) ==
  /\ heap' = FreeExt(heap, p)
  /\ held' = held \ {p}
  /\ Sync
  /\ UNCHANGED HostOnly

ReadFile(n) == Grant(n) \/ GrantThenFault(n)

MemGet == Grant(MemGetLen) \/ GrantThenFault(MemGetLen)

(* Mutant of ReallocMove: the words are written before the old block goes. *)
ReallocMoveEarlySync(p, n) ==
  /\ p # 0 /\ CanAlloc(heap, n)
  /\ heap' = FreeExt(AllocExt(heap, n), p)
  /\ held' = (held \ {p}) \cup {AllocPtr(heap, n)}
  /\ cells' = Snapshot(AllocExt(heap, n))
  /\ told' = AllocExt(heap, n)
  /\ UNCHANGED HostOnly

(* mr_realloc takes the new block first, and keeps the old one if it       *)
(* cannot.                                                                 *)
ReallocMove(p, n) ==
  /\ p # 0 /\ CanAlloc(heap, n)
  /\ heap' = FreeExt(AllocExt(heap, n), p)
  /\ held' = (held \ {p}) \cup {AllocPtr(heap, n)}
  /\ Sync
  /\ UNCHANGED HostOnly

(* The old pointer is no block, so its length comes from the word in front *)
(* of it and the copy may run off the guest's RAM.                         *)
ReallocFault(p, n) ==
  /\ p # 0
  /\ p \notin DOMAIN AllocExt(heap, n).ext
  /\ GrantThenFault(n)

(* Mutant of ReallocKeep: the old block goes although no new one came. *)
ReallocKeepFreesFirst(p, n) ==
  /\ p # 0 /\ n # 0 /\ ~ CanAlloc(heap, n)
  /\ heap' = FreeExt(heap, p)
  /\ UNCHANGED <<HostOnly, held>>
  /\ Sync

ReallocKeep(p, n) ==
  /\ p # 0 /\ n # 0 /\ ~ CanAlloc(heap, n)
  /\ UNCHANGED <<HostOnly, heap, held>>
  /\ Sync

Realloc(p, n) ==
  \/ p = 0 /\ Grant(n)
  \/ p # 0 /\ n = 0 /\ Free(p)
  \/ ReallocMove(p, n)
  \/ ReallocKeep(p, n)
  \/ ReallocFault(p, n)

(* mr_c_function_new: the previous context goes before the new one comes.  *)
ContextFreed == FreeExt(heap, ctx)

(* The new context is filled with zeros before its address is kept.  Where *)
(* a length has wrapped, the block is empty and the zeros run off the      *)
(* guest's RAM: the call fails with the block taken.                       *)
ZerosRunOff(size) == Aligned(Total(size)) < size

FunctionNew(n) ==
  LET size == Max({n, 1}) IN
  /\ CanAlloc(ContextFreed, size)
  /\ heap' = AllocExt(ContextFreed, size)
  /\ IF ZerosRunOff(size)
     THEN ctxFailed' = TRUE /\ UNCHANGED <<ctx, cells, told>>
     ELSE ctx' = AllocPtr(ContextFreed, size) /\ Sync /\ UNCHANGED ctxFailed
  /\ UNCHANGED <<editText, loading, dirs, pinned, held>>

FunctionNewFails(n) ==
  /\ ~ CanAlloc(ContextFreed, Max({n, 1}))
  /\ heap' = ContextFreed
  /\ ctxFailed' = TRUE
  /\ UNCHANGED <<cells, told, ctx, editText, loading, dirs, pinned, held>>

(* begin_plugin_ext_load and clear_plugin_ext_load; the runner always      *)
(* begins with context address 0.                                          *)
PluginLoad ==
  /\ loading' = ~ loading
  /\ UNCHANGED <<heap, cells, told, ctx, editText, dirs, pinned, held, ctxFailed>>

(* The plugin's own function_new, which keeps the previous context.        *)
PluginFunctionNew(n) ==
  LET size == Max({n, 1}) IN
  /\ loading
  /\ CanAlloc(heap, size)
  /\ heap' = AllocExt(heap, size)
  /\ IF ZerosRunOff(size)
     THEN UNCHANGED <<ctx, cells, told>>
     ELSE ctx' = AllocPtr(heap, size) /\ Sync
  /\ UNCHANGED <<editText, loading, dirs, pinned, held, ctxFailed>>

(* mr_editGetText: the host owns the text and replaces it at every call.   *)
EditGetText(n) ==
  LET h    == FreeExt(heap, editText)
      size == Max({n, 1}) + 1
  IN /\ heap' = AllocExt(h, size)
     /\ editText' = AllocPtr(h, size)
     /\ Sync
     /\ UNCHANGED <<ctx, loading, dirs, pinned, held, ctxFailed>>

OpenDir(d) ==
  /\ dirs[d] = NoDir
  /\ dirs' = [dirs EXCEPT ![d] = 0]
  /\ UNCHANGED <<heap, cells, told, ctx, editText, loading, pinned, held, ctxFailed>>

(* The first entry read takes the scratch buffer, with alloc_raw and       *)
(* without a sync; later ones use it again.                                *)
ReadDir(d) ==
  /\ dirs[d] = 0
  /\ CanAllocRaw(heap, ScratchLen)
  /\ heap' = AllocRaw(heap, ScratchLen)
  /\ dirs' = [dirs EXCEPT ![d] = RawPtr(heap, ScratchLen)]
  /\ pinned' = pinned \cup {RawPtr(heap, ScratchLen)}
  /\ UNCHANGED <<cells, told, ctx, editText, loading, held, ctxFailed>>

CloseDir(d) ==
  /\ dirs[d] # NoDir
  /\ dirs' = [dirs EXCEPT ![d] = NoDir]
  /\ UNCHANGED <<heap, cells, told, ctx, editText, loading, pinned, held, ctxFailed>>

Next ==
  \/ \E n \in Sizes :
       \/ Malloc(n)
       \/ AllocGuestBlock(n)
       \/ FunctionNew(n)
       \/ FunctionNewFails(n)
       \/ PluginFunctionNew(n)
       \/ \E p \in GuestPtrs \cup {0} : Realloc(p, n)
  \/ \E n \in DataSizes :
       \/ ReadFile(n)
       \/ EditGetText(n)
  \/ MemGet
  \/ \E p \in GuestPtrs \cup {0} : Free(p)
  \/ PluginLoad
  \/ \E d \in Dirs : OpenDir(d) \/ ReadDir(d) \/ CloseDir(d)

Spec == Init /\ [][Next]_vars

-----------------------------------------------------------------------------
(* What each party occupies. *)

BlockBytes(b) == b.start .. Finish(b) - 1
Space(blocks) == UNION {BlockBytes(blocks[i]) : i \in DOMAIN blocks}
FreeSpace(h) == Space(h.blocks)
RawBytes(a, size) == a .. a + Aligned(size) - 1
ExtBytes(h, p) == RawBytes(h.ext[p].raw, Total(h.ext[p].len))
ScratchBytes(a) == RawBytes(a, ScratchLen)

(* The host's fields have their types. *)
IsHeap(h) ==
  /\ h = [blocks |-> h.blocks, ext |-> h.ext,
          minFree |-> h.minFree, peakUsed |-> h.peakUsed]
  /\ h.blocks \in Seq(Block)
  /\ h.ext \in [DOMAIN h.ext -> [raw : Nat, len : Nat]]
  /\ DOMAIN h.ext \subseteq Nat \ {0}
TypeOK ==
  /\ IsHeap(heap)
  /\ ctx \in Nat /\ editText \in Nat
  /\ loading \in BOOLEAN /\ ctxFailed \in BOOLEAN
  /\ dirs \in [Dirs -> {NoDir} \cup Nat]
  /\ pinned \subseteq Pool
  /\ held \subseteq Nat

(* The free list is in address order, its blocks are not empty, lie in the *)
(* pool, and never touch: free_raw has merged all that can be merged, so a *)
(* request fails only if no gap is large enough (lib.rs:3928-3973).        *)
FreeListCanonical ==
  /\ \A i \in DOMAIN heap.blocks :
       /\ heap.blocks[i].len > 0
       /\ heap.blocks[i].start >= PoolStart
       /\ Finish(heap.blocks[i]) <= PoolEnd
  /\ \A i, j \in DOMAIN heap.blocks :
       i < j => Finish(heap.blocks[i]) < heap.blocks[j].start

(* No byte of the pool has two owners: blocks in use, directory scratch    *)
(* buffers and free blocks are pairwise disjoint, whatever pointers the    *)
(* guest passes to free and realloc.                                       *)
NoOverlap ==
  /\ \A p, q \in DOMAIN heap.ext :
       p # q => ExtBytes(heap, p) \cap ExtBytes(heap, q) = {}
  /\ \A a, b \in pinned : a # b => ScratchBytes(a) \cap ScratchBytes(b) = {}
  /\ \A p \in DOMAIN heap.ext : \A a \in pinned :
       ExtBytes(heap, p) \cap ScratchBytes(a) = {}
  /\ \A p \in DOMAIN heap.ext : ExtBytes(heap, p) \cap FreeSpace(heap) = {}
  /\ \A a \in pinned : ScratchBytes(a) \cap FreeSpace(heap) = {}

(* No byte of the pool is lost: what is not free is in a block in use or   *)
(* in a scratch buffer, and neither reaches outside the pool.              *)
NoLostByte ==
  Pool = FreeSpace(heap)
           \cup (UNION {ExtBytes(heap, p) : p \in DOMAIN heap.ext})
           \cup (UNION {ScratchBytes(a) : a \in pinned})

(* The bytes a pointer promises lie inside the block the host recorded for *)
(* it, behind the length word.                                             *)
PromisedBytesOwned ==
  \A p \in DOMAIN heap.ext :
    /\ p = heap.ext[p].raw + Header
    /\ p .. p + heap.ext[p].len - 1 \subseteq ExtBytes(heap, p)

(* A block the guest was given stays its own until it gives it back, even  *)
(* though the host frees blocks of its own (the edit text, the context)    *)
(* between the guest's calls.  It holds for a guest that frees only what   *)
(* it holds, and up to the first mr_c_function_new that runs out of        *)
(* memory: that one frees the context and keeps its address (lib.rs:3223). *)
HeldBlocksLive ==
  Stray = {} /\ ~ ctxFailed => held \subseteq DOMAIN heap.ext

(* The host never holds on to a block it has freed, under the same         *)
(* provisos: edit_text_ptr and mr_c_function_p_addr are blocks in use, of  *)
(* which the guest holds neither.                                          *)
HostBlocksLive ==
  Stray = {} /\ ~ ctxFailed =>
    /\ editText = 0 \/ editText \in DOMAIN heap.ext \ (held \cup {ctx})
    /\ ctx = CtxInit \/ ctx \in DOMAIN heap.ext \ held

(* No party's pointers dangle and no two parties share a block, though the *)
(* host frees blocks behind the guest's back and the guest between the     *)
(* host's calls (mr_editGetText, mr_c_function_new, mr_realloc).           *)
BlocksLive == HeldBlocksLive /\ HostBlocksLive

(* The bytes of the block that a pointer is to, if it is to one. *)
BlockAt(h, p) == IF p \in DOMAIN h.ext THEN ExtBytes(h, p) ELSE {}

(* By how much the memory words may be wrong, however many calls have      *)
(* returned since they were written (lib.rs:3228, 4117 and 4469 return     *)
(* without a sync).  They hide no free byte but those of a context that a  *)
(* failing mr_c_function_new has freed.  And they never count as free a    *)
(* byte of a block that the guest, the edit text or the context holds,     *)
(* under the provisos of BlocksLive: what they count as free and is not is *)
(* a directory's scratch buffer, or a block that a fault has orphaned.     *)
WordsHideOnlyContext ==
  FreeSpace(heap) \ FreeSpace(told) \subseteq BlockAt(told, ctx)
WordsOfferOnlyOrphans ==
  Stray = {} /\ ~ ctxFailed =>
    \A p \in held \cup {editText, ctx} : BlockAt(heap, p) \cap FreeSpace(told) = {}
MemoryWordsHonest ==
  cells = Snapshot(told) /\ WordsHideOnlyContext /\ WordsOfferOnlyOrphans

-----------------------------------------------------------------------------
(* The blocks in use, keyed by their first byte, for the abstract pool. *)
InUse ==
  [a \in {heap.ext[p].raw : p \in DOMAIN heap.ext} \cup pinned |->
     IF a \in pinned THEN ScratchBytes(a) ELSE ExtBytes(heap, a + Header)]

Promise == INSTANCE BlockPool WITH grants <- InUse

(* Seen through InUse, the heap is a pool of byte ranges of which each     *)
(* call gives back at most one and takes at most one.                      *)
PoolPromise == Promise!Spec

=============================================================================
