# Verification of vmrp-rust

vmrp-rust runs MRP packages (ARM programs for the Mythroad platform of feature
phones) on a desktop. This directory holds TLA+ modules of its host side and of
its processor, the TLC configurations that check them on small instances, and
theorems that TLAPS checks for every size. Definitions keep the names of the
source where TLA+ allows it; every operator's comment says which function it
stands for.

`lib.rs` below is `src/crates/vmrp-platform/src/lib.rs`, `main.rs` and
`presenter.rs` are in `src/apps/vmrp-windows/src/`, `execute.rs` and `decode/` in
`src/crates/vmrp-cpu/src/`.

## 1. Inventory

One thread runs everything: the runner steps an ARM interpreter, and when the
guest's program counter is the address of a host function the host executes it
whole, puts the answer in r0 and returns to the guest. Concurrency comes from
outside: the user at the window, the clock, network peers, the file system.
Failure comes from the guest's pointers (every access to guest memory can
fault, in the middle of a call), from the system (presenting a frame, a
socket), and from budgets (a stage has a limit of steps).

| component | state | operations | hard part | what makes it correct | modelled |
|---|---|---|---|---|---|
| Guest heap (`lib.rs` 3213-4056) | free list, blocks in use, context and edit text pointers, three memory words in the guest | malloc, free, realloc, readFile, mem_get/free, function_new, editGetText, scratch of readdir | three owners (guest, host, directories), two levels of allocation, u32 arithmetic | no byte has two owners, none is lost, the words do not lie | `HostHeap`, `BlockPool`, `HostHeapProofs` |
| Runtime (`vmrp-runtime`) | clock, one-shot timer, event queue | start/stop timer, sync, poll, push, pop, run_stage | a timer that expires while something else happens | one delivery per start, never early, none after a stop | `RuntimeLoop`, `RuntimeLoopProofs` |
| Runner loops (`main.rs` 1154-1480) | budgets, idle polls | run_loop, drains, drive_runtime_events | who ends the loop, and when | events served in order, the closing told, the runner ends | `RuntimeLoop`, `RuntimeLoopProofs` |
| Host timers, exit, application events | command slot, event queue, exit flag | TimerStart/Stop, exit, sendAppEvent | slots drained between steps | nothing is left in a slot | `RuntimeLoop`, `RuntimeLoopProofs` |
| Window presenter | closed flag, pending events, pixels | present, pump, take_guest_events | the user acts at any time; presenting can fail half way | events of the window are not lost; the copy shows the region | `RuntimeLoop`, `Screen` |
| ARM/Thumb interpreter (`vmrp-cpu`) | registers, CPSR, memory | step: fetch, decode, execute | overlapping encodings, flags, shifter, alignment, mode switches, faults half way | conditions mean what was compared, calls return, a fault moves nothing | `Alu`, `Decode`, `CpuArm`, `CpuThumb`, `GuestMachine` and proofs |
| C library calls (`lib.rs` 3357-3637) | none but the guest's memory | memcpy to strstr, strcoll, memset, sprintf | overlaps, ends of memory, bytes that are no UTF-8 | what the C standard says, and no byte elsewhere changes | `HostStrings`, `GuestMachine` and proofs (without numbers) |
| Host network (`lib.rs` 2592-3211) | flag, socket table, counter | init/close network, socket, connect, state, close, recv, send, recvfrom, sendto | sockets are taken out of the table during a call; peers | handles, streams, states | `HostSockets`, `SocketLives`, `HostSocketsProofs` |
| Host files (`lib.rs` 954-1195, 1852-1982, 4190-4421) | handles, package, disk | open, close, read, write, seek, info, len, remove, rename, mkdir, rmdir | two tables with copies of the code; package before disk; faults half way | reads follow each other, lookups agree, handles stay dead | `HostFiles`, `HostFilesProofs` |
| Host directories (`lib.rs` 1197-1249, 1984-2026, 4422-4497) | handles with a snapshot and a cursor | findStart, findGetNext, findStop, opendir, readdir, closedir | cursor moves before the answer is stored | each entry once, the end only at the end | `HostDirs`, `HostDirsProofs` |
| Host screen (`lib.rs` 2028-2267, 4516-4909) | pixel buffer, dirty region | drawing calls, dispUpEx, take_dirty_region | clipping, overflowing sums, faults half way, two tables | what is painted gets presented | `Screen`, `ScreenProofs` |
| Runner bootstrap (`main.rs` 443-1068) | stages, answers of the guest, the registered helper | run_mrp: legacy, bridge and plugin paths | a stage may end anywhere and r0 is read all the same; two exts register at one host | the report is earned, the helper called is the one registered for it | `Bootstrap`, `BootstrapProofs` |
| Host UI objects (`lib.rs` 2278-2521) | maps from counters to strings | menu, dialog, text, edit, window | none: nothing else reads them | - | no |
| Call dispatch, tables, layout | constants | ExtBootstrap.apply, handle | constant data | - | no |
| Package and image parsers (`vmrp-abi`) | none | pure functions on bytes, called once before the guest starts | offsets and lengths from a file | - | no |

How they interact: `run_loop` drains the host's UI (takes the dirty region,
presents it, takes the window's events into the runtime's queue), drains the
host's runtime requests (timer command, application events), polls the timer,
and then lets the host or the interpreter take one step. `drive_runtime_events`
pops one queued event, writes it into guest memory and runs the guest's helper
as a stage; with no event it sleeps and polls. `mr_readFile` and `readdir`
take heap blocks; `close_network` clears the socket table.

`PROJECT.json` lists the hazards of this code with their lines; each names the
property that covers it, or says why none does.

## 2. The modules

A host call is one action, faults included: the caller is stopped until it
returns. Parameters are constants with named assumptions, `TypeOK` is the one
type invariant of a module, and fields called *history* in a declaration are
not in the code: they remember what a property speaks about. Only two of them
steer anything: `held` in `HostHeap`, as a well-behaved guest frees only what it
holds, and the count of marked events in `RuntimeLoop`, which is a bound.
A module named `MC...` gives the constants of another the values that a
configuration cannot write down; the others are run as they are.

### HostHeap, BlockPool, HostHeapProofs

`heap` is `heap_blocks`, `ext_allocations`, `memory_manager_min_free` and
`memory_manager_peak_used`; `cells` the three words in the guest's mr_table;
`ctx`, `editText`, `loading`, `dirs` the fields of the same meaning. The
allocator is pure operators (`Carve`, `FreeRaw` with its two merges, `AllocExt`,
`FreeExt`), with the code's u32 arithmetic (`AlignUp` wraps, `Total` saturates);
each host function that uses it is an action, including the path on which
`mr_realloc` fails and the one on which `mr_c_function_new` has freed the old
context before it finds no memory for the new one. The directory scratch
block is taken below `ext_allocations` and is never given back, as in the code.
Some calls return without writing the memory words: that block's, a
`mr_c_function_new` that finds no room, and every fault. `told` is history: the
heap as the words tell of it.
A guest may pass a pointer it holds or, with `Stray`, any address, the host's
own blocks included; the run leaves `Stray` empty, the proofs allow any.

`BlockPool` says what an allocator promises: each call gives back at most one
range and takes at most one that is free. `HostHeap` implements it through
`InUse` (property `PoolPromise`).

### RuntimeLoop, RuntimeLoopProofs

`rt` is the Runtime (deadline relative to now, lag of the cached clock behind
the wall clock, queue), `host` the slots of ExtHost that the loop drains, `win`
the presenter with the system's message inbox, `ctl` where the runner is and the
locals of its loops. The actions follow the order of the code: head of
`run_loop` (drain UI, drain requests, sync, poll, the three checks), one host
or guest step, the end of a stage, the pop, the idle poll with its sleep,
`should_keep_waiting_for_host_events`. The user types and closes, and time
passes, between any two of them. Sleep in the idle poll is cut to the time left
to the timer. A failing `present` stops a stage half way through a drain.

### Alu, Decode, CpuArm, CpuThumb, GuestMachine, MCGuest, GuestMachineProofs

`Alu` has the words, flags, shifter and conditions; `Decode` the decoder, with
the tests in the order of the code as several encodings overlap; `CpuArm` and
`CpuThumb` one action per variant of `DecodedInstruction`; `GuestMachine` the step
of run_loop: the host's function if the pc is one, else one instruction, until
the pc is null or something faults.

A word has four bytes of `ByteBits` bits, three in the run: addresses, the steps
of the pc and alignments are those of the code while a word has 4096 values.
Encodings are the real ones, as sequences of hexadecimal digits; an *image* gives
the opcode at an address instead of four bytes of memory, so a program that
writes its own code is not modelled, and a jump to where the image has no code
ends as `wild`. `MCGuest` holds the programs: functions in both modes that
call each other, themselves and the host; single instructions on the words at
the edges; and the C library on small strings. `begun` and `told` are history:
the machine at the start, and the operands of the last sum or comparison.

### HostStrings

The C functions as operators from the memory and r0 to r3 to the memory and r0
they leave, or the error after which part of the bytes may be written. Of the
bytes there are the eight that the functions tell apart; `Lossy` is what
`String::from_utf8_lossy` does to a sequence of them. `TextLimit` stands for the
4096 bytes after which the host stops reading a string. `StringsLikeC` compares
them with the C standard, written down apart in `Wanted`, `Copied` and
`Answers`, call by call. Loops are closed forms: where the loop first stops
(`FirstOf`) and what a byte of the source is by then (`Source`), as a copy over
itself reads what it has written. A text is taken to be shorter than a word can
count, so that each of its bytes is written at an address of its own.

### HostSockets, SocketLives, HostSocketsProofs

`ready`, `next` and `sockets` are `network_ready`, `next_socket_handle` and
`legacy_sockets`; `links` is the environment, the streams peers have accepted,
with what was sent and not yet read. connect, recvfrom and sendto take the
socket out of the table, and put it back on each of their paths. recv waits 500
ms at most: a timeout and the end of a stream answer the same. `SocketLives`
is the abstract life of a handle: unused, idle, bound to one endpoint, gone.

### HostFiles, HostFilesProofs

`files` and `next` are the fields; the disk is places (what is at each path)
and the lengths of files, which live on while a handle is open. Names are
spellings: one is in the package as it is, one only after trimming `./`, one
means the same place on the disk only, one is the guest's own. A read of a
packaged file moves the cursor after the last store, a read of a disk file
before the first; both are actions with the fault in them. A read past the end
of a packaged file panics (see findings).

### HostDirs, HostDirsProofs

`dirs`, `next` are the fields; `present` is what is on the disk, which anyone
changes at any time. The order of entries is any order. findGetNext and readdir
move the cursor before they answer, so a fault, or in readdir a lack of memory
for the scratch block, eats an entry. The list of a new handle leaves out, in
silence, what is not Unicode (`Nameable` is what is) and whatever the disk gives an error
for, which may be any of the rest (`Readable`); `found` and `dropped` remember
what there was and what was left out.

### Screen, ScreenProofs

`dirty` is `dirty_region`; of the pixels only whether the window lacks them
(`stale`) is kept. Each drawing call paints pixels and marks a region as the
code computes it, in i32 arithmetic with the code's saturating and wrapping
sums (a release build) and u16 sizes. drawTextEx is a loop of one action per
character. The blits may fault at any pixel and leave what came before it
painted and unmarked (`torn`); `mixed` remembers that the guest has called the
DSM bitmap function, which replaces the region. That function paints with u32
sides and marks with them cut to u16, so a bitmap may paint more than it marks:
`wide` remembers one that no region can describe together with the screen. `Present` is drain_host_ui with
the copy of the presenter. A presenter that fails ends the runner's stage and
is in RuntimeLoop.

### Bootstrap, BootstrapProofs

run_mrp as a script of stages (`Script`, one for each kind of package): in a
stage the guest computes, registers helpers, asks to exit and returns, and the
stage may end with any of its stop reasons; between two stages the runner reads
what it needs (`ext_helper_addr`, r0) and sets up the next call, or fails and
returns an error. `host` and `cpu` are the two fields of each that are read;
`first`, `own`, `dsm`, `start` and `stages` are the locals of run_mrp, of which
`stages` keeps what run_ok can tell apart. The stages of drive_runtime_events
are any number of repetitions of the last place in the script; its loop is
RuntimeLoop, where in turn the bootstrap is a number of stages. `hung` and
`told` are history: where the guest's code did not come back, and what it
returned.

## 3. What the runs check

All passing runs are exhaustive; the longest takes two minutes on two workers.

| run | question | bounds and why they are enough |
|---|---|---|
| `heap_guest` | A guest that frees what it holds: canonical free list, no byte with two owners or none, promised bytes owned, blocks of guest and host live, memory words that do not lie, also after calls that do not write them, and the refinement of `BlockPool` | 24 bytes are three units of 8: two merges around a block, first fit among gaps, exhaustion. Sizes 0 and 5 cover the empty request and one of two units with its header; 3, one unit with its header, is what the host fills itself, and a mem_get takes all there is. One directory handle is enough as scratch blocks never come back. |
| `loop_safe` | The timer is as commanded and never early, only long timers are dropped; events arrive in order, once, none lost, and the closing is told | delays 0, 1 and 3 against sleeps of 1 and two idle polls: immediate, within and beyond the patience; two marked events of each source, which stand for any choice of events as the loop looks at no tag; two events in flight |
| `loop_live` | Events are served in the end; the runner ends after exit with no window | delays 0 and 1, one marked event of each source; under fairness, below |
| `guest` | Conditions answer for the words compared last, calls come back with the promised results in both modes and through the host, shifts are those of the integers, a fault moves nothing, the C library does what the C standard says | twelve-bit words with the edges 0, 1, 5, 2047, 2048, 4095 as operands; shift amounts below, at and above the width; accesses inside, across and behind the end of memory; strings that overlap, end at the end of memory or have no end, and limits of length from zero. Deadlock is off, as a stage ends. |
| `strcpy` | violation, see findings | the same |
| `sockets` | Types, one stream per reading, failure told, sockets put back, and the refinement of `SocketLives` | two handles, two bytes of each stream: reuse of a number, a second connect, a read in two parts |
| `files` | Reads deliver each byte once, lookups agree with each other and with the length told, handles live once | two handles, two places, spellings as above, positions to 3: reads at, before and after the end. Deadlock is off because a panic ends the runner. |
| `files_past_end` | violation, see findings | the same |
| `dirs` | A listing is a snapshot, each entry at most once, the end only after the last | two handles, three entries that come and go, of which one is not Unicode, all orders, any entry lost to the disk |
| `screen` | Both tables: painted pixels are in the region but for what a DSM bitmap replaces and a fault leaves, until one is too large for a region; without the DSM table the region lies on the screen | 2 x 2 pixels, positions beside and on the screen, lengths -1, 1, 2 and 7, the last one so long that sums with it overflow (IntMax 7); DSM bitmaps of sides 3 and 5 where u16 ends at 3: one that fits a region, one that does so but not together with the screen, one that is cut; texts of two characters that break lines |
| `screen_forgets` | violation, see findings | 3 x 2 pixels |
| `bootstrap` | A good report is earned, a package's helper is registered in its load only and never missing | none but the four values r0 is compared with: every script, any number of calls and events |

Fairness. `FairSpec` of RuntimeLoop is weak fairness of the runner's own step
and of the clock. The runner is one thread that never blocks but in
`thread::sleep` with a bounded time (`main.rs` drive_runtime_events), and time
passes; nothing is asked of the user or the guest: a guest that runs for ever
spends its stage's budget.

Bounds in guards are named constants: `MaxQueue`, `MaxMark` (RuntimeLoop),
`MaxHandle`, `MaxBytes` (HostSockets), `LastFd`, `LastNode`, `MaxPos`
(HostFiles), `LastHandle` (HostDirs), `MaxChars` (Screen). The handle bounds
stand for the counters' saturation at i32::MAX, which takes 2^31 opens. The
programs of `MCGuest` bound themselves: each ends.

## 4. What is proved

| module | theorem | states |
|---|---|---|
| HostHeapProofs | `TypesKept`, `FreeListStaysCanonical`, `BlocksNeverOverlap`, `BytesNeverLost`, `PromisesCovered`, `BlocksStayLive` | `Fitting => (Spec => []P)` for P = TypeOK, FreeListCanonical, NoOverlap, NoLostByte, PromisedBytesOwned, BlocksLive |
| HostHeapProofs | `HeapKeepsPromise` | `Fitting => (Spec => PoolPromise)`, the refinement of BlockPool |
| HostHeapProofs | `WordsStayHonest` | `Fitting => (Spec => []MemoryWordsHonest)` |
| RuntimeLoopProofs | `LoopTypes`, `TimerStaysAsCommanded`, `TimersNeverEarly`, `OnlyLongTimersAreDropped`, `ClosesAreTold`, `EventsStayInOrder` | `Spec => []P` for P = TypeOK, TimerAsCommanded, OnlyLongTimersDropped, CloseIsTold, EventsInOrder, and `Spec => NeverEarly` |
| RuntimeLoopProofs | `EventsAlwaysComeNearer`, `EndAlwaysComesNearer`, `SleepsComeToAnEnd` | the rankings that EventsServed and ExitEnds rest on: each step of the runner dispatches a waiting event, or ends an exited runner, or lessens a measure, and nothing else adds to it; a sleep ends by the clock alone |
| HostSocketsProofs | `SocketTypes`, `DownMeansEmpty`, `StreamsReadInOrder`, `FailuresAreTold`, `SocketsStay`, `HandlesImplementLives` | the properties of run `sockets`, the refinement included, and that a network that is down has no sockets |
| BootstrapProofs | `BootTypes`, `ReportsAreEarned`, `HelpersStayRegistered` | `Spec => []P` for P = TypeOK, ReportEarned, HelpersAsRegistered |
| ScreenProofs | `ScreenTypes`, `NothingForgotten`, `RegionOnScreen`, `AllAccountedFor` | TypeOK; StaleIsDirty as long as the DSM table is not called; DirtyOnScreen; StaleIsAccountedFor, with both tables |
| HostFilesProofs | `FileTypes`, `CursorsFollow`, `LookupsAlwaysAgree`, `HandlesNeverReturn` | `Spec => []P` for P = TypeOK, ReadsFollow, LookupsAgree, and `Spec => HandlesLiveOnce` |
| HostDirsProofs | `DirTypes`, `WalksASnapshot`, `NoEntryPassedOver` | `Spec => []P` for P = TypeOK, ListsASnapshot, EndIsTheEnd |
| GuestMachineProofs | `ComparisonTells`, `AdditionTells`, `AddWithCarryTells` | after a comparison or a sum the conditions are the relations of its operands, for words of any width |
| GuestMachineProofs | `ConditionsAlwaysMean`, `FaultsAlwaysStay` | `Spec => []ConditionsMean` and `Spec => FaultsStay`, for any images and memories and words of any width |
| GuestMachineProofs | `TypesHold`, `ShiftsAreExact` | `Spec => []TypeOK` and `Spec => ShiftsExact`, for the same |
| GuestMachineProofs | `StringsAreC` | `Spec => StringsLikeC`, for any memory that leaves the null address out, any arguments and any limit on the length of texts |
| GuestMachineProofs | `PushesAlwaysFrame`, `PopsAlwaysTakeFrame`, `FramesMatch` | what CallsReturn rests on, for any program: a push makes the frame that a pop of the same registers takes back, with the pc in the place of lr, and neither changes another register (but the pc) or byte |

Assumptions are the ASSUMEs of the modules (`PoolAssumption`,
`RequestAssumption`, `NameAssumption`, `LimitAssumption`, `HandleAssumption`,
`FileAssumption`, `DirAssumption`, `ScreenAssumption`, `NoneAssumption`, `KindAssumption`, `WordAssumption`,
`PowersAssumption`, `CpuAssumption`, `ImagesAssumption`, `StartsAssumption`,
`MachineAssumption`), which TLC evaluates in the runs, and the hypotheses that
stand in the theorems. `PowersAssumption` is the recursion of the powers of two,
of which the prover knows nothing; `StartsAssumption` says that a program starts
with words in its registers and bytes in its memory, and that no byte is mapped
at the null address (the memory of the runner begins at CODE_ADDRESS). `Fitting` says that every requested size
rounds up without wrapping; section 5 says what happens otherwise, and
`screen_forgets` what happens with the DSM table.

The arguments:

* **Heap.** `HeapInv` says where each byte is: the free list is sorted with gaps
  between blocks, every block in use is aligned and as long as the rounding of
  its length, and free blocks, blocks in use and scratch buffers partition
  the pool. None of the checked invariants is inductive alone: that a freed
  block overlaps no free one needs NoOverlap, that merging keeps the list
  canonical needs both neighbours, that no byte is lost needs the recorded
  length to round to what was carved. Lemmas on Carve, insertion and the two
  merges say which bytes the list covers before and after; the actions are
  compositions of AllocExt and FreeExt, so the step is proved once for each.
* **Refinement of the pool.** `Uses` is InUse of any heap. An allocation adds a
  range outside all others, a free drops one, and the other calls compose the
  two; `DropAfterAdd` lets realloc, which allocates, copies and frees, be the
  one step of BlockPool that gives back a range and takes another.
* **Memory words.** `MemoryWordsHonest` compares two heaps, the one there is and the
  one the words were written for (`told`). Alone it is not inductive: a failing
  mr_c_function_new frees the context of now, which need not be a block the
  words know. `HonestInv` adds that every block in use is one they know, or lies
  where they see free bytes or the context. A call without a sync takes
  from the free list only, so what it takes overlaps no block that was held
  (`QuietHonest`, `FaultHonest`, `ReadDirHonest`), and what the failing call frees
  lies where the words see the context or free bytes (`ContextLostHonest`). A
  sync makes the two heaps one again (`SyncHonest`).
* **Loop.** `LoopInv` has five parts that the properties do not state.
  `PlacesAgree`: where the runner came from decides what it has done.
  `TimeAddsUp`: what has passed since timerStart and what is left make what was
  asked, the lag of the clock counted in both - unless all that time has reached
  Horizon, past which no comparison tells it. `IdleAddsUp`: at each place of the
  loop the time left and the sleeps so far make at most what was asked; waking
  up pays for one sleep, giving up has paid for step_limit of them.
  `QuitTold` and `NothingPending`: the closing is in the presenter, in the queue
  or told, and the first two are empty when the loop is left. Each step is first
  reduced to one of a few moves of clock, window and place (`Moves`,
  `CtlMoves`), and the parts are kept by the moves.
* **Order of events.** `Way` puts the four places of an event on its way behind
  one another: the queue, the host's slots, the presenter's list, the system's
  inbox. EventsInOrder then says of each source that what was seen and the marks
  along the way count up without a gap. A step leaves the way as it is, drops
  its first, or puts one event in: a mark of its source behind all others of
  it, or an event without a mark anywhere (`Inserted`). `MailInv` adds that the
  window holds the user's events only, and that it is closed once.
* **Progress of the loop.** An event with a mark is as far from its dispatch as
  the stages before its own (`Turns`: those of the events before it on its way,
  one more while it is not yet in the queue, as another may be queued before it
  is drained, and those of the start), and then the steps to the next dispatch
  (`Steps`: up to two for each step left of a stage's budget, and the way
  around the loop). An exited runner is as far from its end as the stages that
  may still come (`ToDo`, the armed timer's included), then the idle polls it
  has patience for (`Naps`, one more after a stage as its count starts anew), then
  the steps to the next of either (`Hops`). Besides LoopInv this needs `Calm`:
  between two steps nothing waits to be presented, a window that is not open
  has no messages, and a guest that has called exit is not stepped. All
  measures are natural numbers, so a runner that steps for ever (fairness of the
  runner, and of the clock while it sleeps) cannot leave an event waiting.
* **Sockets.** `SockInv` adds to the properties that endpoints are known and
  apart (no two sockets share one), that handles not given out yet have
  no history, and that handles in the table are below the counter. Calls
  fall into seven forms (answer only, bind, read, refuse, close, the
  network, the peer), and each conjunct is kept by each form. `PutBackInv` follows
  the handles through the same forms: only a close and the end of the network
  take one out of the table for good. The refinement maps a table and counter to
  the life of every handle.
* **Files.** `FileInv` is the types, ReadsFollow and the part of LookupsAgree that is
  about handles (`Told`); the part about names follows from the types. The calls
  are moves of one cursor (`MoveKeeps`), new handles (`OpenedKeeps`), and changes of
  names (`PlacesKeep`); a write or a truncating open is the hard case, as one
  call changes what every handle to the same file sees: the promise of each
  such handle is taken back in the same step, and a file made new has no
  handle yet because handles are to files that have a length.
* **Directories.** ListsASnapshot says nothing of how far a handle has come, so
  it is not kept by a step alone. `Fine` ties the two: the list names each entry
  that was not left out once, and what was given and what was lost through the handle
  are, without overlap, exactly the entries before the cursor. A step of the
  cursor gives or loses the next entry, which is therefore in neither; at the end
  of the list the entries before the cursor are all of them. Handles are given
  out in order (`Unused`), so a new one has no history; of a closed one only
  what the properties say is kept.
* **Screen.** As long as the DSM table is not called the region, if any, lies on
  the screen. Then no sum in the union overflows, so a union covers both parts
  (`JoinedCovers`) and a marked rectangle is covered as far as it is on the screen
  (`MarkedCovers`). Each call then only has to paint inside what it marks;
  where `x + w` wraps around in fill_screen_rect it paints nothing. With the DSM
  table the region keeps within a bound instead, which is all the union needs:
  that of the last DSM bitmap and the screen (`AroundBitmap`), as a bitmap does
  not join the region but replaces it. Its loops paint that rectangle and no more as
  long as it fits (`DsmBitmapIsBox`).
* **Bootstrap.** ReportEarned is not inductive, as it speaks of the end only.
  `BootInv` follows the two answers on their way: once the guest has returned
  in the stage of an event, r0 is what it told (`DsmTold`, `StartTold`), and
  at the end of a stage that leaves NoFaults true it has returned, as the only
  other stop NoFaults allows is the exit, or the budget of the last stage.
  NoFaults never comes back once it is lost, so each of these facts is only
  claimed while the run is unspoiled. The place of each label in the script
  (`ScriptPlaces`) turns the script into arithmetic on `at`.
* **Processor, flags.** The flags are compared with the signed and unsigned values of
  the operands by cases on the two signs (`ComparisonTells`, `SumTells`); the invariant then only
  needs that each instruction writes all four flags and `told` together, or
  neither, or clears `told`.
* **Processor, types.** `MachineInv` is the types and what the program started with.
  That a step keeps it needs that the decoders give each class the fields that
  its handler reads (`ArmOK`, `ThumbOK`), that shifter, sums and loads give words
  - for which the digits of an opcode and the bytes of an access are sums over a
  set - and that every C function leaves bytes and answers with a word
  (`Outcome`). The library's sums and folds are recursions over the subsets of an
  interval. `FoldExists` and its like show that such a function exists, by
  taking the least number where it would fail, so that no induction rule is used.
* **Processor, shifts.** `MachineInv` gives words and the kinds of shifts; the rest is
  arithmetic of quotients and powers, kind by kind: bit n - 1 of the word is the
  last bit shifted out (`LeftExact` to `RotateExact`), an amount beyond the width
  shifts out nothing but zeros or signs, and no amount is the carry's turn.
* **C library.** `StringsAreC` speaks of every call by itself, and of the state
  only needs MachineInv. What is mapped from an address on does not go round,
  as the null address is not mapped (`NoWrap`), so the wrapping addresses of
  the code are those of the standard. A loop runs to its first stop: `FirstNone`
  and `FirstAt` say which that is when the arguments are as wanted, `WrittenOverlay`
  that the bytes written are the overlay of the standard, `WithinIs` that nothing
  else changes when they are not. from_utf8_lossy and sprintf are folds: the
  state after k bytes is a function of the text up to k (`ReadUpTo`, `FormatAt`),
  which each byte extends. A comparison answers by the first difference, which
  makes the sign of the difference of two bytes the lexical order (`Lexical`).

* **Frames of functions.** The words of a list of registers have different
  bytes, wherever the frame lies and also where it goes round the end of the
  address space (`FramesApart`), so each byte of the frame is written for one
  register, and four of them read as the word that was written
  (`BytesMakeWord`, `FrameWritten`). PUSH counts its addresses down from the old
  stack pointer, POP up from its own; `DownIsUp` says that these are the same.
  A push lists lr and the pop that returns lists the pc: both are the highest of
  their list, so they have one slot (`FramesMatch`).

Only model-checked: `EventsServed` and `ExitEnds` themselves, as the step from
weak fairness to "a step is taken" needs ENABLED, which is out of the prover's
reach - that each step then counts is proved; and `CallsReturn`, which is a
promise of each of the programs in MCGuest, not of every program - that a frame
comes back as it was pushed, if no store lies in it, is proved of every program.
`StrcpyCopies` and the other properties of the runs that expect a violation do
not hold.

`tlapm` checks GuestMachineProofs in about fourteen minutes from nothing,
RuntimeLoopProofs in about seven, each other module in less than four.

## 5. Findings

Shown by a run:

* `files_past_end`: a read after a seek past the end of a packaged file
  panics (`lib.rs` 1048 and 4292).
* `screen_forgets`: a bitmap of the DSM table replaces the dirty region of what
  was drawn before it (`lib.rs` 4544).
* `strcpy`: handle_strcpy takes its string through `String::from_utf8_lossy`
  (`lib.rs` 3398 and 5551), so a GBK text is copied as other bytes and more of
  them. sprintf and strstr read their strings in the same way.

Read off the models, where a property had to be stated so as to allow for it:

* A guest that exits while its window is open leaves the runner polling for
  ever (`main.rs` 1364): drive_runtime_events does not look at exit_requested.
  docs/superpowers/plans/2026-03-28-vmrp-phase1-compatibility.md:149 says "stop
  cleanly on guest exit or null PC". Hence the open window in `ExitEnds`.
* While the queue is not empty the runner does not look at `--runtime-ms`
  (`main.rs` 1375).
* The errors for a package's ext without a helper (`main.rs` 732 and 839) cannot
  arise, as the helper of cfunction.ext is still registered; it is then called
  as the package's own (`HelpersAsRegistered`).
* A start_dsm that returns MR_FAILED with the last step of its budget is
  reported as a running package (`main.rs` 1053), see `ReportEarned`.
* A request within 7 of 2^32 wraps to a block of no bytes (`lib.rs` 3907 with
  align_up), so the guest gets a pointer for a length that leaves the region,
  and the next request the same address. The runs ask for sizes that do not
  wrap, and the theorems assume it (`Fitting`).
* A timer that has expired into the queue survives TimerStop
  (`vmrp-runtime/src/lib.rs` 60): `TimerAsCommanded` speaks of the armed timer
  and of the number of events, not of their dispatch.
* A timer counts from the clock at the last sync, not from timerStart itself
  (`vmrp-runtime/src/lib.rs` 57): `NeverEarly` counts what the clock lagged.
* With a timer armed that is longer than all idle polls the runner ends
  although the window is open (`main.rs` 1328): `OnlyLongTimersDropped` gives the
  bound below which this cannot be.
* `mr_c_function_new` that runs out of memory keeps the address of the context
  it has freed (`lib.rs` 3223): hence `ctxFailed` in `BlocksLive`.
* Such a failing call, the first readdir of a handle (`lib.rs` 4469) and every
  fault return with memory words of before: `MemoryWordsHonest` says how far
  these may be off. The new context's zeros are written before its
  address is kept (`lib.rs` 3233), so a length that wraps faults there
  (`ZerosRunOff`); the run and the theorems ask for no such length.
* A blit that faults half way leaves painted pixels that no region has
  (`lib.rs` 4736), the `torn` ones.
* A DSM bitmap of more than 65535 pixels a side is painted whole and marked with
  what is left of the side as u16 (`lib.rs` 4547). One that starts so far beside the
  screen that it and the screen span more than that is joined, by the next
  mark, to a rectangle that is cut in the same way. Hence `wide` in
  `StaleIsAccountedFor`.
* A listing leaves out entries whose names are not Unicode, or that the disk
  errs on, and nobody is told (`lib.rs` 1202 and 4429): hence `dropped` in
  `EndIsTheEnd`. A guest whose names are GBK meets this on a disk that has them so.
* The decoder takes SWP and MRS for TST, CLZ and MSR of an SPSR for CMN; TEQ,
  SBC and RSC, most of Thumb's ALU operations and its loads of signed bytes and
  halfwords end the stage as unimplemented. A data-processing instruction with
  an immediate and rn = 15 reads the address of the instruction, not eight more;
  Thumb's ADD of eight bits leaves C and V as they were; its BLX to a register
  always goes to ARM mode; LDM with write-back and the base in its list writes
  the base back over what it has loaded. The programs of the run keep to
  instructions that the decoder has.
* The C functions stop reading a string after 4096 bytes, and sprintf prints a
  "%" at the end of a format twice: hence `IsText` and `IsSimpleFormat` in `Wanted`.
* connect on a datagram socket that sendto has bound sets no peer (`lib.rs`
  2711); a write to a packaged name makes a disk file that a later open for
  reading does not see (`lib.rs` 976); the handle counters saturate at i32::MAX
  and then give out one handle again (`lib.rs` 979, 1205, 2631).

## 6. Not modelled, and why

* `ExtHost::reset_alloc` (public, never called) and `Runtime::advance_time` (unit
  tests only); UI objects (no other code looks at them).
* Data: the contents of files, datagrams, texts, bitmaps and glyphs, pixel
  conversion, the translation of keys and pointers in the presenter, logging and
  traces.
* Conversions of numbers: atoi, strtoul, `%d` and `%x` of sprintf, rand, and the
  length of a wide string.
* The test commands of mr_testCom, which read and write single words of the
  guest, but for number 405, which is `CloseNetwork` of HostSockets.
* Call dispatch and the table of addresses: constants, compared with the pc.
* The parsers of `vmrp-abi`: pure functions from the bytes of a file to a record,
  called before the guest starts, without state or order of calls; what there
  is to check is which byte sequences they refuse, which their unit tests and a
  fuzzer reach better than a model of a handful of bytes.
* Code that modifies itself: opcodes stand in the image. A guest that
  writes code and then runs it is left out.

The file system and the network are environment: what the operating system does
is modelled from what the code asks of it. Debug builds panic where a release
build's sums wrap; the models follow the release build.

## 7. Plan

Done: the heap, the runtime loop, the sockets, files, directories, the screen,
the bootstrap, the processor with the guest's machine, and the C library. Every
safety property of the runs is a theorem but CallsReturn; of that one, and of
the two liveness properties, what holds for every instance is proved. Left as
ideas:

1. Composition of Bootstrap with RuntimeLoop's drive loop: the report after
   events, and the exit flag across both.
2. The MRP directory walk of `vmrp-abi` as an operator over small files.
