# LemonShark in TLA+

Specifications, model-checking configurations and machine-checked proofs for
the LemonShark kernel: its heap, its filesystem, the set-up of physical and
virtual memory, traps, locks and the log, the shell, and the tool that builds
disk images.

LemonShark is a single-core RISC-V kernel. Once booted it runs a shell loop;
the only thing that interrupts it is a timer tick. What can go wrong is mostly
a long sequence of legal calls that leaves a data structure inconsistent, a
limit that is hit in the middle of a call, a power failure between two device
writes, or a tick at an unlucky instruction. That is what the models enumerate.

## 1. The parts of the system

| Part | Source | Modelled in |
|---|---|---|
| Heap allocator (first-fit free list) | `allocator/src/lib.rs` | `FreeListAllocator` |
| Filesystem calls, inodes, directory entries | `filesystem/src/filesystem.rs`, `inode.rs`, `dir_entry.rs` | `LemonFSCalls`, `LemonFS`, `LemonFSTree` |
| Inode cache | `filesystem/src/inode_cache.rs` | `LemonFSCalls` |
| Filesystem under power loss | the same | `LemonFSCrash` |
| What the filesystem promises | the calls' results | `FileTree` (abstract) |
| Disk layout, superblock, mount | `filesystem/src/layout.rs`, `filesystem.rs` | `DiskLayout` |
| Physical ranges | `virtual_memory/src/physical_range.rs` | `Pages`, `PhysicalRanges` |
| Page frame allocator | `src/page_frame_allocator.rs` | `PageFrames` |
| Device tree, page tables, boot of memory | `src/device_tree.rs`, `src/page_table.rs`, `virtual_memory/src/lib.rs` | `KernelMemory` (composition) |
| Bitmap | `bitmap/src/lib.rs` | `Bitmap`; a set of indices in `LemonFSCalls` |
| Boot order, panic, kernel heap lock, log, output, kernel filesystem lock, virtio console | `src/main.rs`, `lib.rs`, `allocator.rs`, `klog.rs`, `println.rs`, `filesystem.rs`, `virtio2.rs` | `KernelProgram` |
| Interrupts, trap handler, timer | `src/interrupts.rs`, `trap_handler.rs`, `timer.rs`, `riscv.rs` | `KernelProgram`, `KernelTraps` |
| Shell | `src/shell.rs` | `Shell` (lines), `KernelProgram` (commands) |
| mkfs | `mkfs/src/lib.rs`, `main.rs` | `Mkfs` (on `LemonFSCalls`) |
| Byte encoding, RAM disk, SBI, scheduler | | not modelled, see section 7 |

Paths above are relative to `src/` of this checkout.

How they interact. The shell calls the filesystem, under its lock. It keeps two
bitmaps and an inode cache in memory in front of a block device; directory
entries, file bytes and new inodes go to the device at once, bitmaps and
changed inodes at the next flush. At boot the device tree gives the regions of
RAM, the firmware's reservations and the devices; what is left of RAM becomes
frames; the kernel page table is built out of such frames, and maps them. The
heap is a region of its own inside the kernel image, behind a lock that `alloc`
and `dealloc` take with interrupts off; `init` and `stats` take it with
interrupts as they are, which is sound because the trap handler does not use
the heap. The log goes to a buffer until a console is
found. mkfs links the same filesystem and runs it on a file of the host.

## 2. Modules, state and actions

### FreeListAllocator

`free` is the intrusive list in list order (not assumed to be address order)
and `live` the allocations with their metadata. `Alloc`, `AllocOutOfMemory` and
`Dealloc` are `FreeListAllocator::alloc` and `dealloc`: the split of a block
into a left rest, the allocation and a right rest, the rests that are too small
for a header and stay with the allocation, and the insertion with its merges to
either side. Addresses are bytes, with the real header sizes (24 and 16).
Keeping the headers in variables is right only because no two owners share a
byte, which `NoOverlap` and `HeadersFit` say.

### LemonFSCalls, LemonFS, LemonFSTree, FileTree

`device` is the inode table, the data blocks and the bitmaps on disk; `memory`
the bitmaps and the inode cache of `Filesystem`; `last` the last call and its
outcome. A block is a row of cells: a file byte is one cell and a directory
entry two. `append_to_file` goes block by block (`copy_block`), and
`load_tree` depth by depth; with something at a depth of as many levels as there
are inodes, a directory is below itself and the recursion has no end. Each
function of the source is an operator on the state of a call
(device, memory, outcome so far, device after each write), in `LemonFSCalls`;
each public call is an action of `LemonFS`: `mkdir`, `create_file`, `write_to_file`, `rm`, `cat`, `ls`,
`tree`, `Flush`, and `ExitAndBoot` (the shell's `exit`, then a mount). Errors
and panics are outcomes; after a panic nothing runs.

`LemonFSTree` adds the history variable `shown`, the tree of names that could
be read at the moment. `FileTree` is the abstract specification: a tree of
directories and files that grow by appending, with the error every path
deserves. `RefinesFileTree` says that `LemonFSTree` implements it under
`tree <- shown`. `FileTree` leaves capacity open: a call may fail for lack of
room, and then changes nothing, except that an append may have stored a prefix.

### LemonFSCrash

`Complete` runs a call to its end; `Crash` picks any call and any prefix of its
device writes, drops the memory and mounts what is left. `flushed` and `gone`
remember the tree at the last flush and what has been removed since. A block
write is atomic and the device does not reorder writes: virtio waits for each
request, the RAM disk copies. `Resume` lets files be created and written after
the crash.

### DiskLayout

`Layout::new` looks for the size of the data bitmap in a loop; each turn is one
step (`Iterate`), because whether the loop ends is a question of its own.
`Format` and `Mount` start a search, `FormatDone` and `MountDone` end it, and
`Copy` puts an image on a device of another size.

### Pages, PhysicalRanges, PageFrames, KernelMemory

`PhysicalRanges` has the pure functions: `normalize_ranges`, `covering_pages`
and `usable_memory_ranges`. `Bitmap` has the packed words with their padding;
a word is the set of its set bits. `PageFrames` has an arena with a bitmap over
each usable range, `init`, `alloc_frame`, `alloc_none`, `free_frame` and
`free_refused`, with the history variable `held` of the frames handed out.
`KernelMemory` composes both with the device tree and the page tables. A
machine (regions of memory, reservations, devices, the tree itself and the
kernel image) is chosen at the start; then the boot goes through
`device_tree_init`, `page_frame_allocator_init`, `page_table_init` and one
`map_next` for each call of `PageTable::map`, up to `switch_on`. `map` walks
three levels and takes tables from the frame allocator. Every way the boot can
stop is a status: an error in the device tree, no frame left, a page that is
mapped twice, an overflow at the end of the device tree. `use_frames` is the
allocator by itself, on memories of its own and with any address freed.

### KernelProgram, KernelTraps

`KernelProgram` is the kernel without traps. Each function of the source is the
sequence of its instructions, as far as they touch interrupts, locks, the log or
what later steps need: `without_interrupts` reads the enable bit, clears it and
restores it; `Locked` takes a spin lock, and one that is held is spun on; a log
line goes to the console or the early buffer. `_start` is the order of the
boot; `call` has the commands of the shell. Outcomes the machine decides are
choices: whether an allocation, the device tree, the console, the block device
or the mount is any good. A panic replaces what is left to run by the panic
handler, with all locks as they are.

The length of the early buffer is a field (`early_len`), as in `EarlyBuffer`.
`sent` has the lines given to the console's driver. `console_write` drops the
result of `send_bytes` and reports the line as written, so that a transmission
that fails loses it: `lost` remembers such lines, and `before` how many lines
were logged before there was a console. The seconds of the `timer` command are
multiplied by the frequency; `mul` is that multiplication, which panics when it
overflows.

`KernelTraps` adds the hart. `Interrupt` and `Breakpoint` enter the handler;
`Save` is the assembly down to the call, in its order, with the registers it
uses itself (`ra`, `sp`, `t0`, `a0`) and `s1` for the others; the trap frame
has a place for each of them, for `kernel_sp` and for `sepc`; `Handle` is
`trap_handler_rust`, after which the caller-saved registers are garbage;
`Restore` and `Sret` lead back. A register that comes back with another value,
or a return to the middle of an instruction, sends the kernel to the status
"lost", from which nothing refines the program.

### Shell

`shell` is the line, the draft, the position in the history, the state of the
escape parser, the screen row and the last command. `uart` holds the bytes that
have arrived and are not read yet: `Receive` brings a burst, `ReadByte` is one
turn of the loop of `read_line_and_display`; `Enter` keeps the line in the
history and parses it with `from_line`. The words of the language are
single symbols, which no code looks into. `Controls` are bytes that are no
text (below 32, and 128 to 159), of which the editor handles only Enter, escape
and the two rubouts: the others are echoed and kept in the line like text, and
what the terminal then shows is not known (`Garbled`) until the next prompt or
the next redraw of a line without any. `White` are the bytes `trim` removes and
the history's test for a blank line ignores, the newline among them. The ghost
field `ran` has the lines that belong in the history, with no limit to it.

### Mkfs

`host` is the source tree, `files` the output and the temporary images beside
it, `build` one state for each mkfs process. The steps are those of
`build_image`: parse and check, create a temporary file under a name that is
not taken, format, mount, import entry by entry in the order of names (metadata
and contents read in separate steps), flush, rename. The import makes the calls
of `LemonFSCalls` on the image. `HostCallFails`, `DevicePanics`, `Kill` and
`EditSource` are what may come in between. The results of `remove_file` are
dropped: when it fails, the file stays (`Left`), and if that was in
`create_new`, the loop of `create_temporary_image` finds the path there and
tries the next name (`NextAttempt`). A panic aborts the process, as the
workspace's profiles say, so that it cleans up no more than a kill.

## 3. Runs

Times are for two workers.

| Run | Module, config | Expect | What it shows |
|---|---|---|---|
| `heap` | `MCFreeList`, `MCFreeList.cfg` | pass | All orders of alloc and dealloc of three layouts in a 200-byte heap. |
| `fs_files` | `MCLemonFS`, `LemonFSFiles.cfg` | pass | Appends, removals and re-creations, flushes and reboots, on three data blocks. |
| `fs_dirs` | `MCLemonFS`, `LemonFSDirs.cfg` | pass | Directories that grow into a second block and shrink; wrong, empty and overlong components. |
| `fs_crash` | `MCLemonFSCrash`, `LemonFSCrash.cfg` | pass | Power lost after any write of any call, a removal's too (2 to 3 minutes). |
| `layout` | `MCDiskLayout`, `DiskLayout.cfg` | pass | Format, mount and copies for every size from 0 to 50 blocks. |
| `kernel_memory` | `MCKernelMemory`, `KernelMemory.cfg` | pass | The boot on 99 machines, and frames taken and freed in what `usable_memory_ranges` leaves of small memories. |
| `mkfs` | `MCMkfs`, `MCMkfs.cfg` | pass | Two builds of one output with failures, kills and edits at any step, on source trees at and beyond every limit (2 to 3 minutes). |
| `kernel` | `MCKernelTraps`, `KernelTraps.cfg` | pass | Boot and three commands, with the timer at any instruction, every outcome of allocations and devices, and one transmission to the console that fails (2 to 3 minutes). |
| `shell` | `MCShell`, `MCShell.cfg` | pass | Five bursts of keys, control bytes, arrows, broken escape sequences and pasted lines. |
| `directory_full` | `MCLemonFS`, `LemonFSDirectoryFull.cfg` | violation | `create_file` panics on the entry that does not fit the block. |
| `crash_shared_block` | `MCLemonFSCrash`, `LemonFSShared.cfg` | violation | After a crash inside a flush two files share a block. |
| `mkfs_default` | `MCMkfs`, `MkfsDefault.cfg` | violation | mkfs without arguments, as the repository's README calls it, builds nothing. |

### Properties

*Heap.* `SortedAndCoalesced`: the list is in address order and no two
neighbours touch. `NoOverlap`, `HeapIsTiled`: free blocks and allocations cover
the heap, each byte once. `HeadersFit`, `PayloadFits`: every header, metadata
record and payload lies aligned in its own block. `IdleHeapIsWhole`: with
nothing allocated there is one block. `UsedIsLive`: the accounting agrees.

*Filesystem.* `BlocksOwnedOnce` and `INodesLinkedOnce`: a bit is set exactly
for what one inode or one entry refers to. `CacheCoherent`: what is not dirty
is on disk as it is in memory. `SlotsMatchSize`: the used slots are the first
ones and as many as the size needs. `RefinesFileTree`: see above.

*Crashes.* `FlushedDataSurvives`: outside `remove_dir_entry`, everything saved
by the last flush and not removed since is readable after the next boot.
`RemoveLosesOneEntry`: inside it, at most the entry that was being moved is
lost, with what is below it. That is weaker than one would wish, and it is what
the code does: the moved entry is zeroed before it is written again.

*Layout.* `RegionsFit`: on a mounted device the regions tile the device and
every inode and block has a place and a bit. `MountsWhatWasFormatted`: a device
mounts exactly if it was formatted at its present size.
`SearchEndsUnlessItAlternates` (liveness): the loop ends at all other sizes
than the alternating ones (see the observations).

*Memory.* `BitsMatchHeld` and `FreshFrames`: the bitmaps say exactly which
frames are out, whatever address is freed, and no held frame is handed out.
`ManagesWhatIsLeft`: the frames are exactly the complete pages of RAM outside
every reservation, the device tree and the kernel; this checks
`usable_memory_ranges` against its definition by sets of bytes.
`MapsWhatIsWanted`: when paging is switched on, a hardware walk of every
virtual page gives exactly the mapping the kernel needs, and nothing for holes
and firmware memory. `TablesOwnTheirFrames`: a table's frame is taken, and one
entry leads to it. `NeverMappedTwice`: the assertion in `map` holds.

*Kernel.* `RefinesUninterrupted`: with traps at any instruction, the kernel
implements the program without traps. `PromptIsClean`: back at the prompt no
lock is held and interrupts are on. `LogIsComplete`: log lines are given to the
console in order; at the prompt, and after a panic, none is missing but lines
logged before there was a console that the early buffer had no room for; and
only lines that were given are lost in a transmission. `KeepsGoing` (liveness): the kernel comes back to the prompt,
shuts down or ends in the panic loop; it never spins on a lock of its own.
`TicksGoOn` (liveness): an expired timer is set again.

*Shell.* `ScreenShowsLine`: Enter runs what is on the screen, as long as the
line is of printable bytes; it does not hold of control bytes (see the
observations).
`TypedLineComesBack`: back from the history, the line is as it was typed.
`HistoryIsKept`: without blank or repeated lines, and exactly the latest lines
run, as many as there is room for. `RunsAsTyped`: a command that takes a path
gets exactly the characters between the first and the second space behind its
name, under the root; `write` gets exactly the rest as its text; only a bare
`write` stops the kernel.

*mkfs.* `OutputIsWhole`: the output is the old file or a complete image, with
what the source had while mkfs ran. `FailureKeepsOutput`: an error or a panic
leaves the output alone. `NoImageForgotten`: only killed and aborted builds
leave a temporary image, unless the host refuses to remove it.
`BuildsWhatFits`: undisturbed, mkfs succeeds exactly when the tree fits the
limits of LemonFS, which are stated independently of the calls, and the output
names a file in a directory that resolves. `DirectoryHolds` is the limit of a
directory: entries must not cross from one block into the next, which with 512
and 28 bytes ends at 18 of them. `DefaultBuilds` is what the repository's
README says of mkfs without arguments.

### What the violations say

* `directory_full`: the 19th entry of a directory goes to offset 504 of a
  512-byte block and the slice panics. A comment in `dir_entry.rs` wants the
  block size to be a multiple of the entry size, but 512 is not one of 28.
* `crash_shared_block`: `flush` writes inodes before bitmaps.
* `mkfs_default`: the default output `lemonfs.img` has the parent `""`, which is
  not the `None` that `validate_output_location` replaces by `"."`, and
  `canonicalize` refuses it. README.md says "This creates `lemonfs.img`" of the
  command without arguments, which is also that of `make fs`.

### Observations

Met while modelling, and without a run of their own. Filesystem:

* `mkdir` and `create_file` also panic when no data block is left, since
  `new_dir_entry` unwraps the error of `write_dir_entry`. This is in the model
  and violates the same `CreateNeverPanics`.
* `read_file` decodes each block by itself: `cat` panics on a character of
  several bytes across a block boundary. `FileTree` allows `cat` to die on files
  with such characters only.
* `Layout::new` does not end with k(B+1)+1 blocks beyond the fixed regions, B
  the bits of a block (4096): it alternates between k and k+1 bitmap blocks. The
  smallest such device has 4686 blocks. `SearchEndsUnlessItAlternates` excludes
  exactly these sizes.
* `create_file("/x/")` creates the file `x` if nothing of that name exists.
* A name created after a removal, neither of them flushed, can be visible after
  a remount, because the directory's old inode still covers the reused slot.
* After a crash in a removal a zeroed entry can lead to inode 0, the root;
  `tree` would then recurse into it.

Kernel, shell and mkfs:

* The allocator logs when it is out of memory, inside the heap's lock, though
  the comment above says it must not. That is harmless as long as the logger
  and the console's driver do not allocate. The mutant of `KeepsGoing` is a
  logger that does.
* `heap_init` logs before there is a logger; that line is dropped.
* Exceptions other than a breakpoint return to the instruction that caused
  them.
* `exit` panics when no filesystem is mounted, since `flush` unwraps it; a bare
  `write` panics in `split_at(2)`; two spaces after a command make an empty
  argument, which is the path `/`.
* A control byte goes into the line unseen: Ctrl-A and then `ls` shows `ls` and
  is not found, and a rubout after `l`, Ctrl-A removes the control byte from
  the line and the `l` from the screen. A newline leaves the row.
* A log line whose transmission fails is lost: `console_write` reports it as
  written, so it does not go to the early buffer either.
* The seconds of `timer` are not checked: a large number overflows in
  `new_time`, which panics in a build with overflow checks.

## 4. Bounds, and why they are enough

* `heap`: 200 bytes hold three allocations of the smallest request with both
  kinds of rests, and with 64-byte alignment a usable block on the left. The
  list reaches every merge (left, right, both, none). The heap starts at an
  unaligned address. The theorems remove the bound.
* `fs_files`: blocks of nine cells leave a gap behind four entries, as 512
  leaves behind eighteen of 28 bytes. An append of six cells crosses a block
  boundary at the second call and fills file, inode and disk within three.
* `fs_dirs`: blocks of six cells hold three entries, so the second name in a
  directory goes to a second block and its removal gives the block back. The
  code has that path, and files have it too; with the sizes the kernel ships, a
  directory panics before it (`directory_full`).
* Crash runs: two names and one nested path, on blocks of nine cells (four
  entries and a gap); few enough inodes that one is reused within a behaviour.
* The view `MCView` drops `last` except for whether the kernel runs; no action
  depends on anything else of it, and the invariants of these runs that look at
  it depend only on what the view keeps.
* `layout`: six bits in a block, so 50 blocks include six of the alternating
  sizes and sizes with up to seven bitmap blocks.
* `kernel_memory`: three levels of tables with four entries each, 64 pages.
  The machines include overlapping, touching and nested regions, a RAM too
  small for the tables, a device tree at the last address, and malformed trees.
  For the allocator by itself: pages of four bytes, words of three bits, up to
  three arenas and seven frames; reservations begin and end inside pages, at
  page ends and over each other.
* `kernel`: `MAX_COMMANDS` is 3. The state between two commands is the locks,
  the timer, the interrupts and what is ready, so that a third command meets
  every state the first two leave. Lines are one or three units long, with
  room for two in a line (`LINE`) and two in the early buffer (`EARLY`): lines
  are cut, and the buffer overflows before the console is found. `MAX_LOST` is
  1: one transmission fails, of any line.
* `shell`: `MAX_BURSTS` is 5 and `MAX_LINE` 7; a history of two lines is full
  after two commands, which one paste can bring, with bursts left to recall,
  edit and come back.
* `mkfs`: two processes and two process ids, two names for temporary files
  (`ATTEMPTS`), one edit of the source. The trees lie on both sides of each
  limit: bytes of a file, entries of a directory, inodes, blocks, names. A
  block has bytes left over behind its entries, as the shipped one has. The
  processes and the ids are interchangeable (`MCSymmetry`).

Deadlock is not checked where the system may stop: the filesystem and the
kernel after a panic, the kernel after `exit`, the boot and mkfs at their end,
and where a bound ends the behaviours (`shell`, `kernel`).

## 5. Fairness

`DiskLayout`: weak fairness of `Search`. A call that is running goes on
running: the code is a plain loop on a single core whose timer interrupt
returns. `Format`, `Mount` and `Copy` are not fair: nobody has to call them.

`KernelTraps`: weak fairness of the steps inside a trap (interrupts are off
there, so nothing stops the hart), of the timer's expiry (time passes) and of
the interrupt when it is pending and enabled (the hart takes it). Strong
fairness of the program's own steps: each of them is disabled while a trap is
handled, again and again, but the handler sets the timer a second ahead and
takes far less, so that the program is not starved. No fairness at the prompt:
nobody has to type.

## 6. Proofs

The eight proof modules hold for every value of the constants, under the named
assumptions of the modules they are about; TLC evaluates these assumptions in
the runs.

**FreeListProofs.** `HeapAssumption` (the heap has room for two headers) and
`LayoutsAssumption` (sizes are positive; alignments above 8 are multiples of
8). The inductive invariant `HeapOK` strengthens the checked invariants: the
list is sorted with gaps, every block and every allocation is aligned and
inside the heap, all are pairwise apart, and together they cover it. Coverage
is needed to show that the idle heap is one block: a sorted, coalesced list
that covers an interval has one element. Insertion and removal are both cases
of replacing a segment of the list (`Splice`), about which the lemmas are
stated once. From `HeapConsistent` follow `TypeCorrect`, `AllocationsDisjoint`,
`ListSortedAndCoalesced`, `HeapTiled`, `HeadersAlwaysFit`, `PayloadsFit` and
`NoPermanentFragmentation`. `UsedAlwaysLive` is a count: the bytes of the heap
are those of the free blocks and those of the allocations, no byte twice, and
both sums are cardinalities of sets of bytes. Each recursive sum is shown to
be the function that counts, by a smallest counterexample.

**DiskLayoutProofs.** `LayoutAssumption` (positive sizes; whole words in a
block). `LayoutInv` says that a written superblock holds a fixed point of the
search, and that the search never goes above its first try. The key lemma is
that a device size has at most one fixed point: therefore the search of a mount
can only end where the search of the format ended. Results:
`LayoutTypeCorrect` (no subtraction underflows), `RegionsAlwaysFit`,
`MountAcceptsFormatted`.

**PageFramesProofs.** `UsableAssumption`: usable memory is a sequence of
non-empty, page-aligned, ascending ranges. That `usable_memory_ranges` returns
such sequences is not proved (it is a fold, and needs induction) but evaluated
by TLC on the results in `kernel_memory`. `FramesInv` adds to `BitsMatchHeld` that
arenas stay aligned and apart, without which two bits could stand for one
frame. The arithmetic is in two lemmas: a bit is a page inside its arena, and
an aligned address is the frame of its index, which is why `free` must refuse
the others. Results: `FrameTypes`, `BitmapsExact`, `FramesFresh`.

**BitmapProofs.** `WordAssumption`: a word has at least one bit. `Ones` maps a
bitmap to the set of its indices, and the theorems say that the operations are
the ones on sets: `NewIsEmpty`, `SetExact`, `UnsetExact`, `FromWordsMasks` (and
the padding is clear), `FindFreeLowest` (the lowest clear index, never padding),
`FindsNoneIsFull` and `DrainsLowest`. They rest on the uniqueness of quotient
and remainder, which makes word and bit of an index a bijection. They are what
allows the filesystem's model to use sets, and `PageFramesProofs` builds on them.

**KernelProgramProofs.** `KernelAssumption` (lengths and bounds are numbers; only
commands of the shell are typed). The state holds the code still to run, so the
argument is about programs. A `Context` is what instructions rely on (locks,
saved interrupt states, what is ready, the log line on its way); `Step` is what
one instruction requires of it and does to it; `Leads(code, a, b)` says that
`code` runs from `a` to `b` with every requirement met. The lemmas
go up the calls, from `without_interrupts` and a lock's critical section over the
logger, the heap and the filesystem's interface to the commands and `_start`. `Inv`
says that the code still to run leads somewhere from the present context, and
where each log line is: given to the console, in the early buffer, or without
room in it before the console was there. A panic is no exception to this: it
replaces the code by the panic handler's, which leads on from any context a
panic can occur in.
Result: `ProgramNeverWaitsForItself`.

**KernelTrapsProofs.** `TrapInv` follows the program's registers through a trap:
from the hart into the frame and back. It contains `Inv` of the program's state,
which provides that there is a frame and a handler whenever a trap can come;
and each step of a trap is a step of the program or a stutter, which preserves
`Inv` in turn. Results: `TrapsAreInvisible`, the refinement of `KernelProgram`
(its safety part; the abstract specification has no fairness), `TrapsComeBack`,
`PromptAlwaysClean`, `NeverWaitsForItself` and `LogAlwaysComplete`.

**ShellProofs.** `ShellAssumption` (a history of at least one line; bursts consist
of keys; the space is white and every white byte is a text or a control byte).
`EditorInv` adds to the properties where the typed line is while an entry of
the history is shown: in the draft. The proof has a lemma for each key in each
state of the escape parser. Results: `ScreenAlwaysShowsLine`,
`TypedLineAlwaysComesBack`, `HistoryAlwaysKept`.

**MkfsProofs.** `MkfsAssumption` (the names for the user and for files
nobody could remove are not builds'). Neither property is
inductive; `Owned` adds that running builds have different process ids, so that
their temporary names differ, that a build at work owns the file of its
temporary name, and that a file that is not temporary belongs to a build only
after its rename, after which it can be killed but not fail. Nothing is used
about the filesystem's calls, so the results hold whatever they answer. Results:
`FailureAlwaysKeepsOutput` and `NoImageEverForgotten`, for any number of builds.

Only model-checked:

* `LemonFS` and `LemonFSCrash`, with the refinement of `FileTree`. An invariant
  would have to relate the bitmaps, the cache, the inode table and the entries
  after each write of each call.
* `KernelMemory` beyond the frames: `usable_memory_ranges` is a fold over a
  sorted list, and what it computes needs induction over data.
* `RunsAsTyped`: the parser's folds over words, for the same reason.
* `OutputIsWhole` and `BuildsWhatFits`: they rest on what the calls of
  `LemonFSCalls` compute.
* Liveness (`KeepsGoing`, `TicksGoOn`, `SearchEndsUnlessItAlternates`), which
  needs `ENABLED`. That no lock is awaited by its holder, the safety part of
  `KeepsGoing`, is proved.

## 7. Not modelled, and why

* `bytereader.rs`: moves fields to fixed offsets; records stand for what it
  encodes.
* `ramdisk.rs` and the queues of `virtio2.rs`: the block device of the models.
  The driver is a library that waits for every request, and its `send_bytes` is
  taken not to allocate; that it may fail is modelled. `virtio.rs` is unused.
* `scheduler.rs`: unreachable, the scheduler is never created. With it
  `new_identity_map`, which it alone calls and which would hit the assertion in
  `map`, since every frame is mapped at boot.
* `sbi.rs`, `kernel_layout.rs`, `logo.rs`, and of `riscv.rs` all but `scause`:
  register access, constants and a picture.
* Exceptions other than breakpoints: they do not occur in the model.
* Lines wider than the terminal, what the terminal makes of a control byte
  (tabs too), and what a command prints.
* `log`'s formatting, `module_prefix` included: a line is its number and its
  length.
* Of the device tree, how nodes are found: a library reads them. All lookups
  besides the regions are one condition (`complete`).
* Permissions and flags of page table entries other than V, R, W and X: the
  kernel sets no others.
* Two hazards after a crash are described above but not stated as properties:
  a removed name's slot and inode reused before a flush, and the zeroed entry
  that leads to the root.
