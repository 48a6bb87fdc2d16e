---------------------------- MODULE KernelProgram ----------------------------
(***************************************************************************)
(* The kernel as one program on one hart: boot (src/main.rs), then the     *)
(* shell, with the locks, the heap's critical sections, the logger and the *)
(* panic handler.  Nothing interrupts it here but the timer, which is only *)
(* reset; KernelTraps adds how that comes about.                           *)
(*                                                                         *)
(* A function of the source is the sequence of its instructions, as far as *)
(* they touch interrupts, locks, the log or the state of the kernel; what  *)
(* it does besides is the subject of other modules.  A log line is its     *)
(* number, and lengths are in units of a short line.  sent are the lines   *)
(* that were given to the console's driver, lost those of them that it     *)
(* answered with an error, and before counts the lines that were logged    *)
(* before there was a console.                                             *)
(***************************************************************************)
EXTENDS Integers, Sequences, FiniteSets

CONSTANTS LINE,           \* StackString: 512 bytes
          EARLY,          \* EarlyBuffer: 2048 bytes
          Commands,       \* what is typed at the prompt
          MAX_COMMANDS,   \* bound: commands until the user stops typing
          MAX_LOST        \* bound: lines lost before the driver stops failing

ShellCommands == {"help", "memory", "allocate", "bench", "sysinfo", "timer", "files",
                  "ls", "dumpfs", "flush", "exit", "ebreak"}

ASSUME KernelAssumption ==
  /\ LINE \in Nat /\ EARLY \in Nat /\ MAX_COMMANDS \in Nat /\ MAX_LOST \in Nat
  /\ Commands \subseteq ShellCommands

VARIABLE k   \* code still to run, sstatus.SIE and its saved values, locks, ...
------------------------------------------------------------------------------
I(op, arg) == << [op |-> op, arg |-> arg] >>
Do(op) == I(op, 0)

Short == 1
Long == 3

(* src/interrupts.rs, and spin::Mutex.                                     *)
without_interrupts_kept(f) == Do("csrr") \o Do("csrci") \o f
without_interrupts(f) == Do("csrr") \o Do("csrci") \o f \o Do("restore")
Locked(lock, f) == I("lock", lock) \o f \o I("unlock", lock)

(* src/println.rs                                                          *)
println == without_interrupts(Do("uart"))

(* src/klog.rs: what the log macros call, and what is left to do if        *)
(* console_write returns false.                                            *)
log_record(len) == I("log", len)
console_write(n) == Locked("CONSOLE", I("match_console", n))
log_from_heap(n) == without_interrupts(Locked("HEAP", << >>))
                    \o console_write(n) \o I("unless_written", n)
log(n) == console_write(n) \o I("unless_written", n)
append_early(n) == Locked("EARLY_BUF", I("append", n))
flush_early_buffer == Locked("EARLY_BUF", Locked("CONSOLE", Do("send_early")))

(* src/lib.rs: the panic handler.                                          *)
panic_handler == println \o log_record(Short) \o Do("loop")

(* src/allocator.rs.  A null pointer makes the caller panic, after the     *)
(* critical section.                                                       *)
alloc == without_interrupts(Locked("HEAP", Do("walk_list"))) \o Do("unless_null")
dealloc == without_interrupts(Locked("HEAP", << >>))
stats == Locked("HEAP", << >>)
heap_init == Locked("HEAP", log_record(Long) \o Do("heap"))
------------------------------------------------------------------------------
(* The steps of _start.  SystemInfo::new logs and is stored if it          *)
(* succeeds; a virtio device gets its queues from the heap.                *)
dma_alloc == alloc
console_found_late == dma_alloc \o flush_early_buffer \o Locked("CONSOLE", Do("set_console"))
console_found == dma_alloc \o Locked("CONSOLE", Do("set_console")) \o flush_early_buffer
trap_handler_init == Do("sscratch") \o Do("stvec") \o log_record(Short)
device_tree_init ==
  alloc \o Do("parse_fdt") \o log_record(Long) \o log_record(Short)
  \o Do("sysinfo") \o log_record(Short)
interrupts_init == Do("csrs") \o log_record(Short)
page_frame_allocator_init ==
  Locked("PAGE_FRAME_ALLOCATOR", alloc \o log_record(Long) \o dealloc \o Do("frames"))
alloc_frame == Locked("PAGE_FRAME_ALLOCATOR", Do("frame_allocator")) \o Do("frame")
managed_ranges == Locked("PAGE_FRAME_ALLOCATOR", Do("frame_allocator") \o alloc)
page_table_init == alloc_frame \o managed_ranges \o dealloc \o log_record(Short)
new_time == Do("set_timer")
new_time_typed == Do("mul") \o new_time
make_device == Do("block_device") \o dma_alloc
init_with_device ==
  Locked("FS", << >>) \o alloc \o Do("block_device") \o log_record(Short) \o Do("mount")
mounted == Locked("FS", Do("fs")) \o log_record(Short)

shell == Do("prompt")

_start ==
  heap_init \o Do("set_logger") \o log_record(Short) \o log_record(Long)
  \o Do("scan_slots") \o trap_handler_init \o device_tree_init \o interrupts_init
  \o page_frame_allocator_init \o page_table_init \o new_time \o make_device
  \o init_with_device \o println \o log_record(Short) \o shell

(* src/filesystem.rs: get unwraps the mounted filesystem, whose calls      *)
(* allocate and log.  ls and tree write to the UART themselves.            *)
api(f) == Locked("FS", Do("get") \o f)
api_call == api(alloc \o Do("block_device") \o log_record(Short) \o dealloc)
api_show == api(log_record(Short) \o alloc \o Do("block_device") \o Do("uart") \o dealloc)
api_flush == api(Do("block_device") \o log_record(Short))
dump_non_empty_pages == println \o Do("block_device") \o println

(* src/shell.rs: the commands.                                             *)
memory == stats \o println
exit == api_flush \o Do("exit_qemu")
sysinfo == alloc \o println \o dealloc
help == println
shell_allocate == alloc
benchmark_allocator == alloc \o dealloc \o println

(* There is no ebreak in ShellCommand::call: the one here stands for those *)
(* of a developer, of either width.                                        *)
call(c) ==
  CASE c = "help"     -> help
    [] c = "memory"   -> memory
    [] c = "allocate" -> shell_allocate
    [] c = "bench"    -> benchmark_allocator
    [] c = "sysinfo"  -> sysinfo
    [] c = "timer"    -> new_time_typed
    [] c = "files"    -> api_call \o println
    [] c = "ls"       -> api_show
    [] c = "dumpfs"   -> api(dump_non_empty_pages)
    [] c = "flush"    -> api_flush
    [] c = "exit"     -> exit
    [] c = "ebreak"   -> I("ebreak", 4) \o I("ebreak", 2)

(* One turn of the shell: the line is kept in the history.                 *)
turn(c) == alloc \o call(c) \o shell
------------------------------------------------------------------------------
Init ==
  k = [code |-> _start, sie |-> FALSE, stie |-> FALSE, saved |-> << >>, locks |-> {},
       written |-> FALSE, ptr |-> TRUE, ready |-> {}, timer |-> "off", commands |-> 0, status |-> "on",
       console |-> FALSE, before |-> 0, sent |-> << >>, lost |-> {}, early |-> << >>, early_len |-> 0, lines |-> << >>]

At(op) == k.status = "on" /\ Head(k.code).op = op
Arg == Head(k.code).arg
Past == [k EXCEPT !.code = Tail(@)]
Then(f) == [k EXCEPT !.code = f \o Tail(@)]
Panics == [k EXCEPT !.code = panic_handler]

csrr == At("csrr") /\ k' = [Past EXCEPT !.saved = <<k.sie>> \o @]
csrci == At("csrci") /\ k' = [Past EXCEPT !.sie = FALSE]
restore == At("restore") /\ k' = [Past EXCEPT !.sie = @ \/ Head(k.saved), !.saved = Tail(@)]

(* A lock that is taken is spun on.                                        *)
lock == At("lock") /\ Arg \notin k.locks /\ k' = [Past EXCEPT !.locks = @ \cup {Arg}]
unlock == At("unlock") /\ k' = [Past EXCEPT !.locks = @ \ {Arg}]

uart == At("uart") /\ k' = Past

(* Without a logger the macros do nothing.  A line is cut at the capacity  *)
(* of its StackString.                                                     *)
log_macro ==
  /\ At("log")
  /\ k' = IF "set_logger" \notin k.ready THEN Past
          ELSE [Then(log(Len(k.lines) + 1)) EXCEPT !.lines = Append(@, IF Arg < LINE THEN Arg ELSE LINE)]

(* console_write ignores the error of send_bytes: a line that the driver   *)
(* refuses counts as written and is not sent again.                        *)
Refusals(lines) == {{}} \cup (IF Cardinality(k.lost) < MAX_LOST THEN {lines} ELSE {})
send_bytes(lines) ==
  \E refused \in Refusals({lines[i] : i \in DOMAIN lines}) :
    k' = [Past EXCEPT !.written = TRUE, !.sent = @ \o lines, !.lost = @ \cup refused]
NoConsole == ~ k.console /\ k' = [Past EXCEPT !.written = FALSE]
match_console == At("match_console") /\ ((k.console /\ send_bytes(<<Arg>>)) \/ NoConsole)
unless_written ==
  At("unless_written") /\ k' = IF k.written THEN Past ELSE Then(append_early(Arg))

(* EarlyBuffer::append drops a line that does not fit.                     *)
append ==
  /\ At("append")
  /\ k' = IF k.early_len + k.lines[Arg] > EARLY THEN Past
          ELSE [Past EXCEPT !.early = Append(@, Arg), !.early_len = @ + k.lines[Arg]]
send_early == At("send_early") /\ ((k.console /\ send_bytes(k.early)) \/ NoConsole)

(* FreeListAllocator::alloc finds a block, or logs that it does not and    *)
(* returns null.                                                           *)
walk_list ==
  /\ At("walk_list")
  /\ \/ k' = Past
     \/ k' = [Then(log_record(Short)) EXCEPT !.ptr = FALSE]
unless_null ==
  At("unless_null") /\ k' = IF k.ptr THEN Past ELSE [Panics EXCEPT !.ptr = TRUE]

(* Init steps that only make something ready.  Boot takes them in order,   *)
(* and what is missing is missed by the actions below.                     *)
Readies == {"heap", "set_logger", "sscratch", "stvec", "sysinfo", "frames", "fs"}
becomes_ready ==
  /\ k.status = "on" /\ Head(k.code).op \in Readies
  /\ k' = [Past EXCEPT !.ready = @ \cup {Head(k.code).op}]

(* What the machine decides: whether there is a console, whether the       *)
(* device tree, the block device and the filesystem on it are any good,    *)
(* whether a frame is left.                                                *)
scan_slots == At("scan_slots") /\ (k' = Past \/ k' = Then(console_found))
set_console == At("set_console") /\ k' = [Past EXCEPT !.console = TRUE, !.before = Len(k.lines)]
parse_fdt == At("parse_fdt") /\ (k' = Past \/ k' = Panics)
block_device == At("block_device") /\ (k' = Past \/ k' = Panics)
frame == At("frame") /\ (k' = Past \/ k' = Panics)
mount == At("mount") /\ (k' = Then(mounted) \/ k' = Then(log_record(Short)))

csrs == At("csrs") /\ k' = [Past EXCEPT !.stie = TRUE, !.sie = TRUE]

(* The frequency is the device tree's: without it the kernel panics.  So   *)
(* it does when the seconds that were typed, times the frequency, overflow *)
(* (a release build wraps around instead, and sets another time).          *)
mul == At("mul") /\ (k' = Past \/ k' = Panics)
set_timer ==
  /\ At("set_timer")
  /\ k' = IF "sysinfo" \in k.ready THEN [Past EXCEPT !.timer = "armed"] ELSE Panics

(* Both are Options, unwrapped under their locks.                          *)
get == At("get") /\ k' = IF "fs" \in k.ready THEN Past ELSE Panics
frame_allocator ==
  At("frame_allocator") /\ k' = IF "frames" \in k.ready THEN Past ELSE Panics

(* The shell waits for a line.                                             *)
prompt ==
  /\ At("prompt") /\ k.commands < MAX_COMMANDS
  /\ \E c \in Commands :
       k' = [k EXCEPT !.code = turn(c), !.commands = @ + 1]

exit_qemu == At("exit_qemu") /\ k' = [Past EXCEPT !.status = "off"]

(* Every instruction but ebreak, which traps, and the panic handler's      *)
(* loop, which goes nowhere.                                               *)
Exec ==
  \/ csrr \/ csrci \/ restore \/ lock \/ unlock \/ uart \/ log_macro \/ match_console
  \/ unless_written \/ append \/ send_early \/ walk_list \/ unless_null \/ becomes_ready
  \/ scan_slots \/ set_console \/ parse_fdt \/ block_device \/ mount \/ csrs \/ mul
  \/ set_timer \/ frame \/ get \/ frame_allocator \/ prompt \/ exit_qemu
------------------------------------------------------------------------------
(* Seen by the program, a breakpoint is skipped, and the timer goes off    *)
(* and is set again, the latter only while interrupts are on.              *)
ebreak == At("ebreak") /\ k' = Past
Expire == k.status = "on" /\ k.timer = "armed" /\ k' = [k EXCEPT !.timer = "pending"]
Rearm ==
  /\ k.status = "on" /\ k.timer = "pending" /\ k.sie /\ k.stie
  /\ k' = [k EXCEPT !.timer = "armed"]

Next == Exec \/ ebreak \/ Expire \/ Rearm

Spec == Init /\ [][Next]_k
==============================================================================
