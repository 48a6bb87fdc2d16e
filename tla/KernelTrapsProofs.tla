-------------------------- MODULE KernelTrapsProofs --------------------------
(***************************************************************************)
(* Traps are invisible to the program they interrupt, and so what holds of *)
(* the program by itself (KernelProgramProofs) holds of the kernel.        *)
(*                                                                         *)
(* TrapInv follows the program's registers through a trap: in the hart, in *)
(* the trap frame while the handler runs, in the hart again.  It needs the *)
(* program's invariant, which says that there is a frame and a handler     *)
(* whenever a trap can come, and that invariant is preserved because every *)
(* step of a trap is a step of the program or none.                        *)
(***************************************************************************)
EXTENDS KernelTraps, KernelProgramProofs

Value == Regs \cup {Frame, KernelSp, Garbage} \cup Nat
Hart == [regs : [Regs -> Value], sscratch : Value, sepc : Value, spie : BOOLEAN,
         scause : [interrupt : BOOLEAN, code : Nat], frame : [TrapFrame -> Value],
         at : {"program", "entry", "handler", "exit", "sret"}]

Timer == Scause(TRUE, 5)
Break == Scause(FALSE, 3)

(* The frame is there once sscratch points to it.                          *)
HasFrame(x) == x.sscratch = Frame /\ x.frame["kernel_sp"] = KernelSp
Saved(x) == \A r \in Regs : x.frame[r] = r

(* What a trap leaves as it is: a timer that is pending, a program that is *)
(* at a breakpoint.                                                        *)
Trapped ==
  /\ k.status = "on" /\ TrapReady \subseteq k.ready /\ HasFrame(h)
  /\ \/ h.scause = Break /\ Head(k.code).op = "ebreak"
     \/ h.scause = Timer /\ h.spie /\ k.stie

TrapInv ==
  /\ h \in Hart /\ k \in State /\ Inv(Seen)
  /\ h.at = "program" => h.regs = Program /\ ("sscratch" \in k.ready => HasFrame(h))
  /\ h.at # "program" => Trapped
  /\ h.at = "entry" => h.regs = Program /\ h.sepc = 0
  /\ h.at = "handler" => Saved(h) /\ h.frame["sepc"] = 0
  /\ h.at = "exit" => Saved(h) /\ h.frame["sepc"] = (IF h.scause = Break THEN Arg ELSE 0)
  /\ h.at = "sret" => h.regs = Program /\ h.sepc = (IF h.scause = Break THEN Arg ELSE 0)
  /\ h.at \in {"entry", "handler"} /\ h.scause = Timer => k.timer = "pending"
------------------------------------------------------------------------------
(* The assembly: the registers end up in the frame, and come back.         *)
LEMMA Names ==
  /\ Regs \subseteq Value /\ Frame \in Value /\ KernelSp \in Value /\ Garbage \in Value
  /\ 0 \in Value /\ Regs \subseteq TrapFrame /\ "kernel_sp" \in TrapFrame /\ "sepc" \in TrapFrame
  /\ "a0" \in Regs /\ "t0" \in Regs /\ "sp" \in Regs
  /\ "kernel_sp" \notin Regs /\ "sepc" \notin Regs
  BY DEF Value, Regs, TrapFrame

LEMMA WrittenIs ==
  ASSUME NEW S, NEW V, NEW f \in [S -> V], NEW T, NEW g \in [T -> V]
  PROVE  /\ Written(f, g) \in [S -> V]
         /\ \A r \in S : Written(f, g)[r] = IF r \in T THEN g[r] ELSE f[r]
  BY DEF Written

LEMMA Stored ==
  ASSUME NEW x \in Hart, x.regs["a0"] = Frame, NEW T, NEW g \in [T -> Value]
  PROVE  /\ Store(x, g) \in Hart
         /\ Store(x, g) = [x EXCEPT !.frame = Written(x.frame, g)]
         /\ \A r \in TrapFrame : Store(x, g).frame[r] = IF r \in T THEN g[r] ELSE x.frame[r]
<1>1. x.frame \in [TrapFrame -> Value]
  BY DEF Hart
<1>2. /\ Written(x.frame, g) \in [TrapFrame -> Value]
      /\ \A r \in TrapFrame : Written(x.frame, g)[r] = IF r \in T THEN g[r] ELSE x.frame[r]
  BY <1>1, WrittenIs
<1>3. Store(x, g) = [x EXCEPT !.frame = Written(x.frame, g)]
  BY DEF Store
<1> QED
  BY <1>2, <1>3 DEF Hart

LEMMA EntrySaves ==
  ASSUME NEW x \in Hart, x.regs = Program, HasFrame(x), x.sepc = 0
  PROVE  /\ Entry(x) \in Hart /\ HasFrame(Entry(x)) /\ Saved(Entry(x))
         /\ Entry(x).frame["sepc"] = 0
         /\ Entry(x).spie = x.spie /\ Entry(x).scause = x.scause
<1> DEFINE a == Swap(x)
           b == SaveRegs(a)
           c == [b EXCEPT !.regs["t0"] = b.sepc]
           d == SaveSepc(b)
           e == [d EXCEPT !.regs["t0"] = d.sscratch]
           f == SaveA0(d)
           z == KeepFrame(f)
<1> USE Names
<1>1. /\ a \in Hart /\ a.regs["a0"] = Frame /\ a.sscratch = "a0" /\ a.sepc = 0
      /\ \A r \in Regs \ {"a0"} : a.regs[r] = r
      /\ a.frame = x.frame /\ a.spie = x.spie /\ a.scause = x.scause
  <2>1. /\ x.regs \in [Regs -> Value] /\ x.sscratch = Frame /\ x.regs["a0"] = "a0"
        /\ \A r \in Regs : x.regs[r] = r
    BY DEF Hart, HasFrame, Program
  <2> QED
    BY <2>1 DEF Hart, Swap
<1> HIDE DEF a
<1>2. /\ b \in Hart /\ b.regs = a.regs /\ b.sscratch = a.sscratch /\ b.sepc = a.sepc
      /\ \A r \in TrapFrame : b.frame[r] = IF r \in Regs \ {"a0"} THEN r ELSE x.frame[r]
      /\ b.spie = x.spie /\ b.scause = x.scause
  <2> DEFINE g == [r \in Regs \ {"a0"} |-> a.regs[r]]
  <2>1. g \in [Regs \ {"a0"} -> Value] /\ \A r \in Regs \ {"a0"} : g[r] = r
    BY <1>1 DEF Hart
  <2>2. b = Store(a, g)
    BY DEF SaveRegs
  <2> HIDE DEF g, b
  <2>3. b \in Hart /\ b = [a EXCEPT !.frame = Written(a.frame, g)]
        /\ \A r \in TrapFrame : b.frame[r] = IF r \in Regs \ {"a0"} THEN g[r] ELSE a.frame[r]
    BY <1>1, <2>1, <2>2, Stored
  <2> QED
    BY <1>1, <2>1, <2>3 DEF Hart
<1> HIDE DEF b
<1>3. /\ c \in Hart /\ c.regs["a0"] = Frame /\ c.regs["t0"] = 0 /\ c.sscratch = "a0"
      /\ c.frame = b.frame /\ c.spie = x.spie /\ c.scause = x.scause
  BY <1>1, <1>2 DEF Hart
<1>4. d = Store(c, [r \in {"sepc"} |-> c.regs["t0"]])
  BY DEF SaveSepc, SaveT0
<1> HIDE DEF c, d
<1>5. /\ d \in Hart /\ d.regs = c.regs /\ d.sscratch = "a0" /\ d.frame["sepc"] = 0
      /\ \A r \in TrapFrame \ {"sepc"} : d.frame[r] = b.frame[r]
      /\ d.spie = x.spie /\ d.scause = x.scause
  <2> DEFINE g == [r \in {"sepc"} |-> c.regs["t0"]]
  <2>1. g \in [{"sepc"} -> Value] /\ g["sepc"] = 0
    BY <1>3
  <2> HIDE DEF g
  <2>2. d \in Hart /\ d = [c EXCEPT !.frame = Written(c.frame, g)]
        /\ \A r \in TrapFrame : d.frame[r] = IF r \in {"sepc"} THEN g[r] ELSE c.frame[r]
    BY <1>3, <1>4, <2>1, Stored DEF g
  <2> QED
    BY <1>3, <2>1, <2>2 DEF Hart
<1>6. /\ e \in Hart /\ e.regs["a0"] = Frame /\ e.regs["t0"] = "a0" /\ e.sscratch = "a0"
      /\ e.frame = d.frame /\ e.spie = x.spie /\ e.scause = x.scause
  BY <1>3, <1>5 DEF Hart
<1>7. f = Store(e, [r \in {"a0"} |-> e.regs["t0"]])
  BY DEF SaveA0, SaveT0
<1> HIDE DEF e, f
<1>8. /\ f \in Hart /\ f.regs = e.regs /\ f.frame["a0"] = "a0"
      /\ \A r \in TrapFrame \ {"a0"} : f.frame[r] = d.frame[r]
      /\ f.spie = x.spie /\ f.scause = x.scause
  <2> DEFINE g == [r \in {"a0"} |-> e.regs["t0"]]
  <2>1. g \in [{"a0"} -> Value] /\ g["a0"] = "a0"
    BY <1>6
  <2> HIDE DEF g
  <2>2. f \in Hart /\ f = [e EXCEPT !.frame = Written(e.frame, g)]
        /\ \A r \in TrapFrame : f.frame[r] = IF r \in {"a0"} THEN g[r] ELSE e.frame[r]
    BY <1>6, <1>7, <2>1, Stored DEF g
  <2> QED
    BY <1>6, <2>1, <2>2 DEF Hart
<1>9. f.frame["kernel_sp"] = KernelSp /\ f.frame["sepc"] = 0 /\ Saved(f)
  BY <1>2, <1>5, <1>8 DEF HasFrame, Saved
<1>10. /\ z \in Hart /\ z.sscratch = Frame /\ z.frame = f.frame
       /\ z.spie = x.spie /\ z.scause = x.scause
  BY <1>6, <1>8, <1>9 DEF Hart, KeepFrame
<1>11. Entry(x) = z
  BY DEF Entry, z, f, d, b, a
<1> HIDE DEF z
<1> QED
  BY <1>9, <1>10, <1>11 DEF HasFrame, Saved

LEMMA RestoreLoads ==
  ASSUME NEW x \in Hart, HasFrame(x), Saved(x)
  PROVE  LET y == LoadRegs(LoadSepc(LoadFrame(x)))
         IN  /\ y \in Hart /\ HasFrame(y) /\ y.regs = Program /\ y.sepc = x.frame["sepc"]
             /\ y.spie = x.spie /\ y.scause = x.scause
<1> DEFINE a == LoadFrame(x)
           b == LoadSepc(a)
           c == LoadRegs(b)
<1> USE Names
<1>1. /\ a \in Hart /\ a.regs["a0"] = Frame /\ a.frame = x.frame /\ a.sscratch = x.sscratch
      /\ a.spie = x.spie /\ a.scause = x.scause
  BY DEF Hart, HasFrame, LoadFrame
<1> HIDE DEF a
<1>2. /\ b \in Hart /\ b.regs = a.regs /\ b.frame = x.frame /\ b.sscratch = x.sscratch
      /\ b.sepc = x.frame["sepc"] /\ b.spie = x.spie /\ b.scause = x.scause
  BY <1>1 DEF Hart, LoadSepc
<1> HIDE DEF b
<1>3. [r \in Regs |-> b.frame[r]] = Program
  BY <1>2 DEF Saved, Program
<1>4. c = [b EXCEPT !.regs = Program]
  BY <1>1, <1>2, <1>3 DEF LoadRegs
<1>5. Program \in [Regs -> Value]
  BY DEF Program
<1> HIDE DEF c
<1>6. /\ c \in Hart /\ c.regs = Program /\ c.frame = x.frame /\ c.sscratch = x.sscratch
      /\ c.sepc = x.frame["sepc"] /\ c.spie = x.spie /\ c.scause = x.scause
  BY <1>2, <1>4, <1>5 DEF Hart
<1> QED
  BY <1>6 DEF HasFrame, a, b, c
------------------------------------------------------------------------------
(* The program seen through the mapping is the same code.                  *)
LEMMA SameCode ==
  /\ Uninterrupted!log_record(Uninterrupted!Short) = log_record(Short)
  /\ \A n : Uninterrupted!log(n) = log(n) /\ Uninterrupted!append_early(n) = append_early(n)
  /\ Uninterrupted!panic_handler = panic_handler /\ Uninterrupted!mounted = mounted
  /\ Uninterrupted!console_found = console_found
  /\ Uninterrupted!_start = _start
  /\ \A c : Uninterrupted!turn(c) = turn(c)
<1> USE DEF I, Uninterrupted!I, Do, Uninterrupted!Do, Short, Uninterrupted!Short, Long,
     Uninterrupted!Long, Locked, Uninterrupted!Locked, without_interrupts,
     Uninterrupted!without_interrupts, log_record, Uninterrupted!log_record
<1>1. Uninterrupted!log_record(Uninterrupted!Short) = log_record(Short)
  OBVIOUS
<1>2. \A n : Uninterrupted!log(n) = log(n) /\ Uninterrupted!append_early(n) = append_early(n)
  BY DEF log, Uninterrupted!log, append_early, Uninterrupted!append_early, console_write,
     Uninterrupted!console_write
<1>3. Uninterrupted!panic_handler = panic_handler /\ Uninterrupted!mounted = mounted
  BY DEF panic_handler, Uninterrupted!panic_handler, println, Uninterrupted!println,
     mounted, Uninterrupted!mounted
<1>4. Uninterrupted!console_found = console_found
  BY DEF console_found, Uninterrupted!console_found, dma_alloc, Uninterrupted!dma_alloc,
     alloc, Uninterrupted!alloc, flush_early_buffer, Uninterrupted!flush_early_buffer
<1>5. Uninterrupted!_start = _start
  BY DEF _start, Uninterrupted!_start, heap_init, Uninterrupted!heap_init,
     trap_handler_init, Uninterrupted!trap_handler_init, device_tree_init,
     Uninterrupted!device_tree_init, interrupts_init, Uninterrupted!interrupts_init,
     page_frame_allocator_init, Uninterrupted!page_frame_allocator_init,
     page_table_init, Uninterrupted!page_table_init, alloc_frame,
     Uninterrupted!alloc_frame, managed_ranges, Uninterrupted!managed_ranges, new_time,
     Uninterrupted!new_time, make_device, Uninterrupted!make_device, dma_alloc,
     Uninterrupted!dma_alloc, init_with_device, Uninterrupted!init_with_device, println,
     Uninterrupted!println, alloc, Uninterrupted!alloc, dealloc, Uninterrupted!dealloc,
     shell, Uninterrupted!shell
<1>6. \A c : Uninterrupted!turn(c) = turn(c)
  BY DEF turn, Uninterrupted!turn, call, Uninterrupted!call, alloc, Uninterrupted!alloc,
     dealloc, Uninterrupted!dealloc, stats, Uninterrupted!stats, println,
     Uninterrupted!println, shell, Uninterrupted!shell, help, Uninterrupted!help,
     memory, Uninterrupted!memory, shell_allocate, Uninterrupted!shell_allocate,
     benchmark_allocator, Uninterrupted!benchmark_allocator, sysinfo,
     Uninterrupted!sysinfo, new_time, Uninterrupted!new_time, new_time_typed,
     Uninterrupted!new_time_typed, api, Uninterrupted!api,
     api_call, Uninterrupted!api_call, api_show, Uninterrupted!api_show, api_flush,
     Uninterrupted!api_flush, dump_non_empty_pages, Uninterrupted!dump_non_empty_pages,
     exit, Uninterrupted!exit
<1> QED
  BY <1>1, <1>2, <1>3, <1>4, <1>5, <1>6, Zenon
------------------------------------------------------------------------------
LEMMA SeenIs ==
  ASSUME k \in State
  PROVE  /\ h.at = "program" => Seen = k
         /\ h.at # "program" => Seen = [k EXCEPT !.sie = h.spie]
         /\ Seen.code = k.code /\ Seen.status = k.status /\ Seen.timer = k.timer
         /\ Seen.ready = k.ready /\ Seen.stie = k.stie
<1>1. h.at = "program" => Seen = k
  BY DEF Seen, InProgram, State
<1>2. h.at # "program" => Seen = [k EXCEPT !.sie = h.spie]
  BY DEF Seen, InProgram
<1> QED
  BY <1>1, <1>2 DEF Seen, State

LEMMA SeenNext ==
  ASSUME k' \in State
  PROVE  /\ h'.at = "program" => Seen' = k'
         /\ h'.at # "program" => Seen' = [k' EXCEPT !.sie = h'.spie]
  BY DEF Seen, InProgram, State

(* Each instruction is one of the program's.                               *)
LEMMA SameExec ==
  ASSUME Exec, Seen = k, Seen' = k'
  PROVE  Uninterrupted!Exec
<1> USE SameCode DEF At, Uninterrupted!At, Past, Uninterrupted!Past, Then, Uninterrupted!Then,
        Arg, Uninterrupted!Arg, Panics, Uninterrupted!Panics
<1>1. ASSUME csrr \/ csrci \/ restore \/ lock \/ unlock \/ uart PROVE Uninterrupted!Exec
  BY <1>1 DEF csrr, csrci, restore, lock, unlock, uart, Uninterrupted!Exec, Uninterrupted!csrr,
     Uninterrupted!csrci, Uninterrupted!restore, Uninterrupted!lock, Uninterrupted!unlock,
     Uninterrupted!uart
<1>2. ASSUME log_macro \/ unless_written \/ append PROVE Uninterrupted!Exec
  BY <1>2 DEF log_macro, unless_written, append, Uninterrupted!Exec, Uninterrupted!log_macro,
     Uninterrupted!unless_written, Uninterrupted!append
<1>a. ASSUME NEW lines, send_bytes(lines) PROVE Uninterrupted!send_bytes(lines)
  <2> DEFINE all == {lines[i] : i \in DOMAIN lines}
  <2>1. PICK refused \in Refusals(all) :
          k' = [Past EXCEPT !.written = TRUE, !.sent = @ \o lines, !.lost = @ \cup refused]
    BY <1>a DEF send_bytes
  <2>2. refused \in Uninterrupted!Refusals(all)
    <3>1. Uninterrupted!Cardinality(Seen.lost) = Cardinality(k.lost)
      BY DEF Cardinality, Uninterrupted!Cardinality
    <3> QED
      BY <2>1, <3>1 DEF Refusals, Uninterrupted!Refusals
  <2>3. Uninterrupted!Past = Past
    OBVIOUS
  <2> HIDE DEF Past, Uninterrupted!Past
  <2>4. Seen' = [Uninterrupted!Past EXCEPT !.written = TRUE, !.sent = @ \o lines,
                                          !.lost = @ \cup refused]
    BY <2>1, <2>3
  <2> QED
    BY <2>2, <2>4 DEF Uninterrupted!send_bytes
<1>b. NoConsole => Uninterrupted!NoConsole
  BY DEF NoConsole, Uninterrupted!NoConsole
<1>c. ASSUME match_console \/ send_early PROVE Uninterrupted!Exec
  BY <1>a, <1>b, <1>c DEF match_console, send_early, Uninterrupted!Exec,
     Uninterrupted!match_console, Uninterrupted!send_early
<1>3. ASSUME walk_list \/ unless_null \/ becomes_ready \/ scan_slots \/ set_console
      PROVE  Uninterrupted!Exec
  BY <1>3 DEF walk_list, unless_null, becomes_ready, scan_slots, set_console, Uninterrupted!Exec,
     Uninterrupted!walk_list, Uninterrupted!unless_null, Uninterrupted!becomes_ready,
     Uninterrupted!scan_slots, Uninterrupted!set_console, Readies, Uninterrupted!Readies
<1>4. ASSUME parse_fdt \/ block_device \/ mount \/ csrs \/ mul \/ set_timer \/ frame \/ get
             \/ frame_allocator \/ exit_qemu
      PROVE  Uninterrupted!Exec
  BY <1>4 DEF parse_fdt, block_device, mount, csrs, mul, set_timer, frame, get, frame_allocator,
     exit_qemu, Uninterrupted!Exec, Uninterrupted!parse_fdt, Uninterrupted!block_device,
     Uninterrupted!mount, Uninterrupted!csrs, Uninterrupted!mul, Uninterrupted!set_timer,
     Uninterrupted!frame, Uninterrupted!get, Uninterrupted!frame_allocator, Uninterrupted!exit_qemu
<1>5. ASSUME prompt PROVE Uninterrupted!Exec
  BY <1>5 DEF prompt, Uninterrupted!Exec, Uninterrupted!prompt
<1> QED
  BY <1>1, <1>2, <1>c, <1>3, <1>4, <1>5 DEF Exec

(* The trap frame is set up by the instruction that says so.               *)
LEMMA ExecReady ==
  ASSUME Exec, k \in State, "sscratch" \in k'.ready, "sscratch" \notin k.ready
  PROVE  At("sscratch")
<1> USE DEF At, Past, Then, Panics, State
<1>1. ASSUME csrr \/ csrci \/ restore \/ lock \/ unlock \/ uart PROVE k'.ready = k.ready
  BY <1>1 DEF csrr, csrci, restore, lock, unlock, uart
<1>2. ASSUME log_macro \/ match_console \/ unless_written \/ append \/ send_early
      PROVE  k'.ready = k.ready
  BY <1>2, ZenonT(30) DEF log_macro, match_console, unless_written, append, send_early,
     send_bytes, NoConsole
<1>3. ASSUME walk_list \/ unless_null \/ scan_slots \/ set_console PROVE k'.ready = k.ready
  BY <1>3 DEF walk_list, unless_null, scan_slots, set_console
<1>4. ASSUME parse_fdt \/ block_device \/ mount \/ csrs \/ mul \/ set_timer \/ frame \/ get
             \/ frame_allocator \/ exit_qemu \/ prompt
      PROVE  k'.ready = k.ready
  BY <1>4, ZenonT(30) DEF parse_fdt, block_device, mount, csrs, mul, set_timer, frame, get, frame_allocator,
     exit_qemu, prompt
<1>5. ASSUME becomes_ready PROVE k'.ready = k.ready \cup {Head(k.code).op} /\ k.status = "on"
  BY <1>5 DEF becomes_ready
<1> QED
  BY <1>1, <1>2, <1>3, <1>4, <1>5 DEF Exec

Stutters == Seen' = Seen
Follows == TrapInv' /\ (Uninterrupted!Next \/ Stutters)

LEMMA RunFollows == ASSUME TrapInv, Run PROVE Follows
<1>1. /\ h \in Hart /\ k \in State /\ Inv(Seen) /\ h.at = "program" /\ h.regs = Program
      /\ ("sscratch" \in k.ready => HasFrame(h)) /\ Exec
      /\ h' = IF At("sscratch") THEN setup_trap_frame(h) ELSE h
  BY DEF TrapInv, Run
<1>2. Seen = k /\ Inv(k)
  BY <1>1, SeenIs
<1>3. Inv(k')
  BY <1>1, <1>2, ExecKeepsInv
<1>4. /\ h' \in Hart /\ h'.at = "program" /\ h'.regs = Program
      /\ At("sscratch") => HasFrame(h')
      /\ HasFrame(h) => HasFrame(h')
  <2>1. CASE At("sscratch")
    BY <1>1, <2>1, Names DEF setup_trap_frame, Hart, HasFrame
  <2>2. CASE ~ At("sscratch")
    BY <1>1, <2>2
  <2> QED
    BY <2>1, <2>2
<1>5. "sscratch" \in k'.ready => HasFrame(h')
  BY <1>1, <1>4, ExecReady
<1>6. k' \in State /\ Seen' = k'
  BY <1>3, <1>4, SeenNext DEF Inv
<1>7. Uninterrupted!Next
  BY <1>1, <1>2, <1>6, SameExec DEF Uninterrupted!Next
<1>8. Inv(Seen)'
  BY <1>3, <1>6
<1>9. TrapInv'
  BY <1>4, <1>5, <1>6, <1>8 DEF TrapInv
<1> QED
  BY <1>7, <1>9 DEF Follows

LEMMA TrapFollows ==
  ASSUME TrapInv, Interrupt \/ Breakpoint
  PROVE  Follows
<1>1. /\ h \in Hart /\ k \in State /\ Inv(Seen) /\ h.at = "program" /\ h.regs = Program
      /\ ("sscratch" \in k.ready => HasFrame(h)) /\ k.status = "on"
  BY DEF TrapInv, Interrupt, Breakpoint, Trap, At
<1>2. Seen = k /\ Inv(k)
  BY <1>1, SeenIs
<1>3. TrapReady \subseteq k.ready
  <2>1. CASE Interrupt
    BY <1>2, <2>1 DEF Interrupt, Inv
  <2>2. CASE Breakpoint
    BY <1>1, <1>2, <2>2, AtBreakpoint DEF Breakpoint, At
  <2> QED
    BY <2>1, <2>2
<1>4. HasFrame(h) /\ "stvec" \in k.ready
  BY <1>1, <1>3 DEF TrapReady
<1>5. PICK cause \in {Timer, Break} : Trap(cause)
        /\ (cause = Timer => Interrupt) /\ (cause = Break => Breakpoint)
  <2>1. Timer # Break
    BY DEF Timer, Break, Scause
  <2> QED
    BY <2>1 DEF Interrupt, Breakpoint, Timer, Break
<1>6. /\ h' = [h EXCEPT !.at = "entry", !.sepc = 0, !.spie = k.sie, !.scause = cause]
      /\ k' = [k EXCEPT !.sie = FALSE]
  BY <1>1, <1>4, <1>5 DEF Trap, State
<1>7. cause \in [interrupt : BOOLEAN, code : Nat] /\ k.sie \in BOOLEAN
  <2>1. /\ Timer \in [interrupt : BOOLEAN, code : Nat]
        /\ Break \in [interrupt : BOOLEAN, code : Nat]
    BY DEF Timer, Break, Scause
  <2> QED
    BY <1>1, <1>5, <2>1 DEF State
<1>8. /\ h' \in Hart /\ h'.at = "entry" /\ h'.regs = Program /\ h'.sepc = 0 /\ h'.spie = k.sie
      /\ h'.scause = cause /\ HasFrame(h')
  BY <1>1, <1>4, <1>6, <1>7, Names DEF Hart, HasFrame
<1>9. /\ k' \in State /\ k'.status = "on" /\ k'.ready = k.ready /\ k'.code = k.code
      /\ k'.stie = k.stie /\ k'.timer = k.timer
  BY <1>1, <1>6 DEF State
<1>10. Seen' = Seen
  <2>1. Seen' = [k' EXCEPT !.sie = k.sie]
    BY <1>8, <1>9, SeenNext
  <2> QED
    BY <1>1, <1>2, <1>6, <2>1 DEF State
<1>11. Inv(Seen)'
  BY <1>1, <1>10
<1>12. Timer # Break
  BY DEF Timer, Break, Scause
<1>13. /\ cause = Timer => k.sie /\ k.stie /\ k.timer = "pending"
       /\ cause = Break => Head(k.code).op = "ebreak"
  BY <1>5, <1>12 DEF Interrupt, Breakpoint, At
<1>14. Trapped'
  BY <1>3, <1>5, <1>8, <1>9, <1>13 DEF Trapped
<1>15. TrapInv'
  BY <1>5, <1>8, <1>9, <1>11, <1>12, <1>13, <1>14 DEF TrapInv
<1> QED
  BY <1>10, <1>15 DEF Follows, Stutters

(* In a trap the program waits.                                            *)
LEMMA StillTrapped ==
  ASSUME TrapInv, UNCHANGED k, h' \in Hart, h.at # "program", h'.at # "program",
         h'.spie = h.spie, h'.scause = h.scause, HasFrame(h')
  PROVE  Trapped' /\ Stutters /\ Inv(Seen)' /\ k' \in State /\ Arg' = Arg
<1>1. k \in State /\ Inv(Seen) /\ Trapped
  BY DEF TrapInv
<1>2. Trapped'
  BY <1>1 DEF Trapped
<1>3. Seen' = Seen
  BY <1>1, SeenIs, SeenNext
<1> QED
  BY <1>1, <1>2, <1>3 DEF Stutters, Arg

LEMMA SaveFollows == ASSUME TrapInv, Save PROVE Follows
<1>1. /\ h \in Hart /\ h.at = "entry" /\ h.regs = Program /\ h.sepc = 0 /\ HasFrame(h)
      /\ h' = [Entry(h) EXCEPT !.at = "handler"] /\ UNCHANGED k
      /\ (h.scause = Timer => k.timer = "pending")
  BY DEF TrapInv, Save, Trapped
<1>2. /\ Entry(h) \in Hart /\ HasFrame(Entry(h)) /\ Saved(Entry(h)) /\ Entry(h).frame["sepc"] = 0
      /\ Entry(h).spie = h.spie /\ Entry(h).scause = h.scause
  BY <1>1, EntrySaves
<1>3. /\ h' \in Hart /\ h'.at = "handler" /\ HasFrame(h') /\ Saved(h') /\ h'.frame["sepc"] = 0
      /\ h'.spie = h.spie /\ h'.scause = h.scause
  BY <1>1, <1>2 DEF Hart, HasFrame, Saved
<1>4. Trapped' /\ Stutters /\ Inv(Seen)' /\ k' \in State
  BY <1>1, <1>3, StillTrapped
<1>5. TrapInv'
  BY <1>1, <1>3, <1>4 DEF TrapInv
<1> QED
  BY <1>4, <1>5 DEF Follows

LEMMA CalledKeeps ==
  ASSUME NEW x \in Hart
  PROVE  /\ Called(x) \in Hart /\ Called(x).at = "exit" /\ Called(x).frame = x.frame
         /\ Called(x).sscratch = x.sscratch /\ Called(x).spie = x.spie
         /\ Called(x).scause = x.scause
<1>1. x.regs \in [Regs -> Value] /\ [r \in CallerSaved |-> Garbage] \in [CallerSaved -> Value]
  BY Names DEF Hart
<1>2. Written(x.regs, [r \in CallerSaved |-> Garbage]) \in [Regs -> Value]
  BY <1>1, WrittenIs, SMTT(30)
<1> QED
  BY <1>2 DEF Hart, Called

LEMMA HandleFollows == ASSUME TrapInv, Handle PROVE Follows
<1>1. /\ h \in Hart /\ h.at = "handler" /\ Saved(h) /\ h.frame["sepc"] = 0 /\ HasFrame(h)
      /\ k \in State /\ Inv(Seen) /\ Trapped /\ (h.scause = Timer => k.timer = "pending")
  BY DEF TrapInv, Handle, Trapped
<1>2. Timer # Break /\ h.scause \in {Timer, Break}
  BY <1>1 DEF Timer, Break, Scause, Trapped
<1>3. CASE h.scause = Timer
  <2>1. /\ "sysinfo" \in k.ready /\ k.stie /\ h.spie /\ k.timer = "pending" /\ k.status = "on"
    BY <1>1, <1>2, <1>3, SeenIs DEF Inv, Trapped
  <2>2. reason(h.scause) = "SupervisorTimerInterrupt"
    BY <1>3 DEF reason, Timer, Scause
  <2>3. k' = [k EXCEPT !.timer = "armed"] /\ h' = Called(h)
    BY <2>1, <2>2 DEF Handle, HandleTimer, HandleBreakpoint
  <2>4. /\ h' \in Hart /\ h'.at = "exit" /\ Saved(h') /\ HasFrame(h') /\ h'.frame = h.frame
        /\ h'.spie = h.spie /\ h'.scause = h.scause
    BY <1>1, <2>3, CalledKeeps DEF Saved, HasFrame
  <2>5. /\ k' \in State /\ k'.status = "on" /\ k'.ready = k.ready /\ k'.stie = k.stie
        /\ k'.code = k.code
    BY <1>1, <2>1, <2>3 DEF State
  <2>6. Seen = [k EXCEPT !.sie = h.spie] /\ Seen' = [k' EXCEPT !.sie = h.spie]
    BY <1>1, <2>4, <2>5, SeenIs, SeenNext
  <2>7. Seen' = [Seen EXCEPT !.timer = "armed"]
    BY <1>1, <2>3, <2>6 DEF State
  <2>8. Seen.sie = h.spie
    BY <1>1, <2>6 DEF State
  <2>9. Uninterrupted!Rearm
    BY <1>1, <2>1, <2>7, <2>8, SeenIs DEF Uninterrupted!Rearm
  <2>10. Inv(Seen')
    BY <1>1, <2>1, <2>7, SeenIs, Irrelevant
  <2>11. Trapped'
    BY <1>1, <2>4, <2>5 DEF Trapped
  <2>12. TrapInv'
    BY <1>1, <1>2, <1>3, <2>4, <2>5, <2>10, <2>11 DEF TrapInv
  <2> QED
    BY <2>9, <2>12 DEF Follows, Uninterrupted!Next
<1>4. CASE h.scause = Break
  <2>1. reason(h.scause) = "Breakpoint"
    BY <1>4 DEF reason, Break, Scause
  <2>2. UNCHANGED k /\ h' = [Called(h) EXCEPT !.frame["sepc"] = @ + ebreak_size]
    BY <2>1 DEF Handle, HandleTimer, HandleBreakpoint
  <2>3. Arg \in {2, 4} /\ ebreak_size = Arg
    <3>1. k.status = "on" /\ Head(k.code).op = "ebreak"
      BY <1>1, <1>2, <1>4 DEF Trapped
    <3>2. Arg \in {2, 4}
      BY <1>1, <3>1, SeenIs, AtBreakpoint DEF Arg
    <3> QED
      BY <3>2 DEF ebreak_size, LowBits
  <2>4. Called(h) \in Hart /\ Called(h).at = "exit" /\ Called(h).frame = h.frame
        /\ Called(h).sscratch = h.sscratch /\ Called(h).spie = h.spie /\ Called(h).scause = h.scause
    BY <1>1, CalledKeeps
  <2>5. Called(h).frame["sepc"] + ebreak_size = Arg /\ Arg \in Value
    BY <1>1, <2>3, <2>4 DEF Value
  <2>6. h' = [Called(h) EXCEPT !.frame = [h.frame EXCEPT !["sepc"] = Arg]]
    BY <2>2, <2>4, <2>5 DEF Hart
  <2>7. /\ [h.frame EXCEPT !["sepc"] = Arg] \in [TrapFrame -> Value]
        /\ [h.frame EXCEPT !["sepc"] = Arg]["sepc"] = Arg
        /\ \A r \in TrapFrame \ {"sepc"} : [h.frame EXCEPT !["sepc"] = Arg][r] = h.frame[r]
    BY <1>1, <2>5, Names DEF Hart
  <2>8. /\ h' \in Hart /\ h'.at = "exit" /\ h'.spie = h.spie /\ h'.scause = h.scause
        /\ h'.sscratch = h.sscratch /\ h'.frame = [h.frame EXCEPT !["sepc"] = Arg]
    BY <2>4, <2>6, <2>7 DEF Hart
  <2>9. Saved(h') /\ HasFrame(h') /\ h'.frame["sepc"] = Arg
    BY <1>1, <2>7, <2>8, Names DEF Saved, HasFrame
  <2>10. Trapped' /\ Stutters /\ Inv(Seen)' /\ k' \in State /\ Arg' = Arg
    BY <1>1, <2>2, <2>8, <2>9, StillTrapped
  <2>11. TrapInv'
    BY <1>2, <1>4, <2>8, <2>9, <2>10 DEF TrapInv
  <2> QED
    BY <2>10, <2>11 DEF Follows
<1> QED
  BY <1>2, <1>3, <1>4

LEMMA RestoreFollows == ASSUME TrapInv, Restore PROVE Follows
<1> DEFINE y == LoadRegs(LoadSepc(LoadFrame(h)))
<1>1. /\ h \in Hart /\ h.at = "exit" /\ Saved(h) /\ HasFrame(h) /\ UNCHANGED k
      /\ h' = [y EXCEPT !.at = "sret"]
      /\ h.frame["sepc"] = (IF h.scause = Break THEN Arg ELSE 0)
  BY DEF TrapInv, Restore, Trapped
<1>2. /\ y \in Hart /\ HasFrame(y) /\ y.regs = Program /\ y.sepc = h.frame["sepc"]
      /\ y.spie = h.spie /\ y.scause = h.scause
  BY <1>1, RestoreLoads
<1> HIDE DEF y
<1>3. /\ h' \in Hart /\ h'.at = "sret" /\ HasFrame(h') /\ h'.regs = Program
      /\ h'.sepc = h.frame["sepc"] /\ h'.spie = h.spie /\ h'.scause = h.scause
  BY <1>1, <1>2 DEF Hart, HasFrame
<1>4. Trapped' /\ Stutters /\ Inv(Seen)' /\ k' \in State /\ Arg' = Arg
  BY <1>1, <1>3, StillTrapped
<1>5. TrapInv'
  BY <1>1, <1>3, <1>4 DEF TrapInv
<1> QED
  BY <1>4, <1>5 DEF Follows

LEMMA SretFollows == ASSUME TrapInv, Sret PROVE Follows
<1>1. /\ h \in Hart /\ h.at = "sret" /\ h.regs = Program /\ k \in State /\ Inv(Seen)
      /\ h.sepc = (IF h.scause = Break THEN Arg ELSE 0) /\ Trapped
      /\ h' = [h EXCEPT !.at = "program", !.scause = NoCause, !.sepc = 0, !.spie = FALSE,
                        !.frame = NoFrame(@["kernel_sp"])]
  BY DEF TrapInv, Sret
<1>2. Seen = [k EXCEPT !.sie = h.spie] /\ h.spie \in BOOLEAN /\ k.status = "on"
  BY <1>1, SeenIs DEF Hart, Trapped
<1>3. /\ NoFrame(KernelSp) \in [TrapFrame -> Value]
      /\ NoFrame(KernelSp)["kernel_sp"] = KernelSp
      /\ NoCause \in [interrupt : BOOLEAN, code : Nat]
  BY Names DEF NoFrame, NoCause, Scause
<1>4. h.frame["kernel_sp"] = KernelSp
  BY <1>1 DEF Trapped, HasFrame
<1>5. h' \in Hart /\ h'.at = "program" /\ h'.regs = Program /\ HasFrame(h')
  BY <1>1, <1>3, <1>4, Names DEF Hart, Trapped, HasFrame
<1>6. CASE h.scause = Break
  <2>1. Head(k.code).op = "ebreak" /\ Arg \in {2, 4}
    <3>1. Head(k.code).op = "ebreak"
      BY <1>1, <1>6 DEF Trapped, Timer, Break, Scause
    <3> QED
      BY <1>1, <1>2, <3>1, SeenIs, AtBreakpoint DEF Arg
  <2>2. k' = [k EXCEPT !.code = Tail(@), !.sie = h.spie]
    BY <1>1, <1>6, <2>1 DEF Sret, Resumable, Goes, Past, State
  <2>3. k' = [Seen EXCEPT !.code = Tail(@)]
    BY <1>1, <1>2, <2>2 DEF State
  <2>4. Inv(k')
    <3>1. Seen.status = "on" /\ Head(Seen.code).op = "ebreak"
      BY <1>1, <1>2, <2>1, SeenIs
    <3> QED
      BY <1>1, <2>3, <3>1, Passes
  <2>5. k' \in State /\ Seen' = k'
    BY <1>5, <2>4, SeenNext DEF Inv
  <2>6. Uninterrupted!ebreak
    BY <1>1, <1>2, <2>1, <2>3, <2>5, SeenIs
       DEF Uninterrupted!ebreak, Uninterrupted!At, Uninterrupted!Past
  <2>7. TrapInv'
    BY <1>5, <2>4, <2>5 DEF TrapInv
  <2> QED
    BY <2>6, <2>7 DEF Follows, Uninterrupted!Next
<1>7. CASE h.scause # Break
  <2>1. k' = Seen
    BY <1>1, <1>2, <1>7 DEF Sret, Resumable, Goes
  <2>2. k' \in State /\ Seen' = k'
    BY <1>1, <1>5, <2>1, SeenNext DEF Inv
  <2>3. TrapInv'
    BY <1>1, <1>5, <2>1, <2>2 DEF TrapInv
  <2> QED
    BY <2>1, <2>2, <2>3 DEF Follows, Stutters
<1> QED
  BY <1>6, <1>7

LEMMA ExpireFollows == ASSUME TrapInv, TimerExpires PROVE Follows
<1>1. /\ k \in State /\ Inv(Seen) /\ k.status = "on" /\ k.timer = "armed"
      /\ k' = [k EXCEPT !.timer = "pending"] /\ h' = h
  BY DEF TrapInv, TimerExpires, Expire
<1>2. /\ k' \in State /\ k'.status = "on" /\ k'.ready = k.ready /\ k'.stie = k.stie
      /\ k'.code = k.code /\ k'.timer = "pending"
  BY <1>1 DEF State
<1>3. Seen' = [Seen EXCEPT !.timer = "pending"]
  <2>1. CASE h.at = "program"
    BY <1>1, <1>2, <2>1, SeenIs, SeenNext
  <2>2. CASE h.at # "program"
    <3>1. Seen = [k EXCEPT !.sie = h.spie] /\ Seen' = [k' EXCEPT !.sie = h.spie]
      BY <1>1, <1>2, <2>2, SeenIs, SeenNext
    <3> QED
      BY <1>1, <3>1 DEF State
  <2> QED
    BY <2>1, <2>2
<1>4. Uninterrupted!Expire
  BY <1>1, <1>3, SeenIs DEF Uninterrupted!Expire
<1>5. Inv(Seen')
  <2>1. "sysinfo" \in Seen.ready
    BY <1>1, SeenIs DEF Inv
  <2> QED
    BY <1>1, <1>3, <2>1, Irrelevant
<1>6. Trapped => Trapped'
  BY <1>1, <1>2 DEF Trapped
<1>7. TrapInv'
  BY <1>1, <1>2, <1>5, <1>6 DEF TrapInv, Arg
<1> QED
  BY <1>4, <1>7 DEF Follows, Uninterrupted!Next

LEMMA NextFollows == ASSUME TrapInv, TrapNext PROVE Follows
  BY RunFollows, TrapFollows, SaveFollows, HandleFollows, RestoreFollows, SretFollows, ExpireFollows
     DEF TrapNext

LEMMA InitFollows == ASSUME TrapInit PROVE TrapInv /\ Uninterrupted!Init
<1>1. Inv(k) /\ k \in State
  BY InitInv DEF TrapInit, Inv
<1>2. /\ h.at = "program" /\ h.regs = Program /\ "sscratch" \notin k.ready
  BY DEF TrapInit, Init
<1>3. Seen = k
  BY <1>1, <1>2, SeenIs
<1>4. h \in Hart
  <2>1. /\ NoFrame(Garbage) \in [TrapFrame -> Value] /\ Program \in [Regs -> Value]
        /\ NoCause \in [interrupt : BOOLEAN, code : Nat]
    BY Names DEF NoFrame, NoCause, Scause, Program
  <2> QED
    BY <2>1, Names DEF TrapInit, Hart
<1>5. TrapInv
  BY <1>1, <1>2, <1>3, <1>4 DEF TrapInv
<1>6. Uninterrupted!Init
  BY <1>3, SameCode DEF TrapInit, Init, Uninterrupted!Init
<1> QED
  BY <1>5, <1>6
------------------------------------------------------------------------------
LEMMA AlwaysTrapInv == TrapInit /\ [][TrapNext]_vars => []TrapInv
<1>1. TrapInit => TrapInv
  BY InitFollows
<1>2. TrapInv /\ [TrapNext]_vars => TrapInv'
  <2>1. ASSUME TrapInv, UNCHANGED vars PROVE TrapInv'
    BY <2>1 DEF vars, TrapInv, Seen, InProgram, Trapped, Arg
  <2> QED
    BY <2>1, NextFollows DEF Follows
<1> QED
  BY <1>1, <1>2, PTL

(* Whatever instruction a trap hits, the kernel goes on as the program     *)
(* alone would: every step of the interrupted kernel is a step of the      *)
(* program that is never interrupted, or none.                             *)
THEOREM TrapsAreInvisible == TrapSpec => RefinesUninterrupted
<1>1. TrapInit => Uninterrupted!Init
  BY InitFollows
<1>2. TrapInv /\ [TrapNext]_vars => [Uninterrupted!Next]_Seen
  <2>1. ASSUME UNCHANGED vars PROVE Seen' = Seen
    BY <2>1 DEF vars, Seen, InProgram
  <2> QED
    BY <2>1, NextFollows DEF Follows, Stutters
<1> QED
  BY <1>1, <1>2, AlwaysTrapInv, PTL DEF TrapSpec, RefinesUninterrupted, Uninterrupted!Spec

(* A trap always finds its handler and its frame, and comes back to the    *)
(* program's registers at the start of an instruction.                     *)
NeverLost == k.status # "lost"

(* No behaviour of the kernel with its traps reaches a lost state.         *)
THEOREM TrapsComeBack == TrapSpec => []NeverLost
<1>1. TrapInv => NeverLost
  BY DEF TrapInv, State, NeverLost
<1> QED
  BY <1>1, AlwaysTrapInv, PTL DEF TrapSpec

(* At the prompt no lock is held, no critical section is open and the      *)
(* timer can interrupt, whatever command ran before and wherever it was    *)
(* interrupted.                                                            *)
THEOREM PromptAlwaysClean == TrapSpec => []PromptIsClean
<1>1. TrapInv => PromptIsClean
  <2> SUFFICES ASSUME TrapInv, At("prompt"), InProgram
               PROVE  k.locks = {} /\ k.saved = << >> /\ k.sie /\ k.stie
    BY DEF PromptIsClean
  <2>1. Seen = k /\ Inv(k) /\ k.status = "on" /\ Head(k.code).op = "prompt"
    BY SeenIs DEF TrapInv, InProgram, At
  <2> QED
    BY <2>1, CleanAtPrompt
<1> QED
  BY <1>1, AlwaysTrapInv, PTL DEF TrapSpec

(* The kernel never waits for a lock it holds, interrupted or not: the     *)
(* handler takes none, and the program finds each one free.                *)
THEOREM NeverWaitsForItself == TrapSpec => []LocksAreFree
<1>1. TrapInv => LocksAreFree
  <2> SUFFICES ASSUME TrapInv, At("lock") PROVE Arg \notin k.locks
    BY DEF LocksAreFree
  <2>1. k \in State /\ Inv(Seen) /\ k.status = "on" /\ Head(k.code).op = "lock"
    BY DEF TrapInv, At
  <2>2. Seen.locks = k.locks
    BY <2>1 DEF Seen, State
  <2> QED
    BY <2>1, <2>2, SeenIs, FreeAtLock DEF Arg
<1> QED
  BY <1>1, AlwaysTrapInv, PTL DEF TrapSpec

(* The console is given the log in order, and at the prompt and after a    *)
(* panic all of it but the early lines that there was no room for; what    *)
(* its driver fails on was given to it.                                    *)
THEOREM LogAlwaysComplete == TrapSpec => []LogIsComplete
<1>1. TrapInv => LogIsComplete
  <2> SUFFICES ASSUME TrapInv PROVE LogIsComplete
    OBVIOUS
  <2>1. k \in State /\ Inv(Seen)
    BY DEF TrapInv
  <2>2. /\ Seen.sent = k.sent /\ Seen.lost = k.lost /\ Seen.before = k.before /\ Seen.lines = k.lines /\ Seen.early_len = k.early_len
        /\ Seen.console = k.console /\ Seen.status = k.status /\ Seen.code = k.code
    BY <2>1 DEF Seen, State
  <2> HIDE DEF Seen
  <2>3. /\ \A i, j \in DOMAIN k.sent : i < j => k.sent[i] < k.sent[j]
        /\ \A n \in k.lost : InSeq(n, k.sent)
        /\ k.status = "on" /\ Head(k.code).op \in {"prompt", "loop"} /\ k.console =>
             \A n \in DOMAIN k.lines :
               InSeq(n, k.sent) \/ (n <= k.before /\ k.early_len + k.lines[n] > EARLY)
    BY <2>1, <2>2, LogIsKept DEF Given
  <2> QED
    BY <2>3 DEF LogIsComplete, Sent, At, InSeq
<1> QED
  BY <1>1, AlwaysTrapInv, PTL DEF TrapSpec
=============================================================================
