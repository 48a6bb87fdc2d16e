-------------------------- MODULE KernelProgramProofs -------------------------
(***************************************************************************)
(* What the kernel's program guarantees whatever the machine decides: it   *)
(* never waits for a lock it holds, comes to the prompt with nothing       *)
(* locked and interrupts on, and loses no log line.                        *)
(*                                                                         *)
(* The code still to run is a sequence of instructions, so that the        *)
(* argument is about programs: a Context is the part of the state that the *)
(* instructions rely on, Step what one instruction requires and does, and  *)
(* Leads(code, a, b) says that code runs from a to b with every            *)
(* requirement met on the way.                                             *)
(***************************************************************************)
EXTENDS KernelProgram, TLAPS

LockNames == {"HEAP", "CONSOLE", "EARLY_BUF", "FS", "PAGE_FRAME_ALLOCATOR"}
Ops == {"csrr", "csrci", "restore", "lock", "unlock", "uart", "log", "match_console",
        "unless_written", "append", "send_early", "walk_list", "unless_null", "scan_slots",
        "set_console", "parse_fdt", "block_device", "frame", "mount", "csrs", "set_timer",
        "mul", "get", "frame_allocator", "prompt", "exit_qemu", "ebreak", "loop"} \cup Readies
Instruction == [op : Ops, arg : Nat \cup LockNames]
Code == Seq(Instruction)

LogLocks == {"CONSOLE", "EARLY_BUF"}
HeapLocks == LogLocks \cup {"HEAP"}
TrapReady == {"sscratch", "stvec"}

(* A line on its way through the logger: not yet offered to the console,   *)
(* offered, on its way to the early buffer.  While the console is new the  *)
(* early buffer is on its way.                                             *)
Line(at, n) == [at |-> at, n |-> n]
NoLine == Line("none", 0)
EarlyLines == Line("flush", 0)
OnTheWay == [at : {"none", "line", "offered", "early", "flush"}, n : Nat]

(* may: the console can still be set, as it is once.                       *)
Context == [locks : SUBSET LockNames, saved : Seq(BOOLEAN), sie : BOOLEAN, stie : BOOLEAN,
            ready : SUBSET TrapReady, line : OnTheWay, may : BOOLEAN]

Free(a, names) == a.locks \cap names = {}
Clean(a) == a.locks = {} /\ a.saved = << >> /\ a.sie /\ a.stie
Handled(a) == a.ready = TrapReady

(* Instructions that do nothing the context knows of; the second kind may  *)
(* log or panic.                                                           *)
Silent == {"uart", "loop", "exit_qemu"}
MayLog == {"walk_list", "unless_null", "parse_fdt", "block_device", "frame", "set_timer",
           "mul", "get", "frame_allocator"}

Quiet(i, a, b) ==
  /\ a.line = NoLine
  /\ \/ i.op \in Silent /\ b = a
     \/ i.op \in MayLog /\ Free(a, LogLocks) /\ b = a
     \/ i.op = "log" /\ i.arg \in Nat /\ Free(a, LogLocks) /\ b = a
     \/ i.op = "mount" /\ Free(a, LogLocks \cup {"FS"}) /\ b = a
     \/ i.op = "prompt" /\ Clean(a) /\ Handled(a) /\ ~ a.may /\ b = a
     \/ i.op = "ebreak" /\ i.arg \in {2, 4} /\ Handled(a) /\ b = a
     \/ i.op = "scan_slots" /\ a.may /\ Free(a, HeapLocks) /\ b = [a EXCEPT !.may = FALSE]
     \/ i.op = "set_console" /\ a.may
        /\ b = [a EXCEPT !.may = FALSE, !.line = EarlyLines]
     \/ i.op \in Readies /\ b = [a EXCEPT !.ready = @ \cup ({i.op} \cap TrapReady)]
     \/ i.op = "csrs" /\ Handled(a) /\ b = [a EXCEPT !.sie = TRUE, !.stie = TRUE]
     \/ i.op = "csrr" /\ b = [a EXCEPT !.saved = <<a.sie>> \o @]
     \/ i.op = "csrci" /\ b = [a EXCEPT !.sie = FALSE]
     \/ i.op = "restore" /\ a.saved # << >>
        /\ b = [a EXCEPT !.sie = @ \/ Head(a.saved), !.saved = Tail(@)]

Step(i, a, b) ==
  \/ i.op = "lock" /\ i.arg \in LockNames \ a.locks /\ b = [a EXCEPT !.locks = @ \cup {i.arg}]
  \/ i.op = "unlock" /\ b = [a EXCEPT !.locks = @ \ {i.arg}]
  \/ i.op = "match_console" /\ a.line = Line("line", i.arg)
     /\ b = [a EXCEPT !.line = Line("offered", i.arg)]
  \/ i.op = "unless_written" /\ a.line = Line("offered", i.arg) /\ Free(a, {"EARLY_BUF"})
     /\ b = [a EXCEPT !.line = NoLine]
  \/ i.op = "append" /\ a.line = Line("early", i.arg) /\ b = [a EXCEPT !.line = NoLine]
  \/ i.op = "send_early" /\ a.line = EarlyLines /\ b = [a EXCEPT !.line = NoLine]
  \/ Quiet(i, a, b)

Along(code, ann) == \A i \in 1 .. Len(code) : Step(code[i], ann[i], ann[i + 1])
Leads(code, a, b) ==
  \E ann \in [1 .. Len(code) + 1 -> Context] :
    ann[1] = a /\ ann[Len(code) + 1] = b /\ Along(code, ann)
------------------------------------------------------------------------------
(* Programs: nothing, one instruction, one program after another, and what *)
(* is left after the first instruction.                                    *)
LEMMA LeadsNowhere == ASSUME NEW a \in Context PROVE Leads(<< >>, a, a)
<1> DEFINE ann == [i \in 1 .. 1 |-> a]
<1>1. ann \in [1 .. Len(<< >>) + 1 -> Context] /\ ann[1] = a
  OBVIOUS
<1>2. Along(<< >>, ann)
  BY DEF Along
<1> HIDE DEF ann
<1> QED
  BY <1>1, <1>2 DEF Leads

LEMMA LeadsOne ==
  ASSUME NEW i, NEW a \in Context, NEW b \in Context, Step(i, a, b)
  PROVE  Leads(<<i>>, a, b)
<1> DEFINE ann == [j \in 1 .. 2 |-> IF j = 1 THEN a ELSE b]
<1>1. ann \in [1 .. Len(<<i>>) + 1 -> Context] /\ ann[1] = a /\ ann[Len(<<i>>) + 1] = b
  OBVIOUS
<1>2. Along(<<i>>, ann)
  BY DEF Along
<1> HIDE DEF ann
<1> QED
  BY <1>1, <1>2 DEF Leads

LEMMA LeadsOn ==
  ASSUME NEW f \in Code, NEW g \in Code, NEW a, NEW b, NEW c,
         Leads(f, a, b), Leads(g, b, c)
  PROVE  Leads(f \o g, a, c)
<1> DEFINE m == Len(f)
           n == Len(g)
<1>1. PICK u \in [1 .. m + 1 -> Context] : u[1] = a /\ u[m + 1] = b /\ Along(f, u)
  BY DEF Leads
<1>2. PICK v \in [1 .. n + 1 -> Context] : v[1] = b /\ v[n + 1] = c /\ Along(g, v)
  BY DEF Leads
<1> DEFINE w == [i \in 1 .. m + n + 1 |-> IF i <= m THEN u[i] ELSE v[i - m]]
<1>3. m \in Nat /\ n \in Nat /\ Len(f \o g) = m + n
  BY DEF Code
<1>4. w \in [1 .. m + n + 1 -> Context]
  BY <1>1, <1>2, <1>3
<1>5. w[1] = a /\ w[m + n + 1] = c
  BY <1>1, <1>2, <1>3
<1>6. ASSUME NEW i \in 1 .. m + n
      PROVE  Step((f \o g)[i], w[i], w[i + 1])
  <2>1. CASE i <= m
    <3>1. (f \o g)[i] = f[i] /\ w[i] = u[i] /\ i \in 1 .. m
      BY <1>3, <2>1 DEF Code
    <3>2. w[i + 1] = u[i + 1]
      BY <1>1, <1>2, <1>3, <2>1
    <3> QED
      BY <3>1, <3>2, <1>1 DEF Along
  <2>2. CASE i > m
    <3>1. i - m \in 1 .. n /\ (f \o g)[i] = g[i - m] /\ w[i] = v[i - m]
      BY <1>3, <2>2 DEF Code
    <3>2. w[i + 1] = v[(i - m) + 1]
      BY <1>3, <2>2
    <3> QED
      BY <3>1, <3>2, <1>2 DEF Along
  <2> QED
    BY <2>1, <2>2, <1>3
<1>7. Along(f \o g, w)
  BY <1>3, <1>6 DEF Along
<1> HIDE DEF w
<1> QED
  BY <1>3, <1>4, <1>5, <1>7 DEF Leads

LEMMA LeadsFirst ==
  ASSUME NEW f \in Code, f # << >>, NEW a, NEW c, Leads(f, a, c)
  PROVE  \E b \in Context : a \in Context /\ Step(Head(f), a, b) /\ Leads(Tail(f), b, c)
<1> DEFINE n == Len(f)
<1>1. PICK u \in [1 .. n + 1 -> Context] : u[1] = a /\ u[n + 1] = c /\ Along(f, u)
  BY DEF Leads
<1>2. n \in Nat /\ n >= 1 /\ Tail(f) \in Code /\ Len(Tail(f)) = n - 1 /\ Head(f) = f[1]
  BY DEF Code
<1>3. Step(Head(f), a, u[2]) /\ u[2] \in Context /\ a \in Context
  BY <1>1, <1>2 DEF Along
<1> DEFINE v == [i \in 1 .. n |-> u[i + 1]]
<1>4. v \in [1 .. Len(Tail(f)) + 1 -> Context] /\ v[1] = u[2] /\ v[Len(Tail(f)) + 1] = c
  BY <1>1, <1>2
<1>5. ASSUME NEW i \in 1 .. Len(Tail(f))
      PROVE  Step(Tail(f)[i], v[i], v[i + 1])
  <2>1. Tail(f)[i] = f[i + 1] /\ v[i] = u[i + 1] /\ v[i + 1] = u[(i + 1) + 1]
        /\ i + 1 \in 1 .. n
    BY <1>2 DEF Code
  <2> QED
    BY <2>1, <1>1 DEF Along
<1>6. Along(Tail(f), v)
  BY <1>5 DEF Along
<1> HIDE DEF v
<1>7. Leads(Tail(f), u[2], c)
  BY <1>4, <1>6 DEF Leads
<1> QED
  BY <1>3, <1>7
------------------------------------------------------------------------------
(* Code that leaves the context as it finds it, if these locks are free.   *)
Keeps(f, names) ==
  f \in Code /\ \A a \in Context : a.line = NoLine /\ Free(a, names) => Leads(f, a, a)

LEMMA KeepsNothing == ASSUME NEW names PROVE Keeps(<< >>, names)
  BY LeadsNowhere DEF Keeps, Code

LEMMA KeepsOn ==
  ASSUME NEW f, NEW g, NEW names, Keeps(f, names), Keeps(g, names)
  PROVE  Keeps(f \o g, names)
<1>1. f \in Code /\ g \in Code /\ f \o g \in Code
  BY DEF Keeps, Code
<1> QED
  BY <1>1, LeadsOn DEF Keeps

LEMMA KeepsMore ==
  ASSUME NEW f, NEW few, NEW many, few \subseteq many, Keeps(f, few)
  PROVE  Keeps(f, many)
  BY DEF Keeps, Free

LEMMA CodeOfOne ==
  ASSUME NEW op \in Ops, NEW arg \in Nat \cup LockNames
  PROVE  /\ I(op, arg) \in Code /\ I(op, arg) = << [op |-> op, arg |-> arg] >>
         /\ Do(op) \in Code /\ Do(op) = << [op |-> op, arg |-> 0] >>
  BY DEF I, Do, Code, Instruction

LEMMA KeepsOne ==
  ASSUME NEW op \in Ops, NEW arg \in Nat \cup LockNames, NEW names,
         \A a \in Context : a.line = NoLine /\ Free(a, names)
            => Step([op |-> op, arg |-> arg], a, a)
  PROVE  Keeps(I(op, arg), names)
  BY CodeOfOne, LeadsOne DEF Keeps

LEMMA LeadsLocked ==
  ASSUME NEW name \in LockNames, NEW f \in Code, NEW a \in Context, NEW b \in Context,
         name \notin a.locks, name \notin b.locks,
         Leads(f, [a EXCEPT !.locks = @ \cup {name}], [b EXCEPT !.locks = @ \cup {name}])
  PROVE  Leads(Locked(name, f), a, b)
<1> DEFINE c == [a EXCEPT !.locks = @ \cup {name}]
           d == [b EXCEPT !.locks = @ \cup {name}]
<1>1. c \in Context /\ d \in Context
  BY DEF Context
<1>2. Step([op |-> "lock", arg |-> name], a, c)
  BY DEF Step
<1>3. b = [d EXCEPT !.locks = @ \ {name}]
  BY DEF Context
<1>4. Step([op |-> "unlock", arg |-> name], d, b)
  BY <1>3 DEF Step
<1>5. Leads(I("lock", name), a, c) /\ Leads(I("unlock", name), d, b)
  BY <1>1, <1>2, <1>4, LeadsOne DEF I
<1>6. I("lock", name) \in Code /\ I("unlock", name) \in Code
  BY DEF I, Code, Instruction, Ops
<1>7. Leads(I("lock", name) \o f, a, d) /\ I("lock", name) \o f \in Code
  BY <1>5, <1>6, LeadsOn DEF Code
<1> QED
  BY <1>5, <1>6, <1>7, LeadsOn DEF Locked

LEMMA KeepsLocked ==
  ASSUME NEW name \in LockNames, NEW names, NEW f, Keeps(f, names \ {name}), name \in names
  PROVE  Keeps(Locked(name, f), names)
<1>1. f \in Code /\ Locked(name, f) \in Code
  <2>1. f \in Code /\ I("lock", name) \in Code /\ I("unlock", name) \in Code
    BY DEF Keeps, I, Code, Instruction, Ops
  <2> QED
    BY <2>1 DEF Locked, Code
<1>2. ASSUME NEW a \in Context, a.line = NoLine, Free(a, names)
      PROVE  Leads(Locked(name, f), a, a)
  <2> DEFINE c == [a EXCEPT !.locks = @ \cup {name}]
  <2>1. c \in Context /\ c.line = NoLine /\ Free(c, names \ {name}) /\ name \notin a.locks
    BY <1>2 DEF Context, Free
  <2>2. Leads(f, c, c)
    BY <2>1 DEF Keeps
  <2> QED
    BY <2>1, <2>2, <1>1, LeadsLocked
<1> QED
  BY <1>1, <1>2 DEF Keeps

LEMMA KeepsWithoutInterrupts ==
  ASSUME NEW names, NEW f, Keeps(f, names)
  PROVE  Keeps(without_interrupts(f), names)
<1>1. f \in Code /\ Do("csrr") \in Code /\ Do("csrci") \in Code /\ Do("restore") \in Code
  BY DEF Keeps, Do, I, Code, Instruction, Ops
<1>2. ASSUME NEW a \in Context, a.line = NoLine, Free(a, names)
      PROVE  Leads(without_interrupts(f), a, a)
  <2> DEFINE b == [a EXCEPT !.saved = <<a.sie>> \o @]
             c == [b EXCEPT !.sie = FALSE]
  <2>1. b \in Context /\ c \in Context /\ b.line = NoLine /\ c.line = NoLine
        /\ Free(c, names)
    <3>1. a.saved \in Seq(BOOLEAN) /\ a.sie \in BOOLEAN
      BY DEF Context
    <3>2. <<a.sie>> \o a.saved \in Seq(BOOLEAN)
      BY <3>1
    <3>3. b \in Context /\ b.line = a.line /\ b.locks = a.locks
      BY <3>2 DEF Context
    <3>4. c \in Context /\ c.line = b.line /\ c.locks = b.locks
      BY <3>3 DEF Context
    <3> QED
      BY <1>2, <3>3, <3>4 DEF Free
  <2>2. Leads(Do("csrr"), a, b)
    <3>1. Step([op |-> "csrr", arg |-> 0], a, b)
      BY <1>2 DEF Step, Quiet
    <3> QED
      BY <3>1, <2>1, LeadsOne DEF Do, I
  <2>3. Leads(Do("csrci"), b, c)
    <3>1. Step([op |-> "csrci", arg |-> 0], b, c)
      BY <2>1 DEF Step, Quiet
    <3> QED
      BY <3>1, <2>1, LeadsOne DEF Do, I
  <2>4. Leads(f, c, c)
    BY <2>1 DEF Keeps
  <2>5. Leads(Do("restore"), c, a)
    <3>1. c.saved = <<a.sie>> \o a.saved /\ c.sie = FALSE /\ a.saved \in Seq(BOOLEAN)
          /\ a.sie \in BOOLEAN
      BY DEF Context
    <3>2. c.saved # << >> /\ Head(c.saved) = a.sie /\ Tail(c.saved) = a.saved
      BY <3>1
    <3>3. a = [c EXCEPT !.sie = @ \/ Head(c.saved), !.saved = Tail(@)]
      BY <3>1, <3>2 DEF Context
    <3>4. Step([op |-> "restore", arg |-> 0], c, a)
      BY <2>1, <3>2, <3>3 DEF Step, Quiet
    <3> QED
      BY <3>4, <2>1, LeadsOne DEF Do, I
  <2> HIDE DEF b, c
  <2>6. Do("csrr") \o Do("csrci") \in Code /\ Do("csrr") \o Do("csrci") \o f \in Code
    BY <1>1 DEF Code
  <2>7. Leads(Do("csrr") \o Do("csrci"), a, c)
    BY <1>1, <2>2, <2>3, LeadsOn
  <2>8. Leads(Do("csrr") \o Do("csrci") \o f, a, c)
    BY <1>1, <2>6, <2>7, <2>4, LeadsOn
  <2> QED
    BY <1>1, <2>6, <2>8, <2>5, LeadsOn DEF without_interrupts
<1>3. without_interrupts(f) \in Code
  BY <1>1 DEF without_interrupts, Code
<1> QED
  BY <1>2, <1>3 DEF Keeps
------------------------------------------------------------------------------
(* The functions of the source, from the inside out.                       *)
LEMMA KeepsSilent ==
  ASSUME NEW op \in Silent \cup (Readies \ TrapReady), NEW names
  PROVE  Keeps(Do(op), names)
<1>1. op \in Ops
  BY DEF Silent, Ops
<1>2. ASSUME NEW a \in Context, a.line = NoLine
      PROVE  Step([op |-> op, arg |-> 0], a, a)
  <2>1. CASE op \in Silent
    BY <1>2, <2>1 DEF Step, Quiet
  <2>2. CASE op \in Readies \ TrapReady
    <3>1. a = [a EXCEPT !.ready = @ \cup ({op} \cap TrapReady)]
      BY <2>2 DEF Context
    <3> QED
      BY <1>2, <2>2, <3>1 DEF Step, Quiet
  <2> QED
    BY <2>1, <2>2
<1> QED
  BY <1>1, <1>2, KeepsOne DEF Do

LEMMA KeepsMayLog ==
  ASSUME NEW op \in MayLog, NEW names, LogLocks \subseteq names
  PROVE  Keeps(Do(op), names)
<1>1. op \in Ops
  BY DEF MayLog, Ops
<1>2. ASSUME NEW a \in Context, a.line = NoLine, Free(a, names)
      PROVE  Step([op |-> op, arg |-> 0], a, a)
  BY <1>2 DEF Step, Quiet, Free
<1> QED
  BY <1>1, <1>2, KeepsOne DEF Do

LEMMA KeepsLogRecord ==
  ASSUME NEW n \in Nat, NEW names, LogLocks \subseteq names
  PROVE  Keeps(log_record(n), names)
<1>1. ASSUME NEW a \in Context, a.line = NoLine, Free(a, names)
      PROVE  Step([op |-> "log", arg |-> n], a, a)
  BY <1>1 DEF Step, Quiet, Free
<1> QED
  BY <1>1, KeepsOne DEF log_record, Ops

LEMMA Lengths == Short \in Nat /\ Long \in Nat
  BY DEF Short, Long

LEMMA KeepsPrintln == ASSUME NEW names PROVE Keeps(println, names)
  BY KeepsSilent, KeepsWithoutInterrupts DEF println, Silent

LEMMA KeepsHeap ==
  ASSUME NEW names, HeapLocks \subseteq names
  PROVE  Keeps(alloc, names) /\ Keeps(dealloc, names) /\ Keeps(stats, names)
<1> DEFINE inner == names \ {"HEAP"}
<1>1. "HEAP" \in LockNames /\ "HEAP" \in names /\ LogLocks \subseteq inner
      /\ LogLocks \subseteq names
  BY DEF HeapLocks, LogLocks, LockNames
<1>2. Keeps(Do("walk_list"), inner) /\ Keeps(Do("unless_null"), names)
  BY <1>1, KeepsMayLog DEF MayLog
<1>3. Keeps(Locked("HEAP", Do("walk_list")), names) /\ Keeps(Locked("HEAP", << >>), names)
  BY <1>1, <1>2, KeepsNothing, KeepsLocked
<1> QED
  BY <1>2, <1>3, KeepsWithoutInterrupts, KeepsOn DEF alloc, dealloc, stats

LEMMA KeepsPanicHandler == Keeps(panic_handler, LogLocks)
<1>1. Keeps(Do("loop"), LogLocks)
  BY KeepsSilent DEF Silent
<1>2. Keeps(println, LogLocks) /\ Keeps(log_record(Short), LogLocks)
  BY KeepsPrintln, KeepsLogRecord, Lengths
<1> QED
  BY <1>1, <1>2, KeepsOn DEF panic_handler

LEMMA KeepsMounted == Keeps(mounted, LogLocks \cup {"FS"})
<1> DEFINE names == LogLocks \cup {"FS"}
<1>1. Keeps(Do("fs"), names \ {"FS"}) /\ Keeps(log_record(Short), names)
  BY KeepsSilent, KeepsLogRecord, Lengths DEF Readies, TrapReady
<1>2. Keeps(Locked("FS", Do("fs")), names)
  BY <1>1, KeepsLocked DEF LockNames
<1> QED
  BY <1>1, <1>2, KeepsOn DEF mounted

(* What a command does under the filesystem's lock.                        *)
LEMMA KeepsApi ==
  ASSUME NEW f, Keeps(f, LockNames \ {"FS"})
  PROVE  Keeps(api(f), LockNames)
<1>1. Keeps(Do("get"), LockNames \ {"FS"})
  BY KeepsMayLog DEF MayLog, LogLocks, LockNames
<1>2. Keeps(Do("get") \o f, LockNames \ {"FS"})
  BY <1>1, KeepsOn
<1> QED
  BY <1>2, KeepsLocked DEF api, LockNames

LEMMA KeepsCall ==
  ASSUME NEW c \in ShellCommands
  PROVE  c # "ebreak" => Keeps(call(c), LockNames)
<1> DEFINE all == LockNames
           inner == LockNames \ {"FS"}
<1>1. /\ HeapLocks \subseteq all /\ HeapLocks \subseteq inner
      /\ LogLocks \subseteq all /\ LogLocks \subseteq inner
  BY DEF HeapLocks, LogLocks, LockNames
<1>2. /\ Keeps(alloc, all) /\ Keeps(dealloc, all) /\ Keeps(stats, all)
      /\ Keeps(alloc, inner) /\ Keeps(dealloc, inner)
  BY <1>1, KeepsHeap
<1>3. /\ Keeps(println, all) /\ Keeps(println, inner) /\ Keeps(Do("uart"), inner)
      /\ Keeps(Do("exit_qemu"), all)
  BY KeepsPrintln, KeepsSilent DEF Silent
<1>4. /\ Keeps(Do("block_device"), inner) /\ Keeps(Do("set_timer"), all) /\ Keeps(Do("mul"), all)
  BY <1>1, KeepsMayLog DEF MayLog
<1>5. Keeps(log_record(Short), inner)
  BY <1>1, KeepsLogRecord, Lengths
<1>6. Keeps(api_call, all)
  BY <1>2, <1>4, <1>5, KeepsOn, KeepsApi DEF api_call
<1>7. Keeps(api_show, all)
  <2>1. Keeps(log_record(Short) \o alloc, inner)
    BY <1>2, <1>5, KeepsOn
  <2>2. Keeps(log_record(Short) \o alloc \o Do("block_device"), inner)
    BY <2>1, <1>4, KeepsOn
  <2>3. Keeps(log_record(Short) \o alloc \o Do("block_device") \o Do("uart"), inner)
    BY <2>2, <1>3, KeepsOn
  <2> QED
    BY <2>3, <1>2, KeepsOn, KeepsApi DEF api_show
<1>8. Keeps(api_flush, all)
  BY <1>4, <1>5, KeepsOn, KeepsApi DEF api_flush
<1>9. Keeps(api(dump_non_empty_pages), all)
  BY <1>3, <1>4, KeepsOn, KeepsApi DEF dump_non_empty_pages
<1>10. /\ Keeps(memory, all) /\ Keeps(exit, all) /\ Keeps(sysinfo, all) /\ Keeps(help, all)
       /\ Keeps(shell_allocate, all) /\ Keeps(benchmark_allocator, all)
       /\ Keeps(new_time_typed, all) /\ Keeps(api_call \o println, all)
  BY <1>2, <1>3, <1>4, <1>6, <1>8, KeepsOn
     DEF memory, exit, sysinfo, help, shell_allocate, benchmark_allocator, new_time,
         new_time_typed
<1> QED
  BY <1>6, <1>7, <1>8, <1>9, <1>10 DEF call, ShellCommands

(* At the prompt.                                                          *)
AtPrompt(a) == a \in Context /\ a.line = NoLine /\ Clean(a) /\ Handled(a) /\ ~ a.may

LEMMA LeadsShell ==
  ASSUME NEW a, AtPrompt(a)
  PROVE  shell \in Code /\ Leads(shell, a, a)
<1>1. Step([op |-> "prompt", arg |-> 0], a, a)
  BY DEF AtPrompt, Step, Quiet
<1> QED
  BY <1>1, LeadsOne DEF AtPrompt, shell, Do, I, Code, Instruction, Ops

LEMMA LeadsTurn ==
  ASSUME NEW c \in ShellCommands, NEW a, AtPrompt(a)
  PROVE  turn(c) \in Code /\ Leads(turn(c), a, a)
<1>1. a \in Context /\ a.line = NoLine /\ Free(a, LockNames)
  BY DEF AtPrompt, Clean, Free
<1>2. alloc \in Code /\ Leads(alloc, a, a)
  BY <1>1, KeepsHeap DEF Keeps, HeapLocks, LogLocks, LockNames
<1>3. call(c) \in Code /\ Leads(call(c), a, a)
  <2>1. CASE c # "ebreak"
    BY <2>1, <1>1, KeepsCall DEF Keeps
  <2>2. CASE c = "ebreak"
    <3>1. call(c) = I("ebreak", 4) \o I("ebreak", 2)
      BY <2>2 DEF call
    <3>2. /\ Step([op |-> "ebreak", arg |-> 4], a, a)
          /\ Step([op |-> "ebreak", arg |-> 2], a, a)
      BY DEF AtPrompt, Step, Quiet
    <3>3. Leads(I("ebreak", 4), a, a) /\ Leads(I("ebreak", 2), a, a)
      BY <1>1, <3>2, LeadsOne DEF I
    <3>4. I("ebreak", 4) \in Code /\ I("ebreak", 2) \in Code
      BY DEF I, Code, Instruction, Ops
    <3> QED
      BY <3>1, <3>3, <3>4, LeadsOn DEF Code
  <2> QED
    BY <2>1, <2>2
<1>4. alloc \o call(c) \in Code /\ Leads(alloc \o call(c), a, a)
  BY <1>2, <1>3, LeadsOn DEF Code
<1>5. alloc \o call(c) \o shell \in Code /\ Leads(alloc \o call(c) \o shell, a, a)
  <2>1. shell \in Code /\ Leads(shell, a, a)
    BY LeadsShell
  <2>2. Leads(alloc \o call(c) \o shell, a, a)
    BY <1>4, <2>1, LeadsOn
  <2> QED
    BY <1>4, <2>1, <2>2 DEF Code
<1> QED
  BY <1>5 DEF turn

(* A log line takes the console's lock, and the early buffer's if there is *)
(* no console.                                                             *)
LEMMA LeadsLog ==
  ASSUME NEW n \in Nat, NEW a \in Context, a.line = NoLine, Free(a, LogLocks)
  PROVE  log(n) \in Code /\ Leads(log(n), [a EXCEPT !.line = Line("line", n)], a)
<1> DEFINE b == [a EXCEPT !.line = Line("line", n)]
           c == [a EXCEPT !.line = Line("offered", n)]
           bl == [b EXCEPT !.locks = @ \cup {"CONSOLE"}]
           cl == [c EXCEPT !.locks = @ \cup {"CONSOLE"}]
<1>1. Line("line", n) \in OnTheWay /\ Line("offered", n) \in OnTheWay
  BY DEF Line, OnTheWay
<1>2. b \in Context /\ c \in Context /\ b.locks = a.locks /\ c.locks = a.locks
      /\ "CONSOLE" \in LockNames /\ "CONSOLE" \notin a.locks
  BY <1>1 DEF Context, Free, LogLocks, LockNames
<1>3. bl \in Context /\ cl \in Context
      /\ bl.line = Line("line", n) /\ cl = [bl EXCEPT !.line = Line("offered", n)]
  BY <1>1, <1>2 DEF Context
<1>4. Step([op |-> "match_console", arg |-> n], bl, cl)
  BY <1>3 DEF Step
<1>5. I("match_console", n) \in Code /\ I("unless_written", n) \in Code
  BY DEF I, Code, Instruction, Ops
<1>6. Leads(I("match_console", n), bl, cl)
  BY <1>3, <1>4, LeadsOne DEF I
<1>7. Leads(console_write(n), b, c)
  BY <1>2, <1>5, <1>6, LeadsLocked DEF console_write
<1>8. a = [c EXCEPT !.line = NoLine] /\ c.line = Line("offered", n) /\ Free(c, {"EARLY_BUF"})
  BY <1>1, <1>2 DEF Context, Free, LogLocks
<1>9. Step([op |-> "unless_written", arg |-> n], c, a)
  BY <1>8 DEF Step
<1>10. Leads(I("unless_written", n), c, a)
  BY <1>2, <1>9, LeadsOne DEF I
<1>11. console_write(n) \in Code
  <2>1. I("lock", "CONSOLE") \in Code /\ I("unlock", "CONSOLE") \in Code
    BY DEF I, Code, Instruction, Ops, LockNames
  <2> QED
    BY <2>1, <1>5 DEF console_write, Locked, Code
<1> QED
  BY <1>5, <1>7, <1>10, <1>11, LeadsOn DEF log, Code

LEMMA LeadsAppendEarly ==
  ASSUME NEW n \in Nat, NEW a \in Context, a.line = NoLine, Free(a, {"EARLY_BUF"})
  PROVE  append_early(n) \in Code
         /\ Leads(append_early(n), [a EXCEPT !.line = Line("early", n)], a)
<1> DEFINE b == [a EXCEPT !.line = Line("early", n)]
           bl == [b EXCEPT !.locks = @ \cup {"EARLY_BUF"}]
           al == [a EXCEPT !.locks = @ \cup {"EARLY_BUF"}]
<1>1. Line("early", n) \in OnTheWay
  BY DEF Line, OnTheWay
<1>2. b \in Context /\ b.locks = a.locks
      /\ "EARLY_BUF" \in LockNames /\ "EARLY_BUF" \notin a.locks
  BY <1>1 DEF Context, Free, LockNames
<1>3. bl \in Context /\ al \in Context
      /\ bl.line = Line("early", n) /\ al = [bl EXCEPT !.line = NoLine]
  BY <1>1, <1>2 DEF Context
<1>4. Step([op |-> "append", arg |-> n], bl, al)
  BY <1>3 DEF Step
<1>5. I("append", n) \in Code /\ I("lock", "EARLY_BUF") \in Code /\ I("unlock", "EARLY_BUF") \in Code
  BY DEF I, Code, Instruction, Ops, LockNames
<1>6. Leads(I("append", n), bl, al)
  BY <1>3, <1>4, LeadsOne DEF I
<1>7. append_early(n) \in Code
  BY <1>5 DEF append_early, Locked, Code
<1> QED
  BY <1>2, <1>5, <1>6, <1>7, LeadsLocked DEF append_early

LEMMA LeadsConsoleFound ==
  ASSUME NEW a \in Context, a.line = NoLine, a.may, Free(a, HeapLocks)
  PROVE  console_found \in Code /\ Leads(console_found, a, [a EXCEPT !.may = FALSE])
<1> DEFINE z == [a EXCEPT !.may = FALSE]
           b == [z EXCEPT !.line = EarlyLines]
           al == [a EXCEPT !.locks = @ \cup {"CONSOLE"}]
           bl == [b EXCEPT !.locks = @ \cup {"CONSOLE"}]
           be == [b EXCEPT !.locks = @ \cup {"EARLY_BUF"}]
           ze == [z EXCEPT !.locks = @ \cup {"EARLY_BUF"}]
           bx == [be EXCEPT !.locks = @ \cup {"CONSOLE"}]
           zx == [ze EXCEPT !.locks = @ \cup {"CONSOLE"}]
<1>1. EarlyLines \in OnTheWay /\ "CONSOLE" \in LockNames /\ "EARLY_BUF" \in LockNames
      /\ "CONSOLE" \notin a.locks /\ "EARLY_BUF" \notin a.locks
  BY DEF EarlyLines, Line, OnTheWay, LockNames, Free, HeapLocks, LogLocks
<1>2. /\ z \in Context /\ z.locks = a.locks /\ z.line = NoLine
      /\ b \in Context /\ b.locks = a.locks /\ b.line = EarlyLines
  BY <1>1 DEF Context
<1>3. /\ al \in Context /\ al.line = NoLine /\ al.may /\ bl \in Context
      /\ bl = [al EXCEPT !.may = FALSE, !.line = EarlyLines]
  BY <1>1, <1>2 DEF Context
<1>4. /\ be \in Context /\ ze \in Context
      /\ be.locks = a.locks \cup {"EARLY_BUF"} /\ ze.locks = a.locks \cup {"EARLY_BUF"}
  BY <1>1, <1>2 DEF Context
<1>5. /\ bx \in Context /\ zx \in Context /\ bx.line = EarlyLines
      /\ zx = [bx EXCEPT !.line = NoLine]
      /\ "CONSOLE" \notin be.locks /\ "CONSOLE" \notin ze.locks
  <2> HIDE DEF be, ze
  <2>1. "CONSOLE" \notin be.locks /\ "CONSOLE" \notin ze.locks
    BY <1>1, <1>4
  <2>2. be.line = EarlyLines /\ ze = [be EXCEPT !.line = NoLine]
    BY <1>1, <1>2 DEF Context, be, ze
  <2>3. bx \in Context /\ zx \in Context
    BY <1>1, <1>4 DEF Context
  <2>4. bx.line = EarlyLines /\ zx = [bx EXCEPT !.line = NoLine]
    BY <1>4, <2>2 DEF Context
  <2> QED
    BY <2>1, <2>3, <2>4
<1>6. Step([op |-> "set_console", arg |-> 0], al, bl)
  BY <1>3 DEF Step, Quiet
<1>7. Step([op |-> "send_early", arg |-> 0], bx, zx)
  BY <1>5 DEF Step
<1>8. Do("set_console") \in Code /\ Do("send_early") \in Code
  BY DEF Do, I, Code, Instruction, Ops
<1>9. Leads(Do("set_console"), al, bl) /\ Leads(Do("send_early"), bx, zx)
  BY <1>3, <1>5, <1>6, <1>7, LeadsOne DEF Do, I
<1>10. Leads(Locked("CONSOLE", Do("set_console")), a, b)
  BY <1>1, <1>2, <1>8, <1>9, LeadsLocked
<1>11. Leads(Locked("CONSOLE", Do("send_early")), be, ze)
  BY <1>1, <1>4, <1>5, <1>8, <1>9, LeadsLocked
<1>12. Locked("CONSOLE", Do("set_console")) \in Code /\ Locked("CONSOLE", Do("send_early")) \in Code
       /\ flush_early_buffer \in Code
  <2>1. /\ I("lock", "CONSOLE") \in Code /\ I("unlock", "CONSOLE") \in Code
        /\ I("lock", "EARLY_BUF") \in Code /\ I("unlock", "EARLY_BUF") \in Code
    BY DEF I, Code, Instruction, Ops, LockNames
  <2> QED
    BY <2>1, <1>8 DEF flush_early_buffer, Locked, Code
<1>13. Leads(flush_early_buffer, b, z)
  BY <1>1, <1>2, <1>11, <1>12, LeadsLocked DEF flush_early_buffer
<1>14. dma_alloc \in Code /\ Leads(dma_alloc, a, a)
  BY KeepsHeap DEF Keeps, dma_alloc
<1> HIDE DEF z, b
<1>15. dma_alloc \o Locked("CONSOLE", Do("set_console")) \in Code
       /\ Leads(dma_alloc \o Locked("CONSOLE", Do("set_console")), a, b)
  BY <1>10, <1>12, <1>14, LeadsOn DEF Code
<1>16. console_found \in Code /\ Leads(console_found, a, z)
  <2>1. Leads(dma_alloc \o Locked("CONSOLE", Do("set_console")) \o flush_early_buffer, a, z)
    BY <1>12, <1>13, <1>15, LeadsOn
  <2> QED
    BY <1>12, <1>15, <2>1 DEF console_found, Code
<1> QED
  BY <1>16 DEF z

(* Boot: the console is found before the trap handler is there, which is   *)
(* there before interrupts are on.                                         *)
Booting == [locks |-> {}, saved |-> << >>, sie |-> FALSE, stie |-> FALSE, ready |-> {},
            line |-> NoLine, may |-> TRUE]
Scanned == [Booting EXCEPT !.may = FALSE]
Trapping == [Scanned EXCEPT !.ready = TrapReady]
Booted == [Trapping EXCEPT !.sie = TRUE, !.stie = TRUE]

LEMMA BootContexts ==
  /\ Booting \in Context /\ Scanned \in Context /\ Trapping \in Context
  /\ Booting.line = NoLine /\ Scanned.line = NoLine /\ Trapping.line = NoLine
  /\ Free(Booting, LockNames) /\ Free(Scanned, LockNames) /\ Free(Trapping, LockNames)
  /\ AtPrompt(Booted) /\ Free(Booted, LockNames)
<1>1. Booting \in Context /\ Booting.line = NoLine /\ Free(Booting, LockNames)
  <2>1. << >> \in Seq(BOOLEAN) /\ NoLine \in OnTheWay
    BY DEF NoLine, Line, OnTheWay
  <2> QED
    BY <2>1 DEF Booting, Context, Free
<1>2. Scanned \in Context /\ Scanned.line = NoLine /\ Scanned.locks = {} /\ Scanned.saved = << >>
      /\ Scanned.may = FALSE
  BY <1>1 DEF Booting, Scanned, Context
<1>3. /\ Trapping \in Context /\ Trapping.line = NoLine /\ Trapping.locks = {}
      /\ Trapping.saved = << >> /\ Trapping.may = FALSE /\ Trapping.ready = TrapReady
  BY <1>2 DEF Trapping, Context
<1>4. /\ Booted \in Context /\ Booted.line = NoLine /\ Booted.locks = {} /\ Booted.saved = << >>
      /\ Booted.may = FALSE /\ Booted.ready = TrapReady /\ Booted.sie /\ Booted.stie
  BY <1>3 DEF Booted, Context
<1> QED
  BY <1>1, <1>2, <1>3, <1>4 DEF Free, AtPrompt, Clean, Handled

LEMMA KeepsBootSteps ==
  /\ Keeps(heap_init, LockNames) /\ Keeps(device_tree_init, LockNames)
  /\ Keeps(page_frame_allocator_init, LockNames) /\ Keeps(page_table_init, LockNames)
  /\ Keeps(new_time, LockNames) /\ Keeps(make_device, LockNames)
  /\ Keeps(init_with_device, LockNames) /\ Keeps(println, LockNames)
  /\ Keeps(log_record(Short), LockNames) /\ Keeps(log_record(Long), LockNames)
<1> DEFINE all == LockNames
           pfa == LockNames \ {"PAGE_FRAME_ALLOCATOR"}
           heap == LockNames \ {"HEAP"}
<1>1. /\ LogLocks \subseteq all /\ LogLocks \subseteq pfa /\ LogLocks \subseteq heap
      /\ HeapLocks \subseteq all /\ HeapLocks \subseteq pfa
      /\ "HEAP" \in all /\ "PAGE_FRAME_ALLOCATOR" \in all /\ "FS" \in all
  BY DEF LogLocks, HeapLocks, LockNames
<1>2. /\ Keeps(log_record(Short), all) /\ Keeps(log_record(Long), all)
      /\ Keeps(log_record(Long), pfa) /\ Keeps(log_record(Long), heap)
  BY <1>1, KeepsLogRecord, Lengths
<1>3. /\ Keeps(alloc, all) /\ Keeps(alloc, pfa) /\ Keeps(dealloc, pfa) /\ Keeps(dealloc, all)
  BY <1>1, KeepsHeap
<1>4. /\ Keeps(Do("heap"), heap) /\ Keeps(Do("sysinfo"), all) /\ Keeps(Do("frames"), pfa)
  BY KeepsSilent DEF Readies, TrapReady
<1>5. /\ Keeps(Do("parse_fdt"), all) /\ Keeps(Do("frame_allocator"), pfa)
      /\ Keeps(Do("frame"), all) /\ Keeps(Do("set_timer"), all) /\ Keeps(Do("block_device"), all)
  BY <1>1, KeepsMayLog DEF MayLog
<1>6. Keeps(heap_init, all)
  BY <1>1, <1>2, <1>4, KeepsOn, KeepsLocked DEF heap_init
<1>7. Keeps(device_tree_init, all)
  <2>1. Keeps(alloc \o Do("parse_fdt"), all)
    BY <1>3, <1>5, KeepsOn
  <2>2. Keeps(alloc \o Do("parse_fdt") \o log_record(Long), all)
    BY <1>2, <2>1, KeepsOn
  <2>3. Keeps(alloc \o Do("parse_fdt") \o log_record(Long) \o log_record(Short), all)
    BY <1>2, <2>2, KeepsOn
  <2>4. Keeps(alloc \o Do("parse_fdt") \o log_record(Long) \o log_record(Short) \o Do("sysinfo"), all)
    BY <1>4, <2>3, KeepsOn
  <2> QED
    BY <1>2, <2>4, KeepsOn DEF device_tree_init
<1>8. Keeps(page_frame_allocator_init, all)
  <2>1. Keeps(alloc \o log_record(Long), pfa)
    BY <1>2, <1>3, KeepsOn
  <2>2. Keeps(alloc \o log_record(Long) \o dealloc, pfa)
    BY <1>3, <2>1, KeepsOn
  <2>3. Keeps(alloc \o log_record(Long) \o dealloc \o Do("frames"), pfa)
    BY <1>4, <2>2, KeepsOn
  <2> QED
    BY <1>1, <2>3, KeepsLocked DEF page_frame_allocator_init
<1>9. Keeps(page_table_init, all)
  <2>1. Keeps(Locked("PAGE_FRAME_ALLOCATOR", Do("frame_allocator")), all)
    BY <1>1, <1>5, KeepsLocked
  <2>2. Keeps(alloc_frame, all)
    BY <1>5, <2>1, KeepsOn DEF alloc_frame
  <2>3. Keeps(managed_ranges, all)
    BY <1>1, <1>3, <1>5, KeepsOn, KeepsLocked DEF managed_ranges
  <2>4. Keeps(alloc_frame \o managed_ranges \o dealloc, all)
    BY <1>3, <2>2, <2>3, KeepsOn
  <2> QED
    BY <1>2, <2>4, KeepsOn DEF page_table_init
<1>10. Keeps(new_time, all) /\ Keeps(make_device, all)
  BY <1>3, <1>5, KeepsOn DEF new_time, make_device, dma_alloc
<1>11. Keeps(init_with_device, all)
  <2>1. Keeps(Locked("FS", << >>), all)
    BY <1>1, KeepsNothing, KeepsLocked
  <2>2. Keeps(Locked("FS", << >>) \o alloc, all)
    BY <1>3, <2>1, KeepsOn
  <2>3. Keeps(Locked("FS", << >>) \o alloc \o Do("block_device"), all)
    BY <1>5, <2>2, KeepsOn
  <2>4. Keeps(Locked("FS", << >>) \o alloc \o Do("block_device") \o log_record(Short), all)
    BY <1>2, <2>3, KeepsOn
  <2>5. Keeps(Do("mount"), all)
    <3>1. ASSUME NEW a \in Context, a.line = NoLine, Free(a, LockNames)
          PROVE  Step([op |-> "mount", arg |-> 0], a, a)
      BY <3>1 DEF Step, Quiet, Free, LogLocks, LockNames
    <3> QED
      BY <3>1, KeepsOne DEF Do, Ops
  <2> QED
    BY <2>4, <2>5, KeepsOn DEF init_with_device
<1> QED
  BY <1>2, <1>6, <1>7, <1>8, <1>9, <1>10, <1>11, KeepsPrintln

LEMMA LeadsKept ==
  ASSUME NEW f, NEW g, NEW a, NEW b \in Context, f \in Code, Leads(f, a, b),
         b.line = NoLine, Free(b, LockNames), Keeps(g, LockNames)
  PROVE  f \o g \in Code /\ Leads(f \o g, a, b)
<1>1. g \in Code /\ Leads(g, b, b)
  BY DEF Keeps
<1> QED
  BY <1>1, LeadsOn DEF Code

LEMMA LeadsNext ==
  ASSUME NEW f, NEW g, NEW a, NEW b, NEW c, f \in Code, Leads(f, a, b), g \in Code, Leads(g, b, c)
  PROVE  f \o g \in Code /\ Leads(f \o g, a, c)
  BY LeadsOn DEF Code

LEMMA LeadsStart ==
  /\ _start \in Code /\ Leads(_start, Booting, Booted)
  /\ \E f \in Code : _start = f \o shell
<1> DEFINE f1 == heap_init \o Do("set_logger") \o log_record(Short) \o log_record(Long)
           f2 == f1 \o Do("scan_slots")
           f3 == f2 \o trap_handler_init
           f4 == f3 \o device_tree_init
           f5 == f4 \o interrupts_init
           f6 == f5 \o page_frame_allocator_init \o page_table_init \o new_time \o make_device
                 \o init_with_device \o println \o log_record(Short)
<1>1. f1 \in Code /\ Leads(f1, Booting, Booting)
  <2>1. Keeps(Do("set_logger"), LockNames)
    BY KeepsSilent DEF Readies, TrapReady
  <2>2. Keeps(heap_init \o Do("set_logger"), LockNames)
    BY <2>1, KeepsBootSteps, KeepsOn
  <2>3. Keeps(heap_init \o Do("set_logger") \o log_record(Short), LockNames)
    BY <2>2, KeepsBootSteps, KeepsOn
  <2>4. Keeps(f1, LockNames)
    BY <2>3, KeepsBootSteps, KeepsOn
  <2> QED
    BY <2>4, BootContexts DEF Keeps
<1>2. Do("scan_slots") \in Code /\ Leads(Do("scan_slots"), Booting, Scanned)
  <2>1. Step([op |-> "scan_slots", arg |-> 0], Booting, Scanned)
    <3>1. Booting.may /\ Free(Booting, HeapLocks)
      BY DEF Booting, Free
    <3> QED
      BY <3>1, BootContexts DEF Step, Quiet, Scanned
  <2> QED
    BY <2>1, BootContexts, LeadsOne DEF Do, I, Code, Instruction, Ops
<1>3. trap_handler_init \in Code /\ Leads(trap_handler_init, Scanned, Trapping)
  <2> DEFINE b == [Scanned EXCEPT !.ready = {"sscratch"}]
  <2>1. Scanned.ready = {} /\ Scanned \in Context /\ Scanned.line = NoLine
    BY BootContexts DEF Scanned, Booting
  <2>2. b \in Context /\ b.line = NoLine /\ b.ready = {"sscratch"}
    BY <2>1 DEF Context, TrapReady
  <2>3. b = [Scanned EXCEPT !.ready = @ \cup ({"sscratch"} \cap TrapReady)]
    BY <2>1 DEF TrapReady
  <2>4. Trapping = [b EXCEPT !.ready = @ \cup ({"stvec"} \cap TrapReady)]
    BY <2>1 DEF Trapping, TrapReady, Context
  <2>5. /\ Step([op |-> "sscratch", arg |-> 0], Scanned, b)
        /\ Step([op |-> "stvec", arg |-> 0], b, Trapping)
    BY <2>1, <2>2, <2>3, <2>4 DEF Step, Quiet, Readies
  <2> HIDE DEF b
  <2>6. /\ Leads(Do("sscratch"), Scanned, b) /\ Leads(Do("stvec"), b, Trapping)
        /\ Do("sscratch") \in Code /\ Do("stvec") \in Code
    BY <2>1, <2>2, <2>5, BootContexts, LeadsOne DEF Do, I, Code, Instruction, Ops, Readies
  <2>7. Do("sscratch") \o Do("stvec") \in Code /\ Leads(Do("sscratch") \o Do("stvec"), Scanned, Trapping)
    BY <2>6, LeadsNext
  <2> QED
    BY <2>7, BootContexts, KeepsBootSteps, LeadsKept DEF trap_handler_init
<1>4. interrupts_init \in Code /\ Leads(interrupts_init, Trapping, Booted)
  <2>1. Step([op |-> "csrs", arg |-> 0], Trapping, Booted)
    <3>1. Handled(Trapping)
      <4>1. Scanned \in Context
        BY BootContexts
      <4> QED
        BY <4>1 DEF Trapping, Handled, Context
    <3>2. Booted = [Trapping EXCEPT !.sie = TRUE, !.stie = TRUE]
      BY DEF Booted
    <3> QED
      BY <3>1, <3>2, BootContexts DEF Step, Quiet
  <2>2. Do("csrs") \in Code /\ Leads(Do("csrs"), Trapping, Booted)
    BY <2>1, BootContexts, LeadsOne DEF AtPrompt, Do, I, Code, Instruction, Ops
  <2> QED
    BY <2>2, BootContexts, KeepsBootSteps, LeadsKept DEF AtPrompt, interrupts_init
<1> HIDE DEF f1
<1>5. f2 \in Code /\ Leads(f2, Booting, Scanned)
  BY <1>1, <1>2, LeadsNext
<1> HIDE DEF f2
<1>6. f3 \in Code /\ Leads(f3, Booting, Trapping)
  BY <1>3, <1>5, LeadsNext
<1> HIDE DEF f3
<1>7. f4 \in Code /\ Leads(f4, Booting, Trapping)
  BY <1>6, BootContexts, KeepsBootSteps, LeadsKept
<1> HIDE DEF f4
<1>8. f5 \in Code /\ Leads(f5, Booting, Booted)
  BY <1>4, <1>7, LeadsNext
<1> HIDE DEF f5
<1>9. f6 \in Code /\ Leads(f6, Booting, Booted)
  <2> DEFINE g1 == f5 \o page_frame_allocator_init
             g2 == g1 \o page_table_init
             g3 == g2 \o new_time
             g4 == g3 \o make_device
             g5 == g4 \o init_with_device
             g6 == g5 \o println
  <2>1. Booted \in Context /\ Booted.line = NoLine /\ Free(Booted, LockNames)
    BY BootContexts DEF AtPrompt
  <2>2. g1 \in Code /\ Leads(g1, Booting, Booted)
    BY <1>8, <2>1, KeepsBootSteps, LeadsKept
  <2> HIDE DEF g1
  <2>3. g2 \in Code /\ Leads(g2, Booting, Booted)
    BY <2>1, <2>2, KeepsBootSteps, LeadsKept
  <2> HIDE DEF g2
  <2>4. g3 \in Code /\ Leads(g3, Booting, Booted)
    BY <2>1, <2>3, KeepsBootSteps, LeadsKept
  <2> HIDE DEF g3
  <2>5. g4 \in Code /\ Leads(g4, Booting, Booted)
    BY <2>1, <2>4, KeepsBootSteps, LeadsKept
  <2> HIDE DEF g4
  <2>6. g5 \in Code /\ Leads(g5, Booting, Booted)
    BY <2>1, <2>5, KeepsBootSteps, LeadsKept
  <2> HIDE DEF g5
  <2>7. g6 \in Code /\ Leads(g6, Booting, Booted)
    BY <2>1, <2>6, KeepsBootSteps, LeadsKept
  <2> HIDE DEF g6
  <2>8. g6 \o log_record(Short) \in Code /\ Leads(g6 \o log_record(Short), Booting, Booted)
    BY <2>1, <2>7, KeepsBootSteps, LeadsKept
  <2> QED
    BY <2>8 DEF g1, g2, g3, g4, g5, g6
<1> HIDE DEF f6
<1>10. f6 \o shell \in Code /\ Leads(f6 \o shell, Booting, Booted)
  BY <1>9, BootContexts, LeadsShell, LeadsNext
<1>11. _start = f6 \o shell
  BY DEF f1, f2, f3, f4, f5, f6, _start
<1> QED
  BY <1>9, <1>10, <1>11
------------------------------------------------------------------------------
(* The kernel's state, of which the code to run is one part.  l is the     *)
(* line on its way through the logger, m whether the console can still be  *)
(* set.                                                                    *)
State == [code : Code, sie : BOOLEAN, stie : BOOLEAN, saved : Seq(BOOLEAN),
          locks : SUBSET LockNames, written : BOOLEAN, ptr : BOOLEAN, ready : SUBSET Readies,
          timer : {"off", "armed", "pending"}, commands : Nat, status : {"on", "off"},
          console : BOOLEAN, before : Nat, sent : Seq(Nat), lost : SUBSET Nat,
          early : Seq(Nat), early_len : Nat, lines : Seq(Nat)]

ContextOf(x, l, m) ==
  [locks |-> x.locks, saved |-> x.saved, sie |-> x.sie, stie |-> x.stie,
   ready |-> x.ready \cap TrapReady, line |-> l, may |-> m]

Ends(code) == code # << >> /\ code[Len(code)].op \in {"prompt", "loop"}
Runs(x, l, m) == Ends(x.code) /\ \E b : Leads(x.code, ContextOf(x, l, m), b)

(* Every line logged has been sent, is in the early buffer, did not fit    *)
(* into it or is the one on its way; the early buffer's are sent first.    *)
(* Only a line from before the console may not have fitted.                *)
Pending(l) == l.at \in {"line", "offered", "early"}
Rising(s, n) ==
  /\ \A i \in DOMAIN s : s[i] \in 1 .. n
  /\ \A i, j \in DOMAIN s : i < j => s[i] < s[j]
InSeq(n, s) == \E i \in DOMAIN s : s[i] = n
Accounted(x, n) ==
  \/ InSeq(n, x.sent) \/ InSeq(n, x.early)
  \/ x.early_len + x.lines[n] > EARLY /\ (x.console => n <= x.before)

LogOK(x, l, m) ==
  /\ Pending(l) => l.n = Len(x.lines) /\ l.n >= 1
  /\ Rising(x.early, IF Pending(l) THEN Len(x.lines) - 1 ELSE Len(x.lines))
  /\ Rising(x.sent, IF Pending(l) /\ ~ (l.at = "offered" /\ x.written)
                    THEN Len(x.lines) - 1 ELSE Len(x.lines))
  /\ ~ x.console => x.sent = << >>
  /\ m => ~ x.console
  /\ l.at = "flush" => x.console /\ x.sent = << >>
  /\ l.at = "early" => ~ x.console
  /\ l.at = "offered" => x.written = x.console /\ (x.console => InSeq(l.n, x.sent))
  /\ x.console /\ l.at # "flush" => \A i \in DOMAIN x.early : InSeq(x.early[i], x.sent)
  /\ \A n \in 1 .. Len(x.lines) : Accounted(x, n) \/ (Pending(l) /\ n = l.n)
  /\ \A n \in x.lost : InSeq(n, x.sent)

(* There is a trap handler before there are interrupts, and a device tree  *)
(* before there is a timer.                                                *)
Inv(x) ==
  /\ x \in State
  /\ x.stie => TrapReady \subseteq x.ready
  /\ x.timer # "off" => "sysinfo" \in x.ready
  /\ \E l \in OnTheWay, m \in BOOLEAN :
       LogOK(x, l, m) /\ (x.status = "on" => Runs(x, l, m))

LEMMA EndsOn ==
  ASSUME NEW f \in Code, NEW g \in Code, Ends(g)
  PROVE  Ends(f \o g)
  BY DEF Ends, Code

LEMMA EndsTail ==
  ASSUME NEW f \in Code, Ends(f), Head(f).op \notin {"prompt", "loop"}
  PROVE  Tail(f) \in Code /\ Ends(Tail(f))
<1>1. Head(f) = f[1] /\ Len(f) \in Nat /\ Len(f) # 0
  BY DEF Ends, Code
<1>2. Len(f) # 1
  BY <1>1 DEF Ends
<1>3. Tail(f) \in Seq(Instruction) /\ Len(Tail(f)) = Len(f) - 1
  BY <1>1, <1>2 DEF Code
<1> DEFINE n == Len(f) - 1
<1>4. n \in 1 .. Len(Tail(f)) /\ n + 1 = Len(f)
  BY <1>1, <1>2, <1>3
<1>5. Tail(f)[n] = f[n + 1]
  BY <1>1, <1>3, <1>4 DEF Code
<1> QED
  BY <1>3, <1>4, <1>5 DEF Ends, Code

LEMMA EndsEnd == Ends(shell) /\ Ends(panic_handler) /\ \A c \in ShellCommands : Ends(turn(c))
<1>1. Ends(shell) /\ Ends(Do("loop"))
  BY DEF shell, Ends, Do, I
<1>2. Do("loop") \in Code /\ shell \in Code
  BY DEF shell, Do, I, Code, Instruction, Ops
<1>3. println \o log_record(Short) \in Code
  BY KeepsPrintln, KeepsLogRecord, Lengths, KeepsOn DEF Keeps
<1>4. Ends(panic_handler)
  BY <1>1, <1>2, <1>3, EndsOn DEF panic_handler
<1>5. ASSUME NEW c \in ShellCommands PROVE Ends(turn(c))
  <2>1. Keeps(alloc, LockNames)
    BY KeepsHeap DEF HeapLocks, LogLocks, LockNames
  <2>2. call(c) \in Code
    <3>1. CASE c # "ebreak"
      BY <3>1, KeepsCall DEF Keeps
    <3>2. CASE c = "ebreak"
      <4>1. I("ebreak", 4) \in Code /\ I("ebreak", 2) \in Code
        BY DEF I, Code, Instruction, Ops
      <4> QED
        BY <3>2, <4>1 DEF call, Code
    <3> QED
      BY <3>1, <3>2
  <2>3. alloc \o call(c) \in Code
    BY <2>1, <2>2 DEF Keeps, Code
  <2> QED
    BY <1>1, <1>2, <2>3, EndsOn DEF turn
<1> QED
  BY <1>1, <1>4, <1>5

(* What is known of a kernel that is about to run an instruction.          *)
Ready(x, l, m, b) ==
  /\ l \in OnTheWay /\ m \in BOOLEAN /\ LogOK(x, l, m) /\ Ends(x.code)
  /\ ContextOf(x, l, m) \in Context
  /\ Head(x.code) \in Instruction
  /\ Step(Head(x.code), ContextOf(x, l, m), b)
  /\ b \in Context /\ Tail(x.code) \in Code
  /\ \E c : Leads(Tail(x.code), b, c)

LEMMA GetReady ==
  ASSUME NEW x, Inv(x), x.status = "on"
  PROVE  \E l, m, b : Ready(x, l, m, b)
<1>1. PICK l \in OnTheWay, m \in BOOLEAN : LogOK(x, l, m) /\ Runs(x, l, m)
  BY DEF Inv
<1>2. PICK c : Leads(x.code, ContextOf(x, l, m), c)
  BY <1>1 DEF Runs
<1>3. x.code \in Code /\ x.code # << >>
  BY <1>1 DEF Inv, State, Runs, Ends
<1>4. PICK b \in Context : ContextOf(x, l, m) \in Context
        /\ Step(Head(x.code), ContextOf(x, l, m), b) /\ Leads(Tail(x.code), b, c)
  BY <1>2, <1>3, LeadsFirst
<1>5. Head(x.code) \in Instruction /\ Tail(x.code) \in Code
  BY <1>3 DEF Code
<1> QED
  BY <1>1, <1>4, <1>5 DEF Ready, Runs

LEMMA GoesOn ==
  ASSUME NEW y \in State, y.stie => TrapReady \subseteq y.ready,
         y.timer # "off" => "sysinfo" \in y.ready,
         NEW l \in OnTheWay, NEW m \in BOOLEAN, LogOK(y, l, m),
         Ends(y.code), NEW c, Leads(y.code, ContextOf(y, l, m), c)
  PROVE  Inv(y)
  BY DEF Inv, Runs

LEMMA SameLog ==
  ASSUME NEW x, NEW y, y.lines = x.lines, y.sent = x.sent, y.early = x.early,
         y.early_len = x.early_len, y.console = x.console, y.written = x.written, y.before = x.before, y.lost = x.lost,
         NEW l, NEW m, NEW n, n => m, LogOK(x, l, m)
  PROVE  LogOK(y, l, n)
  BY DEF LogOK, Accounted

(* An instruction that changes nothing but the code to run.                *)
LEMMA Recoded ==
  ASSUME NEW x, Inv(x), NEW f \in Code, Ends(f), NEW l, NEW m, NEW n \in BOOLEAN,
         l \in OnTheWay, n => m, LogOK(x, l, m), NEW c, Leads(f, ContextOf(x, l, n), c)
  PROVE  Inv([x EXCEPT !.code = f])
<1> DEFINE y == [x EXCEPT !.code = f]
<1>1. x \in State
  BY DEF Inv
<1>2. y \in State /\ y.code = f /\ y.stie = x.stie /\ y.ready = x.ready /\ y.timer = x.timer
  BY <1>1 DEF State
<1>3. ContextOf(y, l, n) = ContextOf(x, l, n)
  BY <1>1 DEF State, ContextOf
<1>4. /\ y.lines = x.lines /\ y.sent = x.sent /\ y.early = x.early /\ y.early_len = x.early_len
      /\ y.console = x.console /\ y.written = x.written /\ y.before = x.before
      /\ y.lost = x.lost
  BY <1>1 DEF State
<1>5. LogOK(y, l, n)
  BY <1>4, SameLog
<1> HIDE DEF y
<1>6. Inv(y)
  BY <1>2, <1>3, <1>5, GoesOn DEF Inv
<1> QED
  BY <1>6 DEF y

LEMMA Passes ==
  ASSUME NEW x, Inv(x), x.status = "on",
         Head(x.code).op \in (Silent \ {"loop"}) \cup MayLog \cup {"log", "mount", "ebreak", "scan_slots"}
  PROVE  Inv([x EXCEPT !.code = Tail(@)])
<1>1. PICK l, m, b : Ready(x, l, m, b)
  BY GetReady
<1> DEFINE n == IF Head(x.code).op = "scan_slots" THEN FALSE ELSE m
<1>2. Head(x.code).op \notin {"prompt", "loop"}
  BY DEF Silent, MayLog
<1>3. Ends(Tail(x.code)) /\ Tail(x.code) \in Code
  BY <1>1, <1>2, EndsTail DEF Ready, Inv, State
<1>4. b = ContextOf(x, l, n)
  <2>1. Step(Head(x.code), ContextOf(x, l, m), b)
    BY <1>1 DEF Ready
  <2>2. CASE Head(x.code).op = "scan_slots"
    <3>1. b = [ContextOf(x, l, m) EXCEPT !.may = FALSE]
      BY <2>1, <2>2 DEF Step, Quiet, Silent, MayLog, Readies
    <3> QED
      BY <3>1, <2>2 DEF ContextOf
  <2>3. CASE Head(x.code).op # "scan_slots"
    <3>1. b = ContextOf(x, l, m)
      BY <2>1, <2>3, <1>2 DEF Step, Quiet, Silent, MayLog, Readies
    <3> QED
      BY <3>1, <2>3
  <2> QED
    BY <2>2, <2>3
<1>5. n \in BOOLEAN /\ (n => m) /\ l \in OnTheWay /\ LogOK(x, l, m)
  BY <1>1 DEF Ready
<1>6. PICK c : Leads(Tail(x.code), b, c)
  BY <1>1 DEF Ready
<1> HIDE DEF n
<1> QED
  BY <1>3, <1>4, <1>5, <1>6, Recoded

(* ... or runs something else first.                                       *)
LEMMA RunsFirst ==
  ASSUME NEW x, Inv(x), x.status = "on", NEW f,
         \/ Head(x.code).op \in MayLog /\ Keeps(f, LogLocks)
         \/ Head(x.code).op = "mount" /\ Keeps(f, LogLocks \cup {"FS"})
  PROVE  Inv([x EXCEPT !.code = f \o Tail(@)])
<1>1. PICK l, m, b : Ready(x, l, m, b)
  BY GetReady
<1>2. Head(x.code).op \notin {"prompt", "loop"}
  BY DEF MayLog
<1>3. Ends(Tail(x.code)) /\ Tail(x.code) \in Code
  BY <1>1, <1>2, EndsTail DEF Ready, Inv, State
<1>4. Step(Head(x.code), ContextOf(x, l, m), b)
  BY <1>1 DEF Ready
<1>5. /\ b = ContextOf(x, l, m) /\ b.line = NoLine
      /\ Head(x.code).op \in MayLog => Free(b, LogLocks)
      /\ Head(x.code).op = "mount" => Free(b, LogLocks \cup {"FS"})
  BY <1>2, <1>4 DEF Step, Quiet, Silent, MayLog, Readies
<1>6. f \in Code /\ Leads(f, b, b)
  BY <1>1, <1>5 DEF Keeps, Ready
<1>7. PICK c : Leads(Tail(x.code), b, c)
  BY <1>1 DEF Ready
<1>8. Leads(f \o Tail(x.code), b, c) /\ f \o Tail(x.code) \in Code /\ Ends(f \o Tail(x.code))
  BY <1>3, <1>6, <1>7, LeadsNext, EndsOn
<1>9. m \in BOOLEAN /\ l \in OnTheWay /\ LogOK(x, l, m)
  BY <1>1 DEF Ready
<1> QED
  BY <1>5, <1>8, <1>9, Recoded

LEMMA PanicsThere ==
  ASSUME NEW x, Inv(x), x.status = "on", Head(x.code).op \in MayLog
  PROVE  Inv([x EXCEPT !.code = panic_handler])
<1>1. PICK l, m, b : Ready(x, l, m, b)
  BY GetReady
<1>2. Step(Head(x.code), ContextOf(x, l, m), b)
  BY <1>1 DEF Ready
<1>3. b = ContextOf(x, l, m) /\ b.line = NoLine /\ Free(b, LogLocks)
  BY <1>2 DEF Step, Quiet, Silent, MayLog, Readies
<1>4. panic_handler \in Code /\ Leads(panic_handler, b, b)
  BY <1>1, <1>3, KeepsPanicHandler DEF Keeps, Ready
<1>5. m \in BOOLEAN /\ l \in OnTheWay /\ LogOK(x, l, m)
  BY <1>1 DEF Ready
<1> QED
  BY <1>3, <1>4, <1>5, EndsEnd, Recoded

(* What the context does not know of.                                      *)
LEMMA SameProgram ==
  ASSUME NEW x, Inv(x), NEW y \in State,
         y.lines = x.lines, y.sent = x.sent, y.early = x.early, y.early_len = x.early_len,
         y.console = x.console, y.written = x.written, y.before = x.before, y.lost = x.lost,
         y.code = x.code, y.locks = x.locks,
         y.saved = x.saved, y.sie = x.sie, y.stie = x.stie, y.ready = x.ready,
         y.status = "on" => x.status = "on", y.timer # "off" => "sysinfo" \in y.ready
  PROVE  Inv(y)
<1>1. PICK l \in OnTheWay, m \in BOOLEAN : LogOK(x, l, m) /\ (x.status = "on" => Runs(x, l, m))
  BY DEF Inv
<1>2. LogOK(y, l, m)
  BY <1>1, SameLog
<1>3. ContextOf(y, l, m) = ContextOf(x, l, m)
  BY DEF ContextOf
<1> QED
  BY <1>1, <1>2, <1>3 DEF Inv, Runs

LEMMA Irrelevant ==
  ASSUME NEW x, Inv(x), NEW p \in BOOLEAN, NEW t \in {"armed", "pending"}, NEW n \in Nat
  PROVE  /\ Inv([x EXCEPT !.ptr = p])
         /\ Inv([x EXCEPT !.commands = n])
         /\ Inv([x EXCEPT !.status = "off"])
         /\ "sysinfo" \in x.ready => Inv([x EXCEPT !.timer = t])
<1>1. x \in State /\ (x.timer # "off" => "sysinfo" \in x.ready)
  BY DEF Inv
<1>2. Inv([x EXCEPT !.ptr = p])
  <2>1. [x EXCEPT !.ptr = p] \in State
    BY <1>1 DEF State
  <2> QED
    BY <1>1, <2>1, SameProgram, ZenonT(40) DEF State
<1>3. Inv([x EXCEPT !.commands = n])
  <2>1. [x EXCEPT !.commands = n] \in State
    BY <1>1 DEF State
  <2> QED
    BY <1>1, <2>1, SameProgram, ZenonT(40) DEF State
<1>4. Inv([x EXCEPT !.status = "off"])
  <2>1. [x EXCEPT !.status = "off"] \in State
    BY <1>1 DEF State
  <2> QED
    BY <1>1, <2>1, SameProgram DEF State
<1>5. ASSUME "sysinfo" \in x.ready PROVE Inv([x EXCEPT !.timer = t])
  <2>1. [x EXCEPT !.timer = t] \in State
    BY <1>1 DEF State
  <2> QED
    BY <1>1, <1>5, <2>1, SameProgram DEF State
<1> QED
  BY <1>2, <1>3, <1>4, <1>5

(* An instruction that changes the context and not the log.                *)
LEMMA Advances ==
  ASSUME NEW x, Inv(x), NEW l, NEW m, NEW b, Ready(x, l, m, b),
         Head(x.code).op \notin {"prompt", "loop"},
         NEW y \in State, y.code = Tail(x.code),
         y.lines = x.lines, y.sent = x.sent, y.early = x.early, y.early_len = x.early_len,
         y.console = x.console, y.written = x.written, y.before = x.before, y.lost = x.lost,
         y.stie => TrapReady \subseteq y.ready, y.timer # "off" => "sysinfo" \in y.ready,
         b = ContextOf(y, l, m)
  PROVE  Inv(y)
<1>1. l \in OnTheWay /\ m \in BOOLEAN /\ LogOK(y, l, m)
  BY SameLog DEF Ready
<1>2. Ends(y.code)
  BY EndsTail DEF Ready, Inv, State
<1>3. PICK c : Leads(y.code, b, c)
  BY DEF Ready
<1> QED
  BY <1>1, <1>2, <1>3, GoesOn

LEMMA Csrr == ASSUME Inv(k), csrr PROVE Inv(k')
<1> DEFINE y == [k EXCEPT !.code = Tail(@), !.saved = <<k.sie>> \o @]
<1>1. k \in State /\ k.status = "on" /\ Head(k.code).op = "csrr" /\ k' = y
  BY DEF Inv, csrr, At, Past, State
<1>2. PICK l, m, b : Ready(k, l, m, b)
  BY <1>1, GetReady
<1>3. Step(Head(k.code), ContextOf(k, l, m), b) /\ Tail(k.code) \in Code
  BY <1>2 DEF Ready
<1>4. b = [ContextOf(k, l, m) EXCEPT !.saved = <<k.sie>> \o @]
  BY <1>1, <1>3 DEF Step, Quiet, Silent, MayLog, Readies, ContextOf
<1>5. <<k.sie>> \o k.saved \in Seq(BOOLEAN)
  BY <1>1 DEF State
<1>6. y \in State
  BY <1>1, <1>3, <1>5 DEF State
<1>7. b = ContextOf(y, l, m)
  BY <1>1, <1>4 DEF ContextOf, State
<1>8. /\ y.code = Tail(k.code) /\ y.lines = k.lines /\ y.sent = k.sent /\ y.early = k.early
      /\ y.early_len = k.early_len /\ y.console = k.console /\ y.written = k.written
      /\ y.before = k.before /\ y.lost = k.lost
      /\ y.stie = k.stie /\ y.ready = k.ready /\ y.timer = k.timer
  BY <1>1 DEF State
<1> HIDE DEF y
<1>9. Inv(y)
  BY <1>1, <1>2, <1>6, <1>7, <1>8, Advances DEF Inv
<1> QED
  BY <1>1, <1>9

LEMMA Csrci == ASSUME Inv(k), csrci PROVE Inv(k')
<1> DEFINE y == [k EXCEPT !.code = Tail(@), !.sie = FALSE]
<1>1. k \in State /\ k.status = "on" /\ Head(k.code).op = "csrci" /\ k' = y
  BY DEF Inv, csrci, At, Past, State
<1>2. PICK l, m, b : Ready(k, l, m, b)
  BY <1>1, GetReady
<1>3. Step(Head(k.code), ContextOf(k, l, m), b) /\ Tail(k.code) \in Code
  BY <1>2 DEF Ready
<1>4. b = [ContextOf(k, l, m) EXCEPT !.sie = FALSE]
  BY <1>1, <1>3 DEF Step, Quiet, Silent, MayLog, Readies
<1>6. y \in State
  BY <1>1, <1>3 DEF State
<1>7. b = ContextOf(y, l, m)
  BY <1>1, <1>4 DEF ContextOf, State
<1>8. /\ y.code = Tail(k.code) /\ y.lines = k.lines /\ y.sent = k.sent /\ y.early = k.early
      /\ y.early_len = k.early_len /\ y.console = k.console /\ y.written = k.written
      /\ y.before = k.before /\ y.lost = k.lost
      /\ y.stie = k.stie /\ y.ready = k.ready /\ y.timer = k.timer
  BY <1>1 DEF State
<1> HIDE DEF y
<1>9. Inv(y)
  BY <1>1, <1>2, <1>6, <1>7, <1>8, Advances DEF Inv
<1> QED
  BY <1>1, <1>9

LEMMA HeadTail ==
  ASSUME NEW S, NEW s \in Seq(S), s # << >>
  PROVE  Head(s) \in S /\ Tail(s) \in Seq(S)
  OBVIOUS

LEMMA RestoreSie == ASSUME Inv(k), restore PROVE Inv(k')
<1> DEFINE y == [k EXCEPT !.code = Tail(@), !.sie = @ \/ Head(k.saved), !.saved = Tail(@)]
<1>1. k \in State /\ k.status = "on" /\ Head(k.code).op = "restore" /\ k' = y
  BY DEF Inv, restore, At, Past, State
<1>2. PICK l, m, b : Ready(k, l, m, b)
  BY <1>1, GetReady
<1>3. Step(Head(k.code), ContextOf(k, l, m), b) /\ Tail(k.code) \in Code
  BY <1>2 DEF Ready
<1>4. /\ b = [ContextOf(k, l, m) EXCEPT !.sie = @ \/ Head(k.saved), !.saved = Tail(@)]
      /\ k.saved # << >>
  BY <1>1, <1>3 DEF Step, Quiet, Silent, MayLog, Readies, ContextOf
<1>5. Tail(k.saved) \in Seq(BOOLEAN) /\ Head(k.saved) \in BOOLEAN /\ (k.sie \/ Head(k.saved)) \in BOOLEAN
  <2>1. k.saved \in Seq(BOOLEAN) /\ k.sie \in BOOLEAN
    BY <1>1 DEF State
  <2>2. Tail(k.saved) \in Seq(BOOLEAN) /\ Head(k.saved) \in BOOLEAN
    BY <1>4, <2>1, HeadTail, Zenon
  <2> QED
    BY <2>1, <2>2, Zenon
<1>6. y \in State
  BY <1>1, <1>3, <1>5 DEF State
<1>7. b = ContextOf(y, l, m)
  BY <1>1, <1>4 DEF ContextOf, State
<1>8. /\ y.code = Tail(k.code) /\ y.lines = k.lines /\ y.sent = k.sent /\ y.early = k.early
      /\ y.early_len = k.early_len /\ y.console = k.console /\ y.written = k.written
      /\ y.before = k.before /\ y.lost = k.lost
      /\ y.stie = k.stie /\ y.ready = k.ready /\ y.timer = k.timer
  BY <1>1 DEF State
<1> HIDE DEF y
<1>9. Inv(y)
  BY <1>1, <1>2, <1>6, <1>7, <1>8, Advances DEF Inv
<1> QED
  BY <1>1, <1>9

LEMMA Lock == ASSUME Inv(k), lock PROVE Inv(k')
<1> DEFINE y == [k EXCEPT !.code = Tail(@), !.locks = @ \cup {Head(k.code).arg}]
<1>1. k \in State /\ k.status = "on" /\ Head(k.code).op = "lock" /\ k' = y
  BY DEF Inv, lock, At, Arg, Past, State
<1>2. PICK l, m, b : Ready(k, l, m, b)
  BY <1>1, GetReady
<1>3. Step(Head(k.code), ContextOf(k, l, m), b) /\ Tail(k.code) \in Code
  BY <1>2 DEF Ready
<1>4. /\ b = [ContextOf(k, l, m) EXCEPT !.locks = @ \cup {Head(k.code).arg}]
      /\ Head(k.code).arg \in LockNames
  BY <1>1, <1>3 DEF Step, Quiet, Silent, MayLog, Readies
<1>5. y \in State
  BY <1>1, <1>3, <1>4 DEF State
<1>6. b = ContextOf(y, l, m)
  BY <1>1, <1>4 DEF ContextOf, State
<1>7. /\ y.code = Tail(k.code) /\ y.lines = k.lines /\ y.sent = k.sent /\ y.early = k.early
      /\ y.early_len = k.early_len /\ y.console = k.console /\ y.written = k.written
      /\ y.before = k.before /\ y.lost = k.lost
      /\ y.stie = k.stie /\ y.ready = k.ready /\ y.timer = k.timer
  BY <1>1 DEF State
<1> HIDE DEF y
<1>8. Inv(y)
  BY <1>1, <1>2, <1>5, <1>6, <1>7, Advances DEF Inv
<1> QED
  BY <1>1, <1>8

LEMMA Unlock == ASSUME Inv(k), unlock PROVE Inv(k')
<1> DEFINE y == [k EXCEPT !.code = Tail(@), !.locks = @ \ {Head(k.code).arg}]
<1>1. k \in State /\ k.status = "on" /\ Head(k.code).op = "unlock" /\ k' = y
  BY DEF Inv, unlock, At, Arg, Past, State
<1>2. PICK l, m, b : Ready(k, l, m, b)
  BY <1>1, GetReady
<1>3. Step(Head(k.code), ContextOf(k, l, m), b) /\ Tail(k.code) \in Code
  BY <1>2 DEF Ready
<1>4. b = [ContextOf(k, l, m) EXCEPT !.locks = @ \ {Head(k.code).arg}]
  BY <1>1, <1>3 DEF Step, Quiet, Silent, MayLog, Readies
<1>5. y \in State
  BY <1>1, <1>3, <1>4 DEF State
<1>6. b = ContextOf(y, l, m)
  BY <1>1, <1>4 DEF ContextOf, State
<1>7. /\ y.code = Tail(k.code) /\ y.lines = k.lines /\ y.sent = k.sent /\ y.early = k.early
      /\ y.early_len = k.early_len /\ y.console = k.console /\ y.written = k.written
      /\ y.before = k.before /\ y.lost = k.lost
      /\ y.stie = k.stie /\ y.ready = k.ready /\ y.timer = k.timer
  BY <1>1 DEF State
<1> HIDE DEF y
<1>8. Inv(y)
  BY <1>1, <1>2, <1>5, <1>6, <1>7, Advances DEF Inv
<1> QED
  BY <1>1, <1>8

LEMMA Csrs == ASSUME Inv(k), csrs PROVE Inv(k')
<1> DEFINE y == [k EXCEPT !.code = Tail(@), !.stie = TRUE, !.sie = TRUE]
<1>1. k \in State /\ k.status = "on" /\ Head(k.code).op = "csrs" /\ k' = y
  BY DEF Inv, csrs, At, Arg, Past, State
<1>2. PICK l, m, b : Ready(k, l, m, b)
  BY <1>1, GetReady
<1>3. Step(Head(k.code), ContextOf(k, l, m), b) /\ Tail(k.code) \in Code
  BY <1>2 DEF Ready
<1>4. /\ b = [ContextOf(k, l, m) EXCEPT !.sie = TRUE, !.stie = TRUE]
      /\ Handled(ContextOf(k, l, m))
  BY <1>1, <1>3 DEF Step, Quiet, Silent, MayLog, Readies
<1>5. y \in State
  BY <1>1, <1>3, <1>4 DEF State
<1>6. b = ContextOf(y, l, m)
  BY <1>1, <1>4 DEF ContextOf, State
<1>7. /\ y.code = Tail(k.code) /\ y.lines = k.lines /\ y.sent = k.sent /\ y.early = k.early
      /\ y.early_len = k.early_len /\ y.console = k.console /\ y.written = k.written
      /\ y.before = k.before /\ y.lost = k.lost
      /\ y.ready = k.ready /\ y.timer = k.timer
  BY <1>1 DEF State
<1>8. TrapReady \subseteq k.ready
  BY <1>4 DEF Handled, ContextOf
<1> HIDE DEF y
<1>9. Inv(y)
  BY <1>1, <1>2, <1>8, <1>5, <1>6, <1>7, Advances DEF Inv
<1> QED
  BY <1>1, <1>9

LEMMA BecomesReady == ASSUME Inv(k), becomes_ready PROVE Inv(k')
<1> DEFINE y == [k EXCEPT !.code = Tail(@), !.ready = @ \cup {Head(k.code).op}]
<1>1. k \in State /\ k.status = "on" /\ Head(k.code).op \in Readies /\ k' = y
  BY DEF Inv, becomes_ready, At, Arg, Past, State
<1>2. PICK l, m, b : Ready(k, l, m, b)
  BY <1>1, GetReady
<1>3. Step(Head(k.code), ContextOf(k, l, m), b) /\ Tail(k.code) \in Code
  BY <1>2 DEF Ready
<1>4. b = [ContextOf(k, l, m) EXCEPT !.ready = @ \cup ({Head(k.code).op} \cap TrapReady)]
  BY <1>1, <1>3 DEF Step, Quiet, Silent, MayLog, Readies
<1>5. y \in State
  BY <1>1, <1>3, <1>4 DEF State
<1>6. b = ContextOf(y, l, m)
  BY <1>1, <1>4 DEF ContextOf, State
<1>7. /\ y.code = Tail(k.code) /\ y.lines = k.lines /\ y.sent = k.sent /\ y.early = k.early
      /\ y.early_len = k.early_len /\ y.console = k.console /\ y.written = k.written
      /\ y.before = k.before /\ y.lost = k.lost
      /\ y.stie = k.stie /\ k.ready \subseteq y.ready /\ y.timer = k.timer
  BY <1>1 DEF State
<1>8. Head(k.code).op \notin {"prompt", "loop"}
  BY <1>1 DEF Readies
<1> HIDE DEF y
<1>9. Inv(y)
  BY <1>1, <1>2, <1>8, <1>5, <1>6, <1>7, Advances, ZenonT(40) DEF Inv
<1> QED
  BY <1>1, <1>9

LEMMA MayLogSteps ==
  ASSUME Inv(k),
         uart \/ walk_list \/ unless_null \/ parse_fdt \/ block_device \/ mul \/ frame \/ mount
         \/ set_timer \/ get \/ frame_allocator \/ exit_qemu \/ ebreak
  PROVE  Inv(k')
<1>1. k \in State
  BY DEF Inv
<1>2. CASE uart \/ ebreak
  <2>1. k.status = "on" /\ Head(k.code).op \in {"uart", "ebreak"} /\ k' = [k EXCEPT !.code = Tail(@)]
    BY <1>2 DEF uart, ebreak, At, Past
  <2>2. Head(k.code).op \in (Silent \ {"loop"}) \cup {"ebreak"}
    BY <2>1 DEF Silent
  <2> QED
    BY <2>1, <2>2, Passes
<1>3. CASE parse_fdt \/ block_device \/ mul \/ frame \/ get \/ frame_allocator
  <2>1. k.status = "on" /\ Head(k.code).op \in MayLog
    BY <1>3 DEF parse_fdt, block_device, mul, frame, get, frame_allocator, At, MayLog
  <2>2. k' = [k EXCEPT !.code = Tail(@)] \/ k' = [k EXCEPT !.code = panic_handler]
    BY <1>3 DEF parse_fdt, block_device, mul, frame, get, frame_allocator, Past, Panics
  <2> QED
    BY <2>1, <2>2, Passes, PanicsThere
<1>4. CASE unless_null
  <2>1. k.status = "on" /\ Head(k.code).op \in MayLog
    BY <1>4 DEF unless_null, At, MayLog
  <2>2. Inv(Past) /\ Inv(Panics)
    BY <2>1, Passes, PanicsThere DEF Past, Panics
  <2>3. Inv([Panics EXCEPT !.ptr = TRUE])
    BY <2>2, Irrelevant
  <2> QED
    BY <1>4, <2>2, <2>3 DEF unless_null
<1>5. CASE set_timer
  <2>1. k.status = "on" /\ Head(k.code).op \in MayLog
    BY <1>5 DEF set_timer, At, MayLog
  <2>2. Inv(Past) /\ Inv(Panics) /\ Past.ready = k.ready
    BY <1>1, <2>1, Passes, PanicsThere DEF Past, Panics, State
  <2>3. "sysinfo" \in k.ready => Inv([Past EXCEPT !.timer = "armed"])
    BY <2>2, Irrelevant
  <2> QED
    BY <1>5, <2>2, <2>3 DEF set_timer
<1>6. CASE exit_qemu
  <2>1. k.status = "on" /\ Head(k.code).op \in Silent \ {"loop"}
    BY <1>6 DEF exit_qemu, At, Silent
  <2>2. Inv(Past)
    BY <2>1, Passes DEF Past
  <2>3. Inv([Past EXCEPT !.status = "off"])
    BY <2>2, Irrelevant
  <2> QED
    BY <1>6, <2>3 DEF exit_qemu
<1>7. CASE walk_list
  <2>1. k.status = "on" /\ Head(k.code).op \in MayLog
    BY <1>7 DEF walk_list, At, MayLog
  <2>2. Keeps(log_record(Short), LogLocks)
    BY KeepsLogRecord, Lengths
  <2>3. Inv(Past) /\ Inv(Then(log_record(Short)))
    BY <2>1, <2>2, Passes, RunsFirst DEF Past, Then
  <2>4. Inv([Then(log_record(Short)) EXCEPT !.ptr = FALSE])
    BY <2>3, Irrelevant
  <2> QED
    BY <1>7, <2>3, <2>4 DEF walk_list
<1>8. CASE mount
  <2>1. k.status = "on" /\ Head(k.code).op = "mount"
    BY <1>8 DEF mount, At
  <2>2. Keeps(log_record(Short), LogLocks \cup {"FS"}) /\ Keeps(mounted, LogLocks \cup {"FS"})
    BY KeepsLogRecord, KeepsMounted, Lengths
  <2>3. Inv(Then(mounted)) /\ Inv(Then(log_record(Short)))
    BY <2>1, <2>2, RunsFirst DEF Then
  <2> QED
    BY <1>8, <2>3 DEF mount
<1> QED
  BY <1>2, <1>3, <1>4, <1>5, <1>6, <1>7, <1>8

LEMMA Prompt == ASSUME Inv(k), prompt PROVE Inv(k')
<1>1. k \in State /\ k.status = "on" /\ Head(k.code).op = "prompt"
  BY DEF Inv, prompt, At
<1>2. PICK l, m, b : Ready(k, l, m, b)
  BY <1>1, GetReady
<1>3. PICK c \in Commands : k' = [k EXCEPT !.code = turn(c), !.commands = @ + 1]
  BY DEF prompt
<1>4. c \in ShellCommands
  BY <1>3, KernelAssumption
<1>5. AtPrompt(ContextOf(k, l, m))
  <2>1. Step(Head(k.code), ContextOf(k, l, m), b) /\ ContextOf(k, l, m) \in Context
    BY <1>2 DEF Ready
  <2> QED
    BY <1>1, <2>1 DEF Step, Quiet, Silent, MayLog, Readies, AtPrompt
<1>6. turn(c) \in Code /\ Leads(turn(c), ContextOf(k, l, m), ContextOf(k, l, m)) /\ Ends(turn(c))
  BY <1>4, <1>5, LeadsTurn, EndsEnd
<1>7. Inv([k EXCEPT !.code = turn(c)])
  BY <1>2, <1>6, Recoded DEF Ready
<1>8. k.commands + 1 \in Nat
  BY <1>1 DEF State
<1>9. Inv([[k EXCEPT !.code = turn(c)] EXCEPT !.commands = k.commands + 1])
  BY <1>7, <1>8, Irrelevant
<1>10. k' = [[k EXCEPT !.code = turn(c)] EXCEPT !.commands = k.commands + 1]
  BY <1>1, <1>3 DEF State
<1> QED
  BY <1>9, <1>10

LEMMA ScanSlots == ASSUME Inv(k), scan_slots PROVE Inv(k')
<1>1. k \in State /\ k.status = "on" /\ Head(k.code).op = "scan_slots"
  BY DEF Inv, scan_slots, At
<1>2. CASE k' = Past
  BY <1>1, <1>2, Passes DEF Past
<1>3. CASE k' = Then(console_found)
  <2>1. PICK l, m, b : Ready(k, l, m, b)
    BY <1>1, GetReady
  <2> DEFINE a == ContextOf(k, l, m)
  <2>2. Step(Head(k.code), a, b) /\ a \in Context
    BY <2>1 DEF Ready
  <2>3. a.line = NoLine /\ a.may /\ Free(a, HeapLocks) /\ b = [a EXCEPT !.may = FALSE]
    BY <1>1, <2>2 DEF Step, Quiet, Silent, MayLog, Readies
  <2>4. console_found \in Code /\ Leads(console_found, a, b)
    BY <2>2, <2>3, LeadsConsoleFound
  <2>5. Tail(k.code) \in Code /\ Ends(Tail(k.code))
    BY <1>1, <2>1, EndsTail DEF Ready, State
  <2>6. PICK c : Leads(Tail(k.code), b, c)
    BY <2>1 DEF Ready
  <2>7. /\ console_found \o Tail(k.code) \in Code /\ Ends(console_found \o Tail(k.code))
        /\ Leads(console_found \o Tail(k.code), a, c)
    BY <2>4, <2>5, <2>6, LeadsNext, EndsOn
  <2>8. l \in OnTheWay /\ m \in BOOLEAN /\ LogOK(k, l, m)
    BY <2>1 DEF Ready
  <2> QED
    BY <1>3, <2>7, <2>8, Recoded DEF Then
<1> QED
  BY <1>2, <1>3 DEF scan_slots

(* The log's own steps.                                                    *)
LEMMA RisingOn ==
  ASSUME NEW s \in Seq(Nat), NEW n \in Nat, n >= 1, Rising(s, n - 1)
  PROVE  /\ Rising(Append(s, n), n) /\ Rising(s, n) /\ InSeq(n, Append(s, n))
         /\ \A i : InSeq(i, s) => InSeq(i, Append(s, n))
<1> DEFINE t == Append(s, n)
<1>1. /\ t \in Seq(Nat) /\ Len(s) \in Nat /\ Len(t) = Len(s) + 1 /\ t[Len(s) + 1] = n
      /\ DOMAIN s = 1 .. Len(s) /\ DOMAIN t = 1 .. Len(s) + 1
      /\ \A i \in 1 .. Len(s) : t[i] = s[i] /\ s[i] \in Nat
  OBVIOUS
<1> HIDE DEF t
<1>2. \A i \in 1 .. Len(s) : s[i] \in 1 .. n - 1
  BY <1>1 DEF Rising
<1>3. \A i \in DOMAIN t : t[i] \in 1 .. n
  BY <1>1, <1>2, SMTT(30)
<1>4. ASSUME NEW i \in DOMAIN t, NEW j \in DOMAIN t, i < j PROVE t[i] < t[j]
  <2>1. CASE j = Len(s) + 1
    <3>1. i \in 1 .. Len(s) /\ t[j] = n
      BY <1>1, <1>4, <2>1
    <3>2. t[i] = s[i] /\ s[i] \in 1 .. n - 1
      BY <1>1, <1>2, <3>1
    <3> QED
      BY <3>1, <3>2
  <2>2. CASE j # Len(s) + 1
    <3>1. i \in DOMAIN s /\ j \in DOMAIN s /\ t[i] = s[i] /\ t[j] = s[j]
      BY <1>1, <1>4, <2>2, SMTT(30)
    <3> QED
      BY <1>4, <3>1 DEF Rising
  <2> QED
    BY <2>1, <2>2
<1>5. Rising(t, n)
  BY <1>3, <1>4 DEF Rising
<1>6. Rising(s, n)
  BY <1>1, <1>2 DEF Rising
<1>7. InSeq(n, t) /\ \A i : InSeq(i, s) => InSeq(i, t)
  BY <1>1 DEF InSeq
<1> QED
  BY <1>5, <1>6, <1>7 DEF t

LEMMA Logs == ASSUME Inv(k), log_macro PROVE Inv(k')
<1>1. k \in State /\ k.status = "on" /\ Head(k.code).op = "log"
  BY DEF Inv, log_macro, At
<1>2. CASE "set_logger" \notin k.ready
  BY <1>1, <1>2, Passes DEF log_macro, Past
<1>3. CASE "set_logger" \in k.ready
  <2> DEFINE n == Len(k.lines) + 1
             len == IF Head(k.code).arg < LINE THEN Head(k.code).arg ELSE LINE
             line == Line("line", n)
             y == [k EXCEPT !.code = log(n) \o Tail(@), !.lines = Append(@, len)]
  <2>1. k' = y
    BY <1>1, <1>3 DEF log_macro, Then, Arg, State
  <2>2. PICK l, m, b : Ready(k, l, m, b)
    BY <1>1, GetReady
  <2> DEFINE a == ContextOf(k, l, m)
  <2>3. Step(Head(k.code), a, b) /\ a \in Context /\ m \in BOOLEAN /\ LogOK(k, l, m)
    BY <2>2 DEF Ready
  <2>4. /\ a.line = NoLine /\ Free(a, LogLocks) /\ b = a /\ Head(k.code).arg \in Nat
        /\ l = NoLine
    BY <1>1, <2>3 DEF Step, Quiet, Silent, MayLog, Readies, ContextOf
  <2>5. n \in Nat /\ len \in Nat /\ line \in OnTheWay
    <3>1. Head(k.code).arg \in Nat /\ LINE \in Nat
      BY <2>4, KernelAssumption
    <3>2. len \in Nat
      BY <3>1
    <3> QED
      BY <1>1, <3>2 DEF State, Line, OnTheWay
  <2>6. log(n) \in Code /\ Leads(log(n), [a EXCEPT !.line = line], a)
    BY <2>3, <2>4, <2>5, LeadsLog
  <2>7. Tail(k.code) \in Code /\ Ends(Tail(k.code))
    BY <1>1, <2>2, EndsTail DEF Ready, State
  <2>8. PICK c : Leads(Tail(k.code), a, c)
    BY <2>2, <2>4 DEF Ready
  <2>9. /\ log(n) \o Tail(k.code) \in Code /\ Ends(log(n) \o Tail(k.code))
        /\ Leads(log(n) \o Tail(k.code), [a EXCEPT !.line = line], c)
    BY <2>6, <2>7, <2>8, LeadsNext, EndsOn
  <2> HIDE DEF len
  <2>10. Append(k.lines, len) \in Seq(Nat)
    BY <1>1, <2>5 DEF State
  <2>11. y \in State
    BY <1>1, <2>9, <2>10 DEF State
  <2>12. [a EXCEPT !.line = line] = ContextOf(y, line, m)
    <3>1. /\ y.locks = k.locks /\ y.saved = k.saved /\ y.sie = k.sie /\ y.stie = k.stie
          /\ y.ready = k.ready
      BY <1>1 DEF State
    <3> HIDE DEF y, line
    <3> QED
      BY <3>1 DEF ContextOf
  <2>13. /\ y.code = log(n) \o Tail(k.code) /\ y.lines = Append(k.lines, len) /\ y.sent = k.sent
         /\ y.early = k.early /\ y.early_len = k.early_len /\ y.console = k.console
         /\ y.before = k.before /\ y.lost = k.lost
         /\ y.stie = k.stie /\ y.ready = k.ready /\ y.timer = k.timer
    BY <1>1 DEF State
  <2> HIDE DEF y
  <2>14. LogOK(y, line, m)
    <3>1. ~ Pending(l) /\ l.at = "none" /\ Pending(line) /\ line.at = "line" /\ line.n = n
      BY <2>4 DEF Pending, NoLine, Line
    <3>2. /\ Len(k.lines) \in Nat /\ Len(y.lines) = Len(k.lines) + 1
          /\ \A i \in 1 .. Len(k.lines) : y.lines[i] = k.lines[i]
      BY <1>1, <2>5, <2>13 DEF State
    <3>3. /\ Rising(k.early, Len(k.lines)) /\ Rising(k.sent, Len(k.lines))
          /\ (~ k.console => k.sent = << >>) /\ (m => ~ k.console)
          /\ (k.console => \A i \in DOMAIN k.early : InSeq(k.early[i], k.sent))
          /\ \A i \in 1 .. Len(k.lines) : Accounted(k, i)
          /\ \A i \in k.lost : InSeq(i, k.sent)
      <4>1. LogOK(k, l, m)
        BY <2>3
      <4> QED
        BY <3>1, <4>1 DEF LogOK
    <3>4. Len(y.lines) - 1 = Len(k.lines) /\ line.n = Len(y.lines) /\ line.n >= 1
      BY <3>1, <3>2
    <3> HIDE DEF line, n
    <3>5. ASSUME NEW i \in 1 .. Len(y.lines) PROVE Accounted(y, i) \/ (Pending(line) /\ i = line.n)
      <4>1. CASE i = Len(y.lines)
        BY <3>1, <3>4, <4>1
      <4>2. CASE i # Len(y.lines)
        <5>1. i \in 1 .. Len(k.lines)
          BY <3>2, <4>2
        <5>2. Accounted(k, i) /\ y.lines[i] = k.lines[i]
          BY <3>2, <3>3, <5>1
        <5>3. /\ y.sent = k.sent /\ y.early = k.early /\ y.early_len = k.early_len
              /\ y.console = k.console /\ y.before = k.before
          BY <2>13
        <5> QED
          BY <5>2, <5>3 DEF Accounted
      <4> QED
        BY <4>1, <4>2
    <3>6. y.early = k.early /\ y.sent = k.sent /\ y.console = k.console /\ y.lost = k.lost
      BY <2>13
    <3> QED
      BY <3>1, <3>3, <3>4, <3>5, <3>6 DEF LogOK
  <2>15. Inv(y)
    BY <2>3, <2>5, <2>9, <2>11, <2>12, <2>13, <2>14, GoesOn, ZenonT(40) DEF Inv
  <2> QED
    BY <2>1, <2>15
<1> QED
  BY <1>2, <1>3

LEMMA MatchConsole == ASSUME Inv(k), match_console PROVE Inv(k')
<1> DEFINE n == Head(k.code).arg
           line == Line("offered", n)
           sent == IF k.console THEN Append(k.sent, n) ELSE k.sent
<1>0. k \in State /\ k.status = "on" /\ Head(k.code).op = "match_console"
  BY DEF Inv, match_console, At
<1>a. PICK refused \in SUBSET {n} :
        /\ k' = [k EXCEPT !.code = Tail(@), !.written = k.console, !.sent = sent,
                          !.lost = @ \cup refused]
        /\ ~ k.console => refused = {}
  <2>1. CASE k.console
    <3>1. PICK refused \in Refusals({<<n>>[i] : i \in DOMAIN <<n>>}) :
            k' = [Past EXCEPT !.written = TRUE, !.sent = @ \o <<n>>, !.lost = @ \cup refused]
      BY <2>1 DEF match_console, send_bytes, NoConsole, Arg
    <3>2. refused \in SUBSET {n}
      BY <3>1 DEF Refusals
    <3>3. k.sent \o <<n>> = Append(k.sent, n)
      BY <1>0 DEF State
    <3> QED
      BY <1>0, <2>1, <3>1, <3>2, <3>3 DEF Past, State
  <2>2. CASE ~ k.console
    <3>1. k.lost \cup {} = k.lost /\ k' = [Past EXCEPT !.written = FALSE]
      BY <2>2 DEF match_console, NoConsole
    <3>2. k' = [k EXCEPT !.code = Tail(@), !.written = k.console, !.sent = sent,
                         !.lost = @ \cup {}]
      BY <1>0, <2>2, <3>1 DEF Past, State
    <3> QED
      BY <3>2
  <2> QED
    BY <2>1, <2>2
<1> DEFINE lost == k.lost \cup refused
           y == [k EXCEPT !.code = Tail(@), !.written = k.console, !.sent = sent, !.lost = lost]
<1>1. k \in State /\ k.status = "on" /\ Head(k.code).op = "match_console" /\ k' = y
  BY <1>0, <1>a
<1>2. PICK l, m, b : Ready(k, l, m, b)
  BY <1>1, GetReady
<1> DEFINE a == ContextOf(k, l, m)
<1>3. Step(Head(k.code), a, b) /\ a \in Context /\ m \in BOOLEAN /\ LogOK(k, l, m)
  BY <1>2 DEF Ready
<1>4. l = Line("line", n) /\ b = [a EXCEPT !.line = line]
  BY <1>1, <1>3 DEF Step, Quiet, Silent, MayLog, Readies, ContextOf
<1>5. /\ l.at = "line" /\ l.n = n /\ Pending(l) /\ n = Len(k.lines) /\ n \in Nat /\ n >= 1
      /\ line.at = "offered" /\ line.n = n /\ Pending(line) /\ line \in OnTheWay
  <2>1. l.at = "line" /\ l.n = n /\ Pending(l) /\ Len(k.lines) \in Nat
    BY <1>1, <1>4 DEF Line, Pending, State
  <2>2. n = Len(k.lines) /\ n >= 1
    BY <1>3, <2>1 DEF LogOK
  <2> QED
    BY <2>1, <2>2 DEF Line, Pending, OnTheWay
<1>6. sent \in Seq(Nat) /\ Tail(k.code) \in Code /\ Ends(Tail(k.code))
  <2>1. sent \in Seq(Nat)
    BY <1>1, <1>5 DEF State
  <2> QED
    BY <1>1, <1>2, <2>1, EndsTail DEF State, Ready
<1>7. y \in State
  <2>1. lost \in SUBSET Nat
    BY <1>1, <1>5 DEF State
  <2> HIDE DEF lost, sent
  <2> QED
    BY <1>1, <1>6, <2>1 DEF State
<1>8. b = ContextOf(y, line, m)
  BY <1>1, <1>4 DEF ContextOf, State
<1>9. /\ y.code = Tail(k.code) /\ y.lines = k.lines /\ y.sent = sent /\ y.early = k.early
      /\ y.early_len = k.early_len /\ y.console = k.console /\ y.written = k.console
      /\ y.before = k.before /\ y.lost = lost
      /\ y.stie = k.stie /\ y.ready = k.ready /\ y.timer = k.timer
  BY <1>1 DEF State
<1>10. PICK c : Leads(Tail(k.code), b, c)
  BY <1>2 DEF Ready
<1> HIDE DEF y, line, sent, lost
<1>11. LogOK(y, line, m)
  <2>1. k.sent \in Seq(Nat) /\ Rising(k.sent, n - 1) /\ Rising(k.early, n - 1)
    BY <1>1, <1>3, <1>5 DEF State, LogOK
  <2>2. /\ k.console => Rising(sent, n) /\ InSeq(n, sent)
        /\ ~ k.console => sent = << >> /\ Rising(sent, n - 1)
        /\ \A i : InSeq(i, k.sent) => InSeq(i, sent)
    BY <1>3, <1>5, <2>1, RisingOn DEF sent, LogOK
  <2>3. /\ Rising(y.early, n - 1)
        /\ Rising(y.sent, IF y.written THEN n ELSE n - 1)
    BY <1>9, <2>1, <2>2
  <2>4. y.console => \A i \in DOMAIN y.early : InSeq(y.early[i], y.sent)
    BY <1>3, <1>5, <1>9, <2>2 DEF LogOK
  <2>5. ASSUME NEW i \in 1 .. Len(y.lines) PROVE Accounted(y, i) \/ (Pending(line) /\ i = line.n)
    BY <1>3, <1>5, <1>9, <2>2 DEF LogOK, Accounted
  <2>6. m => ~ y.console
    BY <1>3, <1>9 DEF LogOK
  <2>7. \A i \in y.lost : InSeq(i, y.sent)
    BY <1>3, <1>a, <1>9, <2>2 DEF LogOK, lost
  <2> QED
    BY <1>5, <1>9, <2>2, <2>3, <2>4, <2>5, <2>6, <2>7 DEF LogOK
<1>12. Inv(y)
  BY <1>3, <1>5, <1>6, <1>7, <1>8, <1>9, <1>10, <1>11, GoesOn DEF Inv
<1> QED
  BY <1>1, <1>12

LEMMA UnlessWritten == ASSUME Inv(k), unless_written PROVE Inv(k')
<1> DEFINE n == Head(k.code).arg
<1>1. k \in State /\ k.status = "on" /\ Head(k.code).op = "unless_written"
  BY DEF Inv, unless_written, At
<1>2. PICK l, m, b : Ready(k, l, m, b)
  BY <1>1, GetReady
<1> DEFINE a == ContextOf(k, l, m)
<1>3. Step(Head(k.code), a, b) /\ a \in Context /\ m \in BOOLEAN /\ LogOK(k, l, m)
      /\ b \in Context
  BY <1>2 DEF Ready
<1>4. l = Line("offered", n) /\ b = [a EXCEPT !.line = NoLine] /\ Free(a, {"EARLY_BUF"})
  BY <1>1, <1>3 DEF Step, Quiet, Silent, MayLog, Readies, ContextOf
<1>5. b = ContextOf(k, NoLine, m) /\ b.line = NoLine /\ Free(b, {"EARLY_BUF"})
  BY <1>4 DEF ContextOf, Free
<1>6. /\ l.at = "offered" /\ l.n = n /\ Pending(l) /\ n = Len(k.lines) /\ n \in Nat /\ n >= 1
  <2>1. l.at = "offered" /\ l.n = n /\ Pending(l) /\ Len(k.lines) \in Nat
    BY <1>1, <1>4 DEF Line, Pending, State
  <2> QED
    BY <1>3, <2>1 DEF LogOK
<1>7. Tail(k.code) \in Code /\ Ends(Tail(k.code))
  BY <1>1, <1>2, EndsTail DEF State, Ready
<1>8. PICK c : Leads(Tail(k.code), b, c)
  BY <1>2 DEF Ready
<1>9. k.written = k.console /\ k.written \in BOOLEAN /\ k.early \in Seq(Nat)
  BY <1>1, <1>3, <1>6 DEF LogOK, State
<1>10. CASE k.written
  <2>1. NoLine \in OnTheWay /\ ~ Pending(NoLine) /\ NoLine.at = "none"
    BY DEF NoLine, Line, OnTheWay, Pending
  <2>2. LogOK(k, NoLine, m)
    <3>1. Rising(k.early, n)
      BY <1>3, <1>6, <1>9, RisingOn DEF LogOK
    <3>2. ASSUME NEW i \in 1 .. Len(k.lines) PROVE Accounted(k, i)
      BY <1>3, <1>6, <1>9, <1>10 DEF LogOK, Accounted
    <3> QED
      BY <1>3, <1>6, <1>9, <1>10, <2>1, <3>1, <3>2 DEF LogOK
  <2>3. Inv([k EXCEPT !.code = Tail(@)])
    BY <1>3, <1>5, <1>7, <1>8, <2>1, <2>2, Recoded
  <2> QED
    BY <1>10, <2>3 DEF unless_written, Past
<1>11. CASE ~ k.written
  <2> DEFINE line == Line("early", n)
  <2>1. line \in OnTheWay /\ Pending(line) /\ line.at = "early" /\ line.n = n
    BY <1>6 DEF Line, OnTheWay, Pending
  <2>2. append_early(n) \in Code /\ Leads(append_early(n), [b EXCEPT !.line = line], b)
    BY <1>3, <1>5, <1>6, LeadsAppendEarly
  <2>3. [b EXCEPT !.line = line] = ContextOf(k, line, m)
    <3> HIDE DEF line
    <3> QED
      BY <1>5 DEF ContextOf
  <2> DEFINE f == append_early(n) \o Tail(k.code)
  <2>4. f \in Code /\ Ends(f) /\ Leads(f, ContextOf(k, line, m), c)
    BY <1>7, <1>8, <2>2, <2>3, LeadsNext, EndsOn
  <2> HIDE DEF line, f
  <2>5. LogOK(k, line, m)
    BY <1>3, <1>6, <1>9, <1>11, <2>1 DEF LogOK
  <2>6. Inv([k EXCEPT !.code = f])
    BY <1>3, <2>1, <2>4, <2>5, Recoded
  <2> QED
    BY <1>11, <2>6 DEF unless_written, Then, Arg, f
<1> QED
  BY <1>9, <1>10, <1>11

LEMMA Appends == ASSUME Inv(k), append PROVE Inv(k')
<1> DEFINE n == Head(k.code).arg
           fits == ~ (k.early_len + k.lines[n] > EARLY)
           y == [k EXCEPT !.code = Tail(@), !.early = IF fits THEN Append(@, n) ELSE @,
                          !.early_len = IF fits THEN @ + k.lines[n] ELSE @]
<1>1. k \in State /\ k.status = "on" /\ Head(k.code).op = "append"
  BY DEF Inv, append, At
<1>2. k' = y
  <2>1. CASE fits
    BY <1>1, <2>1 DEF append, Past, Arg, State
  <2>2. CASE ~ fits
    BY <1>1, <2>2 DEF append, Past, Arg, State
  <2> QED
    BY <2>1, <2>2
<1>3. PICK l, m, b : Ready(k, l, m, b)
  BY <1>1, GetReady
<1> DEFINE a == ContextOf(k, l, m)
<1>4. Step(Head(k.code), a, b) /\ m \in BOOLEAN /\ LogOK(k, l, m)
  BY <1>3 DEF Ready
<1>5. l = Line("early", n) /\ b = [a EXCEPT !.line = NoLine]
  BY <1>1, <1>4 DEF Step, Quiet, Silent, MayLog, Readies, ContextOf
<1>6. /\ l.at = "early" /\ l.n = n /\ Pending(l) /\ n = Len(k.lines) /\ n \in Nat /\ n >= 1
      /\ ~ k.console
  <2>1. l.at = "early" /\ l.n = n /\ Pending(l) /\ Len(k.lines) \in Nat
    BY <1>1, <1>5 DEF Line, Pending, State
  <2> QED
    BY <1>4, <2>1 DEF LogOK
<1>7. /\ k.lines \in Seq(Nat) /\ \A i \in 1 .. n : k.lines[i] \in Nat
      /\ k.early_len \in Nat /\ k.early \in Seq(Nat) /\ EARLY \in Nat
  BY <1>1, <1>6, KernelAssumption DEF State
<1> DEFINE early == IF fits THEN Append(k.early, n) ELSE k.early
           len == IF fits THEN k.early_len + k.lines[n] ELSE k.early_len
<1>8. early \in Seq(Nat) /\ len \in Nat /\ len >= k.early_len
  <2>1. k.lines[n] \in Nat
    BY <1>6, <1>7
  <2>2. n \in Nat /\ Append(k.early, n) \in Seq(Nat)
    BY <1>6, <1>7
  <2>3. k.early_len \in Nat
    BY <1>7
  <2>4. k.early_len + k.lines[n] \in Nat /\ k.early_len + k.lines[n] >= k.early_len
        /\ k.early_len >= k.early_len
    <3> DEFINE e == k.early_len
               o == k.lines[n]
    <3> HIDE DEF e, o
    <3>1. e \in Nat /\ o \in Nat => e + o \in Nat /\ e + o >= e /\ e >= e
      OBVIOUS
    <3> QED
      BY <2>1, <2>3, <3>1 DEF e, o
  <2> HIDE DEF n, fits
  <2> QED
    BY <1>7, <2>2, <2>3, <2>4
<1>9. Tail(k.code) \in Code /\ Ends(Tail(k.code))
  BY <1>1, <1>3, EndsTail DEF State, Ready
<1>10. y \in State
  BY <1>1, <1>8, <1>9 DEF State
<1>11. b = ContextOf(y, NoLine, m)
  <2>1. /\ y.locks = k.locks /\ y.saved = k.saved /\ y.sie = k.sie /\ y.stie = k.stie
        /\ y.ready = k.ready
    BY <1>1 DEF State
  <2> HIDE DEF y
  <2> QED
    BY <1>5, <2>1 DEF ContextOf
<1>12. /\ y.code = Tail(k.code) /\ y.lines = k.lines /\ y.sent = k.sent /\ y.early = early
       /\ y.early_len = len /\ y.console = k.console /\ y.before = k.before /\ y.lost = k.lost
       /\ y.stie = k.stie /\ y.ready = k.ready /\ y.timer = k.timer
  BY <1>1 DEF State
<1> HIDE DEF y
<1>13. NoLine \in OnTheWay /\ ~ Pending(NoLine) /\ NoLine.at = "none"
  BY DEF NoLine, Line, OnTheWay, Pending
<1>14. LogOK(y, NoLine, m)
  <2>1. /\ Rising(early, n) /\ (fits => InSeq(n, early))
        /\ \A i : InSeq(i, k.early) => InSeq(i, early)
    BY <1>4, <1>6, <1>7, RisingOn DEF LogOK
  <2>2. k.sent = << >> /\ Rising(k.sent, n)
    <3>1. LogOK(k, l, m) /\ ~ k.console
      BY <1>4, <1>6
    <3>2. k.sent = << >>
      BY <3>1 DEF LogOK
    <3>3. Rising(<< >>, n)
      BY DEF Rising
    <3> QED
      BY <3>2, <3>3
  <2>3. ASSUME NEW i \in 1 .. n PROVE Accounted(y, i)
    <3>0. ~ y.console
      BY <1>4, <1>6, <1>12
    <3>1. CASE i = n
      BY <1>12, <2>1, <3>0, <3>1 DEF Accounted
    <3>2. CASE i # n
      <4>1. Accounted(k, i)
        BY <1>4, <1>6, <3>2 DEF LogOK
      <4>2. k.early_len + k.lines[i] > EARLY => len + k.lines[i] > EARLY
        <5>1. k.lines[i] \in Nat
          BY <1>7
        <5> HIDE DEF len
        <5> QED
          BY <1>7, <1>8, <5>1
      <4> HIDE DEF len, early
      <4> QED
        BY <1>12, <2>1, <3>0, <4>1, <4>2 DEF Accounted
    <3> QED
      BY <3>1, <3>2
  <2> HIDE DEF len, early
  <2> QED
    BY <1>4, <1>6, <1>12, <1>13, <2>1, <2>2, <2>3 DEF LogOK
<1>15. PICK c : Leads(Tail(k.code), b, c)
  BY <1>3 DEF Ready
<1>16. Inv(y)
  BY <1>4, <1>9, <1>10, <1>11, <1>12, <1>13, <1>14, <1>15, GoesOn DEF Inv
<1> QED
  BY <1>2, <1>16

LEMMA SetConsole == ASSUME Inv(k), set_console PROVE Inv(k')
<1> DEFINE y == [k EXCEPT !.code = Tail(@), !.console = TRUE, !.before = Len(k.lines)]
<1>1. k \in State /\ k.status = "on" /\ Head(k.code).op = "set_console" /\ k' = y
  BY DEF Inv, set_console, At, Past, State
<1>2. PICK l, m, b : Ready(k, l, m, b)
  BY <1>1, GetReady
<1> DEFINE a == ContextOf(k, l, m)
<1>3. Step(Head(k.code), a, b) /\ m \in BOOLEAN /\ LogOK(k, l, m)
  BY <1>2 DEF Ready
<1>4. l = NoLine /\ m /\ b = [a EXCEPT !.may = FALSE, !.line = EarlyLines]
  BY <1>1, <1>3 DEF Step, Quiet, Silent, MayLog, Readies, ContextOf
<1>5. Tail(k.code) \in Code /\ Ends(Tail(k.code))
  BY <1>1, <1>2, EndsTail DEF State, Ready
<1>6. y \in State
  <2>1. Len(k.lines) \in Nat
    BY <1>1 DEF State
  <2> QED
    BY <1>1, <1>5, <2>1 DEF State
<1>7. b = ContextOf(y, EarlyLines, FALSE)
  BY <1>1, <1>4 DEF ContextOf, State
<1>8. /\ y.code = Tail(k.code) /\ y.lines = k.lines /\ y.sent = k.sent /\ y.early = k.early
      /\ y.early_len = k.early_len /\ y.console /\ y.before = Len(k.lines) /\ y.lost = k.lost
      /\ y.stie = k.stie /\ y.ready = k.ready /\ y.timer = k.timer
  BY <1>1 DEF State
<1> HIDE DEF y
<1>9. /\ ~ Pending(NoLine) /\ NoLine.at = "none" /\ EarlyLines \in OnTheWay
      /\ ~ Pending(EarlyLines) /\ EarlyLines.at = "flush"
  BY DEF NoLine, EarlyLines, Line, OnTheWay, Pending
<1>10. LogOK(y, EarlyLines, FALSE)
  BY <1>3, <1>4, <1>8, <1>9 DEF LogOK, Accounted
<1>11. PICK c : Leads(Tail(k.code), b, c)
  BY <1>2 DEF Ready
<1>12. Inv(y)
  BY <1>5, <1>6, <1>7, <1>8, <1>9, <1>10, <1>11, GoesOn DEF Inv
<1> QED
  BY <1>1, <1>12

LEMMA SendEarly == ASSUME Inv(k), send_early PROVE Inv(k')
<1>1. k \in State /\ k.status = "on" /\ Head(k.code).op = "send_early"
  BY DEF Inv, send_early, At
<1>2. PICK l, m, b : Ready(k, l, m, b)
  BY <1>1, GetReady
<1> DEFINE a == ContextOf(k, l, m)
<1>3. Step(Head(k.code), a, b) /\ m \in BOOLEAN /\ LogOK(k, l, m)
  BY <1>2 DEF Ready
<1>4. l = EarlyLines /\ b = [a EXCEPT !.line = NoLine]
  BY <1>1, <1>3 DEF Step, Quiet, Silent, MayLog, Readies, ContextOf
<1>5. Tail(k.code) \in Code /\ Ends(Tail(k.code))
  BY <1>1, <1>2, EndsTail DEF State, Ready
<1>6. /\ ~ Pending(NoLine) /\ NoLine.at = "none" /\ NoLine \in OnTheWay
      /\ ~ Pending(EarlyLines) /\ EarlyLines.at = "flush"
  BY DEF NoLine, EarlyLines, Line, OnTheWay, Pending
<1>7. k.console /\ k.sent = << >> /\ k.sent \o k.early = k.early /\ k.early \in Seq(Nat)
  <2>1. k.console /\ k.sent = << >> /\ k.early \in Seq(Nat)
    BY <1>1, <1>3, <1>4, <1>6 DEF LogOK, State
  <2> QED
    BY <2>1
<1> DEFINE early == {k.early[i] : i \in DOMAIN k.early}
<1>a. PICK refused \in SUBSET early :
        k' = [Past EXCEPT !.written = TRUE, !.sent = @ \o k.early, !.lost = @ \cup refused]
  BY <1>7 DEF send_early, send_bytes, NoConsole, Refusals
<1> DEFINE lost == k.lost \cup refused
           y == [k EXCEPT !.code = Tail(@), !.written = TRUE, !.sent = k.early, !.lost = lost]
<1>8. k' = y
  BY <1>1, <1>7, <1>a DEF Past, State
<1>9. y \in State
  <2>1. lost \in SUBSET Nat
    BY <1>1, <1>7 DEF State
  <2> HIDE DEF lost
  <2> QED
    BY <1>1, <1>5, <1>7, <2>1 DEF State
<1>10. b = ContextOf(y, NoLine, m)
  BY <1>1, <1>4 DEF ContextOf, State
<1>11. /\ y.code = Tail(k.code) /\ y.lines = k.lines /\ y.sent = k.early /\ y.early = k.early
       /\ y.early_len = k.early_len /\ y.console = k.console /\ y.before = k.before
       /\ y.lost = lost /\ y.stie = k.stie /\ y.ready = k.ready /\ y.timer = k.timer
  BY <1>1, <1>7 DEF State
<1> HIDE DEF y
<1>12. LogOK(y, NoLine, m)
  <2>1. \A i \in DOMAIN y.early : InSeq(y.early[i], y.sent)
    BY <1>11 DEF InSeq
  <2>3. \A i \in y.lost : InSeq(i, y.sent)
    <3>1. k.lost = {}
      BY <1>3, <1>7 DEF LogOK, InSeq
    <3> QED
      BY <1>11, <3>1 DEF InSeq
  <2>2. ASSUME NEW i \in 1 .. Len(y.lines) PROVE Accounted(y, i)
    <3>1. Accounted(k, i) /\ ~ InSeq(i, k.sent)
      BY <1>3, <1>4, <1>6, <1>7, <1>11 DEF LogOK, InSeq
    <3> QED
      BY <1>11, <3>1 DEF Accounted
  <2> QED
    BY <1>3, <1>4, <1>6, <1>7, <1>11, <2>1, <2>2, <2>3 DEF LogOK
<1>13. PICK c : Leads(Tail(k.code), b, c)
  BY <1>2 DEF Ready
<1>14. Inv(y)
  BY <1>3, <1>5, <1>6, <1>9, <1>10, <1>11, <1>12, <1>13, GoesOn DEF Inv
<1> QED
  BY <1>8, <1>14

LEMMA ExecKeepsInv == ASSUME Inv(k), Exec PROVE Inv(k')
  BY Csrr, Csrci, RestoreSie, Lock, Unlock, Csrs, BecomesReady, MayLogSteps, Prompt, ScanSlots,
     Logs, MatchConsole, UnlessWritten, Appends, SetConsole, SendEarly DEF Exec

LEMMA InitInv == ASSUME Init PROVE Inv(k)
<1>1. _start \in Code /\ Leads(_start, Booting, Booted)
  BY LeadsStart
<1>2. k \in State
  <2>1. << >> \in Seq(BOOLEAN) /\ << >> \in Seq(Nat)
    OBVIOUS
  <2> QED
    BY <1>1, <2>1 DEF Init, State
<1>3. ContextOf(k, NoLine, TRUE) = Booting
  BY DEF Init, ContextOf, Booting
<1>4. Ends(_start)
  <2>1. PICK f \in Code : _start = f \o shell
    BY LeadsStart
  <2>2. shell \in Code
    BY BootContexts, LeadsShell
  <2> QED
    BY <2>1, <2>2, EndsEnd, EndsOn
<1>5. NoLine \in OnTheWay /\ ~ Pending(NoLine) /\ NoLine.at = "none"
  BY DEF NoLine, Line, OnTheWay, Pending
<1>6. LogOK(k, NoLine, TRUE)
  BY <1>5 DEF Init, LogOK, Rising
<1>7. k.code = _start /\ ~ k.stie /\ k.timer = "off"
  BY DEF Init
<1> QED
  BY <1>1, <1>2, <1>3, <1>4, <1>5, <1>6, <1>7, GoesOn
------------------------------------------------------------------------------
(* What the invariant says of the instruction the kernel is at.            *)
LEMMA AtBreakpoint ==
  ASSUME NEW x, Inv(x), x.status = "on", Head(x.code).op = "ebreak"
  PROVE  TrapReady \subseteq x.ready /\ Head(x.code).arg \in {2, 4}
<1>1. PICK l, m, b : Ready(x, l, m, b)
  BY GetReady
<1>2. Step(Head(x.code), ContextOf(x, l, m), b)
  BY <1>1 DEF Ready
<1>3. Handled(ContextOf(x, l, m)) /\ Head(x.code).arg \in {2, 4}
  BY <1>2 DEF Step, Quiet, Silent, MayLog, Readies
<1> QED
  BY <1>3 DEF Handled, ContextOf

LEMMA CleanAtPrompt ==
  ASSUME NEW x, Inv(x), x.status = "on", Head(x.code).op = "prompt"
  PROVE  x.locks = {} /\ x.saved = << >> /\ x.sie /\ x.stie
<1>1. PICK l, m, b : Ready(x, l, m, b)
  BY GetReady
<1>2. Step(Head(x.code), ContextOf(x, l, m), b)
  BY <1>1 DEF Ready
<1>3. Clean(ContextOf(x, l, m))
  BY <1>2 DEF Step, Quiet, Silent, MayLog, Readies
<1> QED
  BY <1>3 DEF Clean, ContextOf

LEMMA FreeAtLock ==
  ASSUME NEW x, Inv(x), x.status = "on", Head(x.code).op = "lock"
  PROVE  Head(x.code).arg \notin x.locks
<1>1. PICK l, m, b : Ready(x, l, m, b)
  BY GetReady
<1>2. Step(Head(x.code), ContextOf(x, l, m), b)
  BY <1>1 DEF Ready
<1>3. Head(x.code).arg \notin ContextOf(x, l, m).locks
  BY <1>2 DEF Step, Quiet, Silent, MayLog, Readies
<1> QED
  BY <1>3 DEF ContextOf

Given(x, n) == InSeq(n, x.sent) \/ (n <= x.before /\ x.early_len + x.lines[n] > EARLY)

LEMMA LogIsKept ==
  ASSUME NEW x, Inv(x)
  PROVE  /\ \A i, j \in DOMAIN x.sent : i < j => x.sent[i] < x.sent[j]
         /\ \A n \in x.lost : InSeq(n, x.sent)
         /\ x.status = "on" /\ Head(x.code).op \in {"prompt", "loop"} /\ x.console =>
              \A n \in DOMAIN x.lines : Given(x, n)
<1>1. /\ \A i, j \in DOMAIN x.sent : i < j => x.sent[i] < x.sent[j]
      /\ \A n \in x.lost : InSeq(n, x.sent)
  BY DEF Inv, LogOK, Rising
<1>2. ASSUME x.status = "on", Head(x.code).op \in {"prompt", "loop"}, x.console
      PROVE  \A n \in DOMAIN x.lines : Given(x, n)
  <2>1. PICK l, m, b : Ready(x, l, m, b)
    BY <1>2, GetReady
  <2>2. Step(Head(x.code), ContextOf(x, l, m), b) /\ LogOK(x, l, m)
    BY <2>1 DEF Ready
  <2>3. l = NoLine
    BY <1>2, <2>2 DEF Step, Quiet, Silent, MayLog, Readies, ContextOf
  <2>4. ~ Pending(l) /\ l.at # "flush"
    BY <2>3 DEF NoLine, Line, Pending
  <2>5. DOMAIN x.lines = 1 .. Len(x.lines)
    BY DEF Inv, State
  <2>6. ASSUME NEW n \in DOMAIN x.lines
        PROVE  Given(x, n)
    <3>1. Accounted(x, n)
      BY <2>2, <2>4, <2>5 DEF LogOK
    <3>2. ASSUME InSeq(n, x.early) PROVE InSeq(n, x.sent)
      <4>1. \A i \in DOMAIN x.early : InSeq(x.early[i], x.sent)
        BY <1>2, <2>2, <2>4 DEF LogOK
      <4> QED
        BY <3>2, <4>1 DEF InSeq
    <3> QED
      BY <1>2, <3>1, <3>2 DEF Accounted, Given
  <2> QED
    BY <2>6
<1> QED
  BY <1>1, <1>2

(* The program by itself: a timer that goes off and is set again is all    *)
(* that comes in between.                                                  *)
LEMMA NextKeepsInv == ASSUME Inv(k), Next PROVE Inv(k')
<1>1. CASE Exec
  BY <1>1, ExecKeepsInv
<1>2. CASE ebreak
  BY <1>2, MayLogSteps
<1>3. CASE Expire \/ Rearm
  <2>1. "sysinfo" \in k.ready
    BY <1>3 DEF Expire, Rearm, Inv
  <2> QED
    BY <1>3, <2>1, Irrelevant DEF Expire, Rearm
<1> QED
  BY <1>1, <1>2, <1>3 DEF Next

(* The kernel never waits for a lock it holds itself: not in an allocation *)
(* that fails and logs that it does, not in a panic under a lock, not when *)
(* the early lines are flushed.  spin::Mutex would spin for ever.          *)
LocksAreFree == At("lock") => Arg \notin k.locks

(* Whatever is typed and whatever the machine decides, the lock the        *)
(* program is about to take is free.                                       *)
THEOREM ProgramNeverWaitsForItself == Spec => []LocksAreFree
<1>1. Init => Inv(k)
  BY InitInv
<1>2. Inv(k) /\ [Next]_k => Inv(k)'
  <2>1. ASSUME Inv(k), UNCHANGED k PROVE Inv(k)'
    BY <2>1
  <2> QED
    BY <2>1, NextKeepsInv
<1>3. Inv(k) => LocksAreFree
  BY FreeAtLock DEF LocksAreFree, At, Arg
<1> QED
  BY <1>1, <1>2, <1>3, PTL DEF Spec
=============================================================================
