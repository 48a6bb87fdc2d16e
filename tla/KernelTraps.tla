----------------------------- MODULE KernelTraps -----------------------------
(***************************************************************************)
(* The kernel with the traps that interrupt it: the timer's expiry, the    *)
(* hart entering the handler, the assembly that saves and restores the     *)
(* registers (src/trap_handler.rs) and the Rust handler between them.      *)
(*                                                                         *)
(* Between two instructions of the program each register holds a value of  *)
(* the program's, here the register's own name, so that one that comes     *)
(* back with another value is seen.  ra, sp, t0 and a0 are the registers   *)
(* the assembly itself uses, s1 stands for the others.                     *)
(***************************************************************************)
EXTENDS KernelProgram

VARIABLE h   \* the hart: registers, trap CSRs, INITIAL_TRAP_FRAME, where it is

Regs == {"ra", "sp", "t0", "a0", "s1"}
Program == [r \in Regs |-> r]
Frame == "&INITIAL_TRAP_FRAME"
KernelSp == "trap_stack_top"
Garbage == "garbage"

TrapFrame == Regs \cup {"kernel_sp", "sepc"}
NoFrame(sp) == [[r \in TrapFrame |-> Garbage] EXCEPT !["kernel_sp"] = sp, !["sepc"] = 0]

Scause(interrupt, code) == [interrupt |-> interrupt, code |-> code]
NoCause == Scause(FALSE, 0)

TrapInit ==
  /\ Init
  /\ h = [regs |-> Program, sscratch |-> Garbage, sepc |-> 0, spie |-> FALSE, scause |-> NoCause,
          frame |-> NoFrame(Garbage), at |-> "program"]
------------------------------------------------------------------------------
setup_trap_frame(x) == [x EXCEPT !.sscratch = Frame, !.frame["kernel_sp"] = KernelSp]

(* The program runs, and may set up the trap frame.                        *)
Run ==
  /\ h.at = "program"
  /\ Exec
  /\ h' = IF At("sscratch") THEN setup_trap_frame(h) ELSE h

(* What the hart does on a trap: sepc is where the program was, counted    *)
(* from the instruction it was about to run.                               *)
Trap(cause) ==
  /\ h.at = "program"
  /\ h' = [h EXCEPT !.at = "entry", !.sepc = 0, !.spie = k.sie, !.scause = cause]
  /\ k' = [k EXCEPT !.sie = FALSE,
                    !.status = IF "stvec" \in k.ready THEN @ ELSE "lost"]

Interrupt == /\ k.status = "on" /\ k.timer = "pending" /\ k.sie /\ k.stie
             /\ Trap(Scause(TRUE, 5))
Breakpoint == At("ebreak") /\ Trap(Scause(FALSE, 3))
------------------------------------------------------------------------------
(* trap_handler, down to the call.  A store goes through a0.               *)
Written(f, g) == [r \in DOMAIN f |-> IF r \in DOMAIN g THEN g[r] ELSE f[r]]
Store(x, g) == IF x.regs["a0"] = Frame THEN [x EXCEPT !.frame = Written(@, g)] ELSE x
Swap(x) == [x EXCEPT !.regs["a0"] = x.sscratch, !.sscratch = x.regs["a0"]]
SaveRegs(x) == Store(x, [r \in Regs \ {"a0"} |-> x.regs[r]])
SaveT0(x, field) == Store(x, [r \in {field} |-> x.regs["t0"]])
SaveSepc(x) == SaveT0([x EXCEPT !.regs["t0"] = x.sepc], "sepc")
SaveA0(x) == SaveT0([x EXCEPT !.regs["t0"] = x.sscratch], "a0")
KeepFrame(x) == [x EXCEPT !.sscratch = x.regs["a0"], !.regs["sp"] = x.frame["kernel_sp"]]

Entry_clobbers_a0(x) == KeepFrame(SaveSepc(SaveRegs(Swap(x))))
Entry(x) == KeepFrame(SaveA0(SaveSepc(SaveRegs(Swap(x)))))

Save == /\ k.status = "on" /\ h.at = "entry"
        /\ h' = [Entry(h) EXCEPT !.at = "handler"]
        /\ UNCHANGED k

(* trap_handler_rust returns with the callee-saved registers as they were. *)
CallerSaved == {"ra", "t0", "a0"}
Called(x) == [x EXCEPT !.regs = Written(@, [r \in CallerSaved |-> Garbage]), !.at = "exit"]

(* Scause::reason, as far as the handler asks.                             *)
reason(cause) ==
  CASE cause = Scause(TRUE, 5) -> "SupervisorTimerInterrupt"
    [] cause = Scause(FALSE, 3) -> "Breakpoint"
    [] OTHER -> "other"

(* The low bits of ebreak's and c.ebreak's first halfword.                 *)
LowBits(width) == IF width = 4 THEN 3 ELSE 2
ebreak_size == IF LowBits(Arg) = 3 THEN 4 ELSE 2

HandleTimer_once == reason(h.scause) = "SupervisorTimerInterrupt" /\ h' = Called(h) /\ UNCHANGED k
HandleTimer ==
  /\ reason(h.scause) = "SupervisorTimerInterrupt"
  /\ IF "sysinfo" \in k.ready
     THEN k' = [k EXCEPT !.timer = "armed"] /\ h' = Called(h)
     ELSE k' = Panics /\ h' = [h EXCEPT !.at = "program"]
HandleBreakpoint ==
  /\ reason(h.scause) = "Breakpoint"
  /\ h' = [Called(h) EXCEPT !.frame["sepc"] = @ + ebreak_size]
  /\ UNCHANGED k

Handle == k.status = "on" /\ h.at = "handler" /\ (HandleTimer \/ HandleBreakpoint)

(* ... and from the call to sret.  a0 is loaded last, through itself.      *)
LoadFrame(x) == [x EXCEPT !.regs["a0"] = x.sscratch]
LoadSepc(x) == [x EXCEPT !.sepc = IF x.regs["a0"] = Frame THEN x.frame["sepc"] ELSE Garbage]
LoadRegs(x) ==
  [x EXCEPT !.regs = IF @["a0"] = Frame THEN [r \in Regs |-> x.frame[r]]
                     ELSE [r \in Regs |-> Garbage]]

Restore == /\ k.status = "on" /\ h.at = "exit"
           /\ h' = [LoadRegs(LoadSepc(LoadFrame(h))) EXCEPT !.at = "sret"]
           /\ UNCHANGED k

(* The program goes on, if it is the program: with its own registers, at   *)
(* the start of an instruction.  The frame is left as it is and never read *)
(* again, which the model does not keep.                                   *)
Goes(sepc) == \/ sepc = 0 /\ k' = [k EXCEPT !.sie = h.spie]
              \/ sepc # 0 /\ k' = [Past EXCEPT !.sie = h.spie]
Resumable == /\ h.regs = Program
             /\ h.sepc = 0 \/ (Head(k.code).op = "ebreak" /\ h.sepc = Arg)
Sret == /\ k.status = "on" /\ h.at = "sret"
        /\ IF Resumable THEN Goes(h.sepc) ELSE k' = [k EXCEPT !.status = "lost"]
        /\ h' = [h EXCEPT !.at = "program", !.scause = NoCause, !.sepc = 0, !.spie = FALSE,
                          !.frame = NoFrame(@["kernel_sp"])]

TrapSteps == Save \/ Handle \/ Restore \/ Sret
TimerExpires == Expire /\ UNCHANGED h

TrapNext == Run \/ Interrupt \/ Breakpoint \/ Save \/ Handle \/ Restore \/ Sret \/ TimerExpires

vars == <<k, h>>

(* The timer is set a second ahead and a trap takes far less, so that the  *)
(* program is not starved by interrupts; nobody has to type.               *)
Progress == (Run /\ ~ At("prompt")) \/ Breakpoint
Fairness == /\ WF_vars(TrapSteps) /\ WF_vars(TimerExpires) /\ WF_vars(Interrupt)
            /\ SF_vars(Progress)

TrapSpec == TrapInit /\ [][TrapNext]_vars /\ Fairness
------------------------------------------------------------------------------
InProgram == h.at = "program"
Ended == k.status = "off" \/ At("loop")

(* The kernel as the interrupted program sees it.                          *)
Seen == [k EXCEPT !.sie = IF InProgram THEN @ ELSE h.spie]
Uninterrupted == INSTANCE KernelProgram WITH k <- Seen

(* Traps are invisible to the code they interrupt: whatever instruction    *)
(* the timer or a breakpoint hits, the kernel goes on as the program alone *)
(* would, with its registers, its interrupt state and at an instruction,   *)
(* and no trap comes before there is a handler for it.                     *)
RefinesUninterrupted == Uninterrupted!Spec

(* When the shell waits for a line no lock is held, every critical section *)
(* has been left and the timer can interrupt, whatever the command before  *)
(* did and wherever it was interrupted.                                    *)
PromptIsClean ==
  At("prompt") /\ InProgram => k.locks = {} /\ k.saved = << >> /\ k.sie /\ k.stie

(* The console gets the log lines in the order they were logged, and none  *)
(* twice.  When the kernel waits at the prompt, or has panicked, it has    *)
(* been given each line logged since there is a console, the panic's own   *)
(* among them, and each earlier one but those the early buffer has no room *)
(* for.  What it was given has come out unless its driver failed on it.    *)
Sent(n) == \E i \in DOMAIN k.sent : k.sent[i] = n
LogIsComplete ==
  /\ \A i, j \in DOMAIN k.sent : i < j => k.sent[i] < k.sent[j]
  /\ \A n \in k.lost : Sent(n)
  /\ (At("prompt") \/ At("loop")) /\ k.console =>
       \A n \in DOMAIN k.lines : Sent(n) \/ (n <= k.before /\ k.early_len + k.lines[n] > EARLY)

(* The kernel never waits for itself: it comes back to the prompt, shuts   *)
(* down or ends in the panic handler's loop, out of memory or not, with a  *)
(* lock held or not.                                                       *)
KeepsGoing == []<>((At("prompt") /\ InProgram) \/ Ended)

(* The timer ticks on: one that has gone off is set again, even in the     *)
(* panic handler's loop.                                                   *)
TicksGoOn == k.timer = "pending" ~> (k.timer = "armed" \/ k.status = "off")
==============================================================================
