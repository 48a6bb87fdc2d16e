-------------------------------- MODULE Shell --------------------------------
(***************************************************************************)
(* The shell (src/shell.rs): the line editor with its escape sequences,    *)
(* the command history, and how a line becomes a command.  What a command  *)
(* does to the filesystem is LemonFS, to locks and interrupts KernelTraps. *)
(*                                                                         *)
(* A byte from the UART is one of the keys below, a printable character or *)
(* a whole word, which no code here looks into, or a control byte that the *)
(* shell gives no meaning: it is printed and kept like text, but takes no  *)
(* column or leaves the row.  The screen is the row of the prompt, and a   *)
(* line is shorter than it.                                                *)
(***************************************************************************)
EXTENDS Integers, SequencesExt

CONSTANTS HISTORY_CAPACITY,
          Words,          \* printable bytes, besides the ones named here
          Numbers,        \* the words that parse as a number
          Controls,       \* bytes below 32 and from 128 to 159, but CR, ESC and 8
          White,          \* what trim takes off: the space, line feed, tab, ...
          Bursts,         \* byte sequences that arrive at once
          MAX_BURSTS,     \* bound: how many of them
          MAX_LINE        \* bound: the length of a line

CR == "\r"
ESC == "ESC"
DEL == "DEL"        \* 127 or 8
Space == " "
Slash == "/"
Printable == Words \cup {Space, Slash, "[", "A", "B"}

Keys == Printable \cup Controls \cup {CR, ESC, DEL}

ASSUME ShellAssumption ==
  /\ HISTORY_CAPACITY \in Nat \ {0}
  /\ Numbers \subseteq Words
  /\ Space \in White /\ White \subseteq Printable \cup Controls
  /\ Bursts \subseteq Seq(Keys)

VARIABLES shell,    \* see NewLine, with the CommandHistory and the last line's command
          uart,     \* the bytes that have arrived and are not read
          bursts

vars == <<shell, uart, bursts>>
------------------------------------------------------------------------------
(* The locals of read_line_and_display, what stands after the prompt, and  *)
(* the line as it was typed, apart from the entries that were recalled.    *)
(* ran: the lines run, but for blank ones and one just run before.         *)
NewLine(hist, ran, line, did) ==
  [s |-> << >>, draft |-> << >>, history_index |-> Len(hist), input_state |-> "Normal",
   screen |-> << >>, own |-> << >>, entries |-> hist, ran |-> ran, line |-> line, did |-> did]

Does(command, path, text) == [command |-> command, path |-> path, text |-> text]
NotFound == Does("not found", << >>, << >>)

(* trim takes white bytes off both ends; split(' ') makes a part of what   *)
(* is between two spaces, empty or not.                                    *)
Blank(line) == \A i \in DOMAIN line : line[i] \in White
IsWord(line, i) == line[i] \notin White
trim(line) ==
  IF Blank(line) THEN << >>
  ELSE SubSeq(line, Min({i \in DOMAIN line : IsWord(line, i)}),
                    Max({i \in DOMAIN line : IsWord(line, i)}))
split_words(line) ==
  FoldLeft(LAMBDA parts, c : CASE c # Space -> Front(parts) \o << Append(Last(parts), c) >>
                               [] Last(parts) = << >> -> parts
                               [] OTHER -> Append(parts, << >>),
           << << >> >>, line)
split(line) ==
  FoldLeft(LAMBDA parts, c : IF c = Space THEN Append(parts, << >>)
                             ELSE Front(parts) \o << Append(Last(parts), c) >>,
           << << >> >>, line)
join(parts) ==
  IF parts = << >> THEN << >>
  ELSE FoldLeft(LAMBDA text, part : text \o <<Space>> \o part, Head(parts), Tail(parts))

push_at_capacity(hist, line) ==
  IF Blank(line) \/ (hist # << >> /\ Last(hist) = line) THEN hist
  ELSE Append(IF Len(hist) > HISTORY_CAPACITY THEN Tail(hist) ELSE hist, line)
push(hist, line) ==
  IF Blank(line) \/ (hist # << >> /\ Last(hist) = line) THEN hist
  ELSE Append(IF Len(hist) = HISTORY_CAPACITY THEN Tail(hist) ELSE hist, line)
Ran(ran, line) ==
  IF Blank(line) \/ (ran # << >> /\ Last(ran) = line) THEN ran ELSE Append(ran, line)
------------------------------------------------------------------------------
normalize_root_path(path) ==
  IF path # << >> /\ Head(path) = Slash THEN path ELSE <<Slash>> \o path

Plain == {"hello", "exit", "memory", "uptime", "sysinfo", "tree", "history", "help",
          "dumpfs", "flush"}
OnPath == {"mkdir", "touch", "rm", "cat"}
Counted == [allocate |-> 1, timer |-> 1, bench |-> 2]

parses(part) == Len(part) = 1 /\ part[1] \in Numbers

(* write splits the parts at 2, which panics when there is only the word.  *)
from_parts(parts) ==
  LET name == parts[1]
      is(word) == name = <<word>>
  IN  CASE \E w \in Plain : is(w) -> Does(name[1], << >>, << >>)
        [] \E w \in OnPath : is(w) ->
             IF Len(parts) < 2 THEN NotFound
             ELSE Does(name[1], normalize_root_path(parts[2]), << >>)
        [] \E w \in DOMAIN Counted : is(w) ->
             LET args == 2 .. Counted[name[1]] + 1
             IN  IF \A i \in args : i <= Len(parts) /\ parses(parts[i])
                 THEN Does(name[1], << >>, join(SubSeq(parts, 2, Counted[name[1]] + 1)))
                 ELSE NotFound
        [] is("ls") ->
             Does("ls", normalize_root_path(IF Len(parts) < 2 THEN <<".">> ELSE parts[2]), << >>)
        [] is("write") ->
             IF Len(parts) < 2 THEN Does("panic", << >>, << >>)
             ELSE Does("write", normalize_root_path(parts[2]), join(SubSeq(parts, 3, Len(parts))))
        [] OTHER -> NotFound

from_line(line) == from_parts(split(trim(line)))
------------------------------------------------------------------------------
(* One byte.  AtEnd: no entry of the history is shown.                     *)
AtEnd(x) == x.history_index = Len(x.entries)
ToState(x, state) == [x EXCEPT !.input_state = state]

(* What a terminal makes of a row with a control byte is its own affair.   *)
Garbled == <<"garbled">>
Row(s) == IF \E i \in DOMAIN s : s[i] \in Controls THEN Garbled ELSE s

redraw_line_no_erase(x) ==
  [x EXCEPT !.screen = Row(x.s \o SubSeq(@, Len(x.s) + 1, Len(@)))]
redraw_line(x) == [x EXCEPT !.screen = Row(x.s)]

(* Entries count from 0.                                                   *)
Recall(x, i) ==
  redraw_line([x EXCEPT !.history_index = i,
                        !.s = IF i = Len(x.entries) THEN x.draft ELSE x.entries[i + 1]])
Up_always_drafts(x) ==
  IF x.history_index = 0 THEN x
  ELSE Recall([x EXCEPT !.draft = x.s], x.history_index - 1)
Up(x) ==
  IF x.history_index = 0 THEN x
  ELSE Recall([x EXCEPT !.draft = IF AtEnd(x) THEN x.s ELSE @], x.history_index - 1)
Down(x) == IF AtEnd(x) THEN x ELSE Recall(x, x.history_index + 1)

Arrow(x, c) == CASE c = "A" -> Up(x) [] c = "B" -> Down(x) [] OTHER -> x

(* The screen follows by what the terminal does with the bytes printed.    *)
Edit(x, line, screen) ==
  [x EXCEPT !.s = line, !.own = IF AtEnd(x) THEN line ELSE @, !.screen = screen]
Rub(row) == IF row \in {<< >>, Garbled} THEN row ELSE Front(row)
Show(row, c) == IF row = Garbled \/ c \in Controls THEN Garbled ELSE Append(row, c)
Backspace(x) == IF x.s = << >> THEN x ELSE Edit(x, Front(x.s), Rub(x.screen))
Insert(x, c) == Edit(x, Append(x.s, c), Show(x.screen, c))

Escape(x, c) == ToState(x, IF c = "[" THEN "ControlSequence" ELSE "Normal")
Normal(x, c) == CASE c = ESC -> ToState(x, "Escape")
                  [] c = DEL -> Backspace(x)
                  [] OTHER -> Insert(x, c)

(* The end of the line: shell() keeps it, runs it and starts the next.     *)
Enter(x) ==
  NewLine(push(x.entries, x.s), Ran(x.ran, x.s), x.s, from_line(x.s))

Byte(x, c) ==
  CASE c = CR -> Enter(x)
    [] c # CR /\ x.input_state = "Escape" -> Escape(x, c)
    [] c # CR /\ x.input_state = "ControlSequence" -> ToState(Arrow(x, c), "Normal")
    [] OTHER -> Normal(x, c)
------------------------------------------------------------------------------
Init == /\ shell = NewLine(<< >>, << >>, << >>, NotFound)
        /\ uart = << >>
        /\ bursts = 0

Panicked == shell.did.command = "panic"

Receive(bytes) ==
  /\ ~ Panicked /\ uart = << >>
  /\ bursts < MAX_BURSTS /\ Len(shell.s) + Len(bytes) <= MAX_LINE
  /\ uart' = bytes
  /\ bursts' = bursts + 1
  /\ UNCHANGED shell

ReadByte ==
  /\ ~ Panicked /\ uart # << >>
  /\ shell' = Byte(shell, Head(uart))
  /\ uart' = Tail(uart)
  /\ UNCHANGED bursts

Next == ReadByte \/ \E bytes \in Bursts : Receive(bytes)

Spec == Init /\ [][Next]_vars
------------------------------------------------------------------------------
(* Enter runs the line that is on the screen: whatever text was typed,     *)
(* rubbed out and recalled, through complete and broken escape sequences.  *)
(* It is a promise about printable bytes: once read_line_and_display has   *)
(* printed a control byte into the row, it holds again from the next       *)
(* prompt or the next entry recalled that has none.                        *)
ScreenShowsLine == shell.screen \in {shell.s, Garbled}

(* Coming back from the history, past any number of entries and edits of   *)
(* them, finds the line as it was typed.                                   *)
TypedLineComesBack == AtEnd(shell) => shell.s = shell.own

(* The history has no blank line and no line twice in a row, and the last  *)
(* line run is its last unless blank.  It holds all the lines run, in      *)
(* their order, up to its capacity, and then the latest of them.           *)
HistoryIsKept ==
  LET hist == shell.entries
      ran == shell.ran
  IN
    /\ Len(hist) = IF Len(ran) < HISTORY_CAPACITY THEN Len(ran) ELSE HISTORY_CAPACITY
    /\ \A i \in DOMAIN hist : hist[i] = ran[(Len(ran) - Len(hist)) + i]
    /\ \A i \in DOMAIN hist : ~ Blank(hist[i]) /\ (i > 1 => hist[i] # hist[i - 1])
    /\ ~ Blank(shell.line) => hist # << >> /\ Last(hist) = shell.line

(* What follows the n-th space of a line.                                  *)
After(line, n) ==
  LET spaces == {i \in DOMAIN line : line[i] = Space}
      at == {i \in spaces : Cardinality({j \in spaces : j <= i}) = n}
  IN  IF at = {} THEN << >> ELSE SubSeq(line, Min(at) + 1, Len(line))

(* Its first part, up to the first space.                                  *)
First(line) ==
  SubSeq(line, 1, Min({i \in DOMAIN line : line[i] = Space} \cup {Len(line) + 1}) - 1)

(* A command gets what was typed.  A path is the second part of the line,  *)
(* with a slash put before it unless it has one, and "." for ls alone; two *)
(* spaces have an empty part between them, which is the path "/".  write   *)
(* stores the line from its second space on, inner spaces included.  No    *)
(* path command with a second part is refused, and the only line that      *)
(* stops the kernel is a lone "write".                                     *)
RunsAsTyped ==
  LET line == trim(shell.line)
      did == shell.did
      more == First(line) # line
      path == IF more THEN First(After(line, 1)) ELSE <<".">>
      WithPath == OnPath \cup {"ls", "write"}
  IN  /\ did.command = "panic" <=> line = <<"write">>
      /\ did.command \notin {"panic", "not found"} => First(line) = <<did.command>>
      /\ more /\ (\E w \in WithPath : First(line) = <<w>>) => did.command \in WithPath
      /\ did.command \in WithPath =>
           did.path \in {path, <<Slash>> \o path} /\ IsPrefix(<<Slash>>, did.path)
             /\ (IsPrefix(<<Slash>>, path) => did.path = path)
      /\ did.command = "write" => did.text = After(line, 2)
      /\ did.command \in DOMAIN Counted =>
           did.text # << >> /\ IsPrefix(did.text, After(line, 1))
==============================================================================
