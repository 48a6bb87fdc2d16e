----------------------------- MODULE ShellProofs -----------------------------
(***************************************************************************)
(* What the shell's line editor and its history keep, for every capacity   *)
(* of the history, every set of words and every input of the UART.         *)
(*                                                                         *)
(* ScreenShowsLine is inductive as it stands: a row that is garbled stays  *)
(* so until a redraw or the next prompt.  TypedLineComesBack is not:       *)
(* away from the end of the history it is the draft that holds the typed   *)
(* line, which EditorInv adds.                                             *)
(***************************************************************************)
EXTENDS Shell, TLAPS

Line == Seq(Keys)

(* The shell's locals and its history.  What a line ran is left open.      *)
EditorType(x) ==
  /\ x = [s |-> x.s, draft |-> x.draft, history_index |-> x.history_index,
          input_state |-> x.input_state, screen |-> x.screen, own |-> x.own,
          entries |-> x.entries, ran |-> x.ran, line |-> x.line, did |-> x.did]
  /\ x.s \in Line /\ x.draft \in Line /\ x.own \in Line
  /\ x.line \in Line
  /\ x.entries \in Seq(Line) /\ x.ran \in Seq(Line)
  /\ x.history_index \in 0 .. Len(x.entries)

(* Where the typed line is kept while entries of the history are shown.    *)
TypedLineIsKept(x) == x.own = IF AtEnd(x) THEN x.s ELSE x.draft

Shown(x) == x.screen \in {x.s, Garbled}

(* The latest of the lines run, as many as there is room for.              *)
Latest(hist, ran) ==
  /\ Len(hist) = IF Len(ran) < HISTORY_CAPACITY THEN Len(ran) ELSE HISTORY_CAPACITY
  /\ \A i \in DOMAIN hist : hist[i] = ran[(Len(ran) - Len(hist)) + i]

HistoryKept(hist, ran, line) ==
  /\ Latest(hist, ran)
  /\ \A i \in DOMAIN hist : ~ Blank(hist[i]) /\ (i > 1 => hist[i] # hist[i - 1])
  /\ ~ Blank(line) => hist # << >> /\ Last(hist) = line

EditorInv(x) ==
  /\ EditorType(x)
  /\ Shown(x)
  /\ TypedLineIsKept(x)
  /\ HistoryKept(x.entries, x.ran, x.line)

ShellInv == EditorInv(shell) /\ uart \in Line
------------------------------------------------------------------------------
(* A new line, after any history that is in order.                         *)
LEMMA NewLineInv ==
  ASSUME NEW hist \in Seq(Line), NEW ran \in Seq(Line), NEW line \in Line, NEW did,
         HistoryKept(hist, ran, line)
  PROVE  EditorInv(NewLine(hist, ran, line, did))
  <1> DEFINE x == NewLine(hist, ran, line, did)
  <1>1. /\ x.s = << >> /\ x.draft = << >> /\ x.screen = << >> /\ x.own = << >>
        /\ x.entries = hist /\ x.ran = ran /\ x.line = line /\ x.did = did
        /\ x.history_index = Len(hist)
    BY DEF NewLine
  <1>2. EditorType(x)
    <2>1. << >> \in Line
      BY DEF Line
    <2>2. Len(hist) \in 0 .. Len(hist)
      OBVIOUS
    <2> QED
      BY <1>1, <2>1, <2>2 DEF EditorType, NewLine
  <1> QED
    BY <1>1, <1>2 DEF EditorInv, TypedLineIsKept, Shown

(* The last line run is the last of the history.                           *)
LEMMA LatestLast ==
  ASSUME NEW hist \in Seq(Line), NEW ran \in Seq(Line), Latest(hist, ran)
  PROVE  (hist # << >> <=> ran # << >>) /\ (hist # << >> => Last(hist) = Last(ran))
  <1>1. HISTORY_CAPACITY \in Nat \ {0}
    BY ShellAssumption
  <1>2. Len(hist) = 0 <=> Len(ran) = 0
    BY <1>1 DEF Latest
  <1>3. ASSUME Len(hist) # 0 PROVE hist[Len(hist)] = ran[Len(ran)]
    <2>1. Len(hist) \in DOMAIN hist /\ (Len(ran) - Len(hist)) + Len(hist) = Len(ran)
      BY <1>3
    <2> QED
      BY <2>1 DEF Latest
  <1> QED
    BY <1>2, <1>3 DEF Last

(* Dropping the oldest line for a new one, or adding it, keeps the latest. *)
LEMMA LatestGrows ==
  ASSUME NEW hist \in Seq(Line), NEW ran \in Seq(Line), NEW line \in Line,
         Latest(hist, ran)
  PROVE  Latest(Append(IF Len(hist) = HISTORY_CAPACITY THEN Tail(hist) ELSE hist, line),
                Append(ran, line))
  <1> DEFINE old == IF Len(hist) = HISTORY_CAPACITY THEN Tail(hist) ELSE hist
             new == Append(old, line)
             more == Append(ran, line)
  <1>1. HISTORY_CAPACITY \in Nat \ {0} /\ Len(hist) \in Nat /\ Len(ran) \in Nat
    BY ShellAssumption
  <1>2. Len(hist) = IF Len(ran) < HISTORY_CAPACITY THEN Len(ran) ELSE HISTORY_CAPACITY
    BY DEF Latest
  <1>3. /\ old \in Seq(Line)
        /\ Len(old) = IF Len(hist) = HISTORY_CAPACITY THEN Len(hist) - 1 ELSE Len(hist)
    BY <1>1
  <1>4. ASSUME NEW i \in 1 .. Len(old) PROVE old[i] = ran[(Len(ran) - Len(old)) + i]
    <2>1. CASE Len(hist) = HISTORY_CAPACITY
      <3>1. i + 1 \in DOMAIN hist /\ old[i] = hist[i + 1]
        BY <1>1, <1>3, <2>1
      <3>2. (Len(ran) - Len(hist)) + (i + 1) = (Len(ran) - Len(old)) + i
        BY <1>1, <1>3, <2>1
      <3> HIDE DEF old
      <3>3. hist[i + 1] = ran[(Len(ran) - Len(hist)) + (i + 1)]
        BY <3>1 DEF Latest
      <3> QED
        BY <3>1, <3>2, <3>3
    <2>2. CASE Len(hist) # HISTORY_CAPACITY
      BY <2>2 DEF Latest
    <2> QED
      BY <2>1, <2>2
  <1> HIDE DEF old
  <1>5. /\ Len(new) = Len(old) + 1 /\ Len(more) = Len(ran) + 1
        /\ DOMAIN new = 1 .. Len(old) + 1
        /\ \A i \in 1 .. Len(old) : new[i] = old[i]
        /\ \A i \in 1 .. Len(ran) : more[i] = ran[i]
        /\ new[Len(old) + 1] = line /\ more[Len(ran) + 1] = line
    BY <1>1, <1>3
  <1> HIDE DEF new, more
  <1>6. Len(old) \in Nat /\ Len(old) <= Len(ran)
    BY <1>1, <1>2, <1>3
  <1>7. Len(new) = IF Len(more) < HISTORY_CAPACITY THEN Len(more) ELSE HISTORY_CAPACITY
    BY <1>1, <1>2, <1>3, <1>5
  <1>8. ASSUME NEW i \in 1 .. Len(old) + 1
        PROVE  new[i] = more[(Len(more) - Len(new)) + i]
    <2>1. Len(more) - Len(new) = Len(ran) - Len(old)
      BY <1>1, <1>5, <1>6
    <2>2. CASE i = Len(old) + 1
      <3>1. (Len(ran) - Len(old)) + i = Len(ran) + 1
        BY <1>1, <1>6, <2>2
      <3> QED
        BY <1>5, <2>1, <2>2, <3>1
    <2>3. CASE i # Len(old) + 1
      <3>1. i \in 1 .. Len(old) /\ (Len(ran) - Len(old)) + i \in 1 .. Len(ran)
        BY <1>1, <1>6, <2>3
      <3> QED
        BY <1>4, <1>5, <2>1, <3>1
    <2> QED
      BY <2>2, <2>3
  <1>9. Latest(new, more)
    BY <1>5, <1>7, <1>8 DEF Latest
  <1> QED
    BY <1>9 DEF new, more, old

(* CommandHistory::push keeps the history in order.                        *)
LEMMA PushKeeps ==
  ASSUME NEW hist \in Seq(Line), NEW ran \in Seq(Line), NEW last \in Line,
         NEW line \in Line, HistoryKept(hist, ran, last)
  PROVE  /\ push(hist, line) \in Seq(Line) /\ Ran(ran, line) \in Seq(Line)
         /\ HistoryKept(push(hist, line), Ran(ran, line), line)
  <1>0. (hist # << >> <=> ran # << >>) /\ (hist # << >> => Last(hist) = Last(ran))
    BY LatestLast DEF HistoryKept
  <1>1. CASE Blank(line) \/ (hist # << >> /\ Last(hist) = line)
    <2>1. push(hist, line) = hist /\ Ran(ran, line) = ran
      BY <1>0, <1>1 DEF push, Ran
    <2> QED
      BY <1>1, <2>1 DEF HistoryKept
  <1>2. CASE ~ (Blank(line) \/ (hist # << >> /\ Last(hist) = line))
    <2> DEFINE old == IF Len(hist) = HISTORY_CAPACITY THEN Tail(hist) ELSE hist
    <2>1. push(hist, line) = Append(old, line)
      BY <1>2 DEF push
    <2>2. HISTORY_CAPACITY \in Nat \ {0}
      BY ShellAssumption
    <2>3. /\ old \in Seq(Line) /\ Len(old) < HISTORY_CAPACITY
          /\ \A i \in 1 .. Len(old) : ~ Blank(old[i]) /\ (i > 1 => old[i] # old[i - 1])
      <3>1. CASE Len(hist) = HISTORY_CAPACITY
        <4>1. /\ Tail(hist) \in Seq(Line) /\ Len(Tail(hist)) = Len(hist) - 1
              /\ \A i \in 1 .. Len(hist) - 1 : Tail(hist)[i] = hist[i + 1]
          BY <3>1, <2>2
        <4>2. \A i \in 1 .. Len(hist) - 1 :
                ~ Blank(hist[i + 1]) /\ hist[i + 1] # hist[i]
          <5> SUFFICES ASSUME NEW i \in 1 .. Len(hist) - 1
                       PROVE  ~ Blank(hist[i + 1]) /\ hist[i + 1] # hist[i]
            OBVIOUS
          <5>1. i + 1 \in DOMAIN hist /\ i + 1 > 1 /\ (i + 1) - 1 = i
            OBVIOUS
          <5> QED
            BY <5>1 DEF HistoryKept
        <4> HIDE DEF old
        <4>3. old = Tail(hist)
          BY <3>1 DEF old
        <4>4. \A i \in 1 .. Len(old) :
                ~ Blank(old[i]) /\ (i > 1 => old[i] # old[i - 1])
          <5> SUFFICES ASSUME NEW i \in 1 .. Len(hist) - 1
                       PROVE  ~ Blank(old[i]) /\ (i > 1 => old[i] # old[i - 1])
            BY <4>1, <4>3
          <5>1. ~ Blank(old[i])
            BY <4>1, <4>2, <4>3
          <5>2. ASSUME i > 1 PROVE old[i] # old[i - 1]
            <6>1. i - 1 \in 1 .. Len(hist) - 1 /\ (i - 1) + 1 = i
              BY <5>2
            <6> QED
              BY <6>1, <4>1, <4>2, <4>3
          <5> QED
            BY <5>1, <5>2
        <4>5. old \in Seq(Line)
          BY <4>1, <4>3
        <4>6. Len(old) < HISTORY_CAPACITY
          <5>1. Len(old) = Len(hist) - 1
            BY <4>1, <4>3
          <5> QED
            BY <5>1, <3>1, <2>2
        <4> QED
          BY <4>4, <4>5, <4>6
      <3>2. CASE Len(hist) # HISTORY_CAPACITY
        BY <3>2, <2>2 DEF HistoryKept, Latest
      <3> QED
        BY <3>1, <3>2
    <2>4. Len(old) > 0 => old[Len(old)] = Last(hist) /\ hist # << >>
      <3>1. CASE Len(hist) = HISTORY_CAPACITY
        BY <3>1, <2>2 DEF Last
      <3>2. CASE Len(hist) # HISTORY_CAPACITY
        BY <3>2 DEF Last
      <3> QED
        BY <3>1, <3>2
    <2> HIDE DEF old
    <2> DEFINE new == Append(old, line)
    <2>5. /\ new \in Seq(Line) /\ Len(new) = Len(old) + 1 /\ new[Len(old) + 1] = line
          /\ \A i \in 1 .. Len(old) : new[i] = old[i]
      BY <2>3
    <2>6. \A i \in 1 .. Len(new) : ~ Blank(new[i]) /\ (i > 1 => new[i] # new[i - 1])
      <3> SUFFICES ASSUME NEW i \in 1 .. Len(new)
                   PROVE  ~ Blank(new[i]) /\ (i > 1 => new[i] # new[i - 1])
        OBVIOUS
      <3>1. CASE i <= Len(old)
        BY <3>1, <2>3, <2>5
      <3>2. CASE i = Len(old) + 1
        BY <3>2, <1>2, <2>3, <2>4, <2>5
      <3> QED
        BY <3>1, <3>2, <2>3, <2>5
    <2>7. new # << >> /\ Last(new) = line
      BY <2>3, <2>5 DEF Last
    <2>8. Ran(ran, line) = Append(ran, line) /\ Append(ran, line) \in Seq(Line)
      BY <1>0, <1>2 DEF Ran
    <2>9. Latest(new, Append(ran, line))
      <3>1. Latest(hist, ran)
        BY DEF HistoryKept
      <3> QED
        BY <3>1, LatestGrows DEF old
    <2>10. HistoryKept(new, Append(ran, line), line)
      <3> HIDE DEF new
      <3> QED
        BY <2>5, <2>6, <2>7, <2>9 DEF HistoryKept
    <2> QED
      BY <2>1, <2>5, <2>8, <2>10
  <1> QED
    BY <1>1, <1>2

(* The end of a line.                                                      *)
LEMMA EnterKeeps ==
  ASSUME NEW x, EditorInv(x)
  PROVE  EditorInv(Enter(x))
  <1>1. /\ x.s \in Line /\ x.entries \in Seq(Line) /\ x.line \in Line
        /\ x.ran \in Seq(Line) /\ HistoryKept(x.entries, x.ran, x.line)
    BY DEF EditorInv, EditorType
  <1>2. /\ push(x.entries, x.s) \in Seq(Line) /\ Ran(x.ran, x.s) \in Seq(Line)
        /\ HistoryKept(push(x.entries, x.s), Ran(x.ran, x.s), x.s)
    BY <1>1, PushKeeps
  <1> QED
    BY <1>1, <1>2, NewLineInv DEF Enter
------------------------------------------------------------------------------
(* A change of one of the locals leaves the others as they are.            *)
LEMMA ToStateKeeps ==
  ASSUME NEW x, NEW state, EditorInv(x)
  PROVE  EditorInv(ToState(x, state))
  <1> DEFINE y == ToState(x, state)
  <1>1. y = [s |-> x.s, draft |-> x.draft, history_index |-> x.history_index,
             input_state |-> state, screen |-> x.screen, own |-> x.own,
             entries |-> x.entries, ran |-> x.ran, line |-> x.line, did |-> x.did]
    BY DEF ToState, EditorInv, EditorType
  <1> HIDE DEF y
  <1>2. /\ y.s = x.s /\ y.draft = x.draft /\ y.history_index = x.history_index
        /\ y.input_state = state /\ y.screen = x.screen /\ y.own = x.own
        /\ y.entries = x.entries /\ y.ran = x.ran /\ y.line = x.line /\ y.did = x.did
    BY <1>1
  <1>3. EditorType(y)
    BY <1>1, <1>2 DEF EditorType, EditorInv
  <1>4. Shown(y) /\ TypedLineIsKept(y) /\ HistoryKept(y.entries, y.ran, y.line)
    BY <1>2 DEF EditorInv, TypedLineIsKept, AtEnd, Shown
  <1>5. EditorInv(y)
    BY <1>3, <1>4 DEF EditorInv
  <1> QED
    BY <1>5 DEF y

(* A key that changes the line, by the same change of line and screen.     *)
LEMMA EditKeeps ==
  ASSUME NEW x, NEW line \in Line, NEW row \in {line, Garbled}, EditorInv(x)
  PROVE  EditorInv(Edit(x, line, row))
  <1> DEFINE y == Edit(x, line, row)
             own == IF AtEnd(x) THEN line ELSE x.own
  <1>1. y = [s |-> line, draft |-> x.draft, history_index |-> x.history_index,
             input_state |-> x.input_state, screen |-> row, own |-> own,
             entries |-> x.entries, ran |-> x.ran, line |-> x.line, did |-> x.did]
    <2>1. y = [x EXCEPT !.s = line, !.own = own, !.screen = row]
      BY DEF Edit
    <2>2. x = [s |-> x.s, draft |-> x.draft, history_index |-> x.history_index,
             input_state |-> x.input_state, screen |-> x.screen, own |-> x.own,
             entries |-> x.entries, ran |-> x.ran, line |-> x.line, did |-> x.did]
      BY DEF EditorInv, EditorType
    <2> HIDE DEF y, own
    <2> QED
      BY <2>1, <2>2
  <1>2. own \in Line /\ (AtEnd(x) => own = line) /\ (~ AtEnd(x) => own = x.own)
    BY DEF EditorInv, EditorType
  <1> HIDE DEF y, own
  <1>3. /\ y.s = line /\ y.draft = x.draft /\ y.history_index = x.history_index
        /\ y.input_state = x.input_state /\ y.screen = row /\ y.own = own
        /\ y.entries = x.entries /\ y.ran = x.ran /\ y.line = x.line /\ y.did = x.did
    BY <1>1
  <1>4. EditorType(y)
    BY <1>1, <1>2, <1>3 DEF EditorType, EditorInv
  <1>5. Shown(y) /\ TypedLineIsKept(y) /\ HistoryKept(y.entries, y.ran, y.line)
    BY <1>2, <1>3 DEF EditorInv, TypedLineIsKept, AtEnd, Shown
  <1>6. EditorInv(y)
    BY <1>4, <1>5 DEF EditorInv
  <1> QED
    BY <1>6 DEF y

(* The locals with another position in the history, and its line.          *)
LEMMA MoveFields ==
  ASSUME NEW x, EditorType(x), NEW i, NEW line
  PROVE  [x EXCEPT !.history_index = i, !.s = line] =
           [s |-> line, draft |-> x.draft, history_index |-> i,
            input_state |-> x.input_state, screen |-> x.screen, own |-> x.own,
            entries |-> x.entries, ran |-> x.ran, line |-> x.line, did |-> x.did]
  <1> DEFINE y == [x EXCEPT !.history_index = i]
  <1>1. y = [s |-> x.s, draft |-> x.draft, history_index |-> i,
             input_state |-> x.input_state, screen |-> x.screen, own |-> x.own,
             entries |-> x.entries, ran |-> x.ran, line |-> x.line, did |-> x.did]
    BY DEF EditorType
  <1>2. [x EXCEPT !.history_index = i, !.s = line] = [y EXCEPT !.s = line]
    OBVIOUS
  <1> HIDE DEF y
  <1> QED
    BY <1>1, <1>2

(* The entry or the draft that comes into view.                            *)
LEMMA RecallKeeps ==
  ASSUME NEW x, EditorType(x), HistoryKept(x.entries, x.ran, x.line), x.draft = x.own,
         NEW i \in 0 .. Len(x.entries)
  PROVE  EditorInv(Recall(x, i))
  <1> DEFINE y == Recall(x, i)
             s == IF i = Len(x.entries) THEN x.draft ELSE x.entries[i + 1]
  <1>1. s \in Line
    BY DEF EditorType
  <1>2. (i = Len(x.entries)) => s = x.draft
    OBVIOUS
  <1>3. y = [s |-> s, draft |-> x.draft, history_index |-> i,
             input_state |-> x.input_state, screen |-> Row(s), own |-> x.own,
             entries |-> x.entries, ran |-> x.ran, line |-> x.line, did |-> x.did]
    <2>1. y = redraw_line([x EXCEPT !.history_index = i, !.s = s])
      BY DEF Recall
    <2> HIDE DEF y, s
    <2>3. [x EXCEPT !.history_index = i, !.s = s] =
            [s |-> s, draft |-> x.draft, history_index |-> i,
             input_state |-> x.input_state, screen |-> x.screen, own |-> x.own,
             entries |-> x.entries, ran |-> x.ran, line |-> x.line, did |-> x.did]
      BY MoveFields
    <2> DEFINE z == [x EXCEPT !.history_index = i, !.s = s]
    <2>4. z = [s |-> s, draft |-> x.draft, history_index |-> i,
               input_state |-> x.input_state, screen |-> x.screen, own |-> x.own,
               entries |-> x.entries, ran |-> x.ran, line |-> x.line, did |-> x.did]
      BY <2>3
    <2>5. y = [z EXCEPT !.screen = Row(z.s)]
      BY <2>1 DEF redraw_line
    <2> HIDE DEF z
    <2>6. z.s = s
      BY <2>4
    <2>7. y = [z EXCEPT !.screen = Row(s)]
      BY <2>5, <2>6
    <2> QED
      BY <2>4, <2>7
  <1> HIDE DEF y, s
  <1>4. /\ y.s = s /\ y.draft = x.draft /\ y.history_index = i
        /\ y.input_state = x.input_state /\ y.screen = Row(s) /\ y.own = x.own
        /\ y.entries = x.entries /\ y.ran = x.ran /\ y.line = x.line /\ y.did = x.did
    BY <1>3
  <1>5. EditorType(y)
    BY <1>1, <1>3, <1>4 DEF EditorType
  <1>6. Shown(y) /\ TypedLineIsKept(y) /\ HistoryKept(y.entries, y.ran, y.line)
    BY <1>2, <1>4 DEF TypedLineIsKept, AtEnd, Shown, Row
  <1>7. EditorInv(y)
    BY <1>5, <1>6 DEF EditorInv
  <1> QED
    BY <1>7 DEF y

(* The up arrow: the draft takes the typed line when it leaves the end.    *)
LEMMA UpKeeps ==
  ASSUME NEW x, EditorInv(x)
  PROVE  EditorInv(Up(x))
  <1>1. CASE x.history_index = 0
    BY <1>1 DEF Up
  <1>2. CASE x.history_index # 0
    <2> DEFINE draft == IF AtEnd(x) THEN x.s ELSE x.draft
               y == [x EXCEPT !.draft = IF AtEnd(x) THEN x.s ELSE @]
    <2>1. draft \in Line /\ draft = x.own
      BY DEF EditorInv, EditorType, TypedLineIsKept
    <2>2. y = [s |-> x.s, draft |-> draft, history_index |-> x.history_index,
               input_state |-> x.input_state, screen |-> x.screen, own |-> x.own,
               entries |-> x.entries, ran |-> x.ran, line |-> x.line, did |-> x.did]
      BY DEF EditorInv, EditorType
    <2>3. Up(x) = Recall(y, x.history_index - 1)
      BY <1>2 DEF Up
    <2> HIDE DEF draft, y
    <2>4. /\ y.s = x.s /\ y.draft = draft /\ y.history_index = x.history_index
          /\ y.input_state = x.input_state /\ y.screen = x.screen /\ y.own = x.own
          /\ y.entries = x.entries /\ y.ran = x.ran /\ y.line = x.line /\ y.did = x.did
      BY <2>2
    <2>5. EditorType(y)
      BY <2>1, <2>2, <2>4 DEF EditorType, EditorInv
    <2>6. x.history_index - 1 \in 0 .. Len(y.entries)
      BY <1>2, <2>4 DEF EditorInv, EditorType
    <2>7. HistoryKept(y.entries, y.ran, y.line) /\ y.draft = y.own
      BY <2>1, <2>4 DEF EditorInv
    <2> QED
      BY <2>3, <2>5, <2>6, <2>7, RecallKeeps
  <1> QED
    BY <1>1, <1>2

LEMMA DownKeeps ==
  ASSUME NEW x, EditorInv(x)
  PROVE  EditorInv(Down(x))
  <1>1. CASE AtEnd(x)
    BY <1>1 DEF Down
  <1>2. CASE ~ AtEnd(x)
    <2>1. x.history_index + 1 \in 0 .. Len(x.entries)
      BY <1>2 DEF EditorInv, EditorType, AtEnd
    <2>2. x.draft = x.own /\ EditorType(x) /\ HistoryKept(x.entries, x.ran, x.line)
      BY <1>2 DEF EditorInv, TypedLineIsKept
    <2> QED
      BY <1>2, <2>1, <2>2, RecallKeeps DEF Down
  <1> QED
    BY <1>1, <1>2
------------------------------------------------------------------------------
(* Whatever byte comes, in whatever state of an escape sequence.           *)
LEMMA ByteKeeps ==
  ASSUME NEW x, NEW c \in Keys, EditorInv(x)
  PROVE  EditorInv(Byte(x, c))
  <1>1. EditorInv(Escape(x, c))
    BY ToStateKeeps DEF Escape
  <1>2. EditorInv(ToState(Arrow(x, c), "Normal"))
    <2>1. EditorInv(Arrow(x, c))
      BY UpKeeps, DownKeeps DEF Arrow
    <2> QED
      BY <2>1, ToStateKeeps
  <1>3. EditorInv(Backspace(x))
    <2>1. CASE x.s = << >>
      BY <2>1 DEF Backspace
    <2>2. CASE x.s # << >>
      <3>1. x.s \in Line /\ x.screen \in {x.s, Garbled}
        BY DEF EditorInv, EditorType, Shown
      <3>2. Front(x.s) \in Line
        BY <3>1, <2>2 DEF Front, Line
      <3>3. Rub(x.screen) \in {Front(x.s), Garbled}
        BY <3>1, <2>2 DEF Rub
      <3>4. Backspace(x) = Edit(x, Front(x.s), Rub(x.screen))
        BY <2>2 DEF Backspace
      <3> QED
        BY <3>2, <3>3, <3>4, EditKeeps
    <2> QED
      BY <2>1, <2>2
  <1>4. EditorInv(Insert(x, c))
    <2>1. x.s \in Line /\ x.screen \in {x.s, Garbled}
      BY DEF EditorInv, EditorType, Shown
    <2>2. Append(x.s, c) \in Line
      BY <2>1 DEF Line
    <2>3. Show(x.screen, c) \in {Append(x.s, c), Garbled}
      BY <2>1 DEF Show
    <2> QED
      BY <2>2, <2>3, EditKeeps DEF Insert
  <1>5. EditorInv(Normal(x, c))
    BY <1>3, <1>4, ToStateKeeps DEF Normal
  <1>6. EditorInv(Enter(x))
    BY EnterKeeps
  <1> QED
    BY <1>1, <1>2, <1>5, <1>6 DEF Byte

LEMMA InitShellInv == Init => ShellInv
  <1> SUFFICES ASSUME Init PROVE ShellInv
    OBVIOUS
  <1>1. << >> \in Seq(Line) /\ << >> \in Line
    BY DEF Line
  <1>2. HistoryKept(<< >>, << >>, << >>)
    BY ShellAssumption DEF HistoryKept, Latest, Blank
  <1> QED
    BY <1>1, <1>2, NewLineInv DEF Init, ShellInv

LEMMA NextShellInv == ShellInv /\ [Next]_vars => ShellInv'
  <1> SUFFICES ASSUME ShellInv, [Next]_vars PROVE ShellInv'
    OBVIOUS
  <1>1. CASE ReadByte
    <2>1. uart \in Line /\ uart # << >>
      BY <1>1 DEF ReadByte, ShellInv
    <2>2. Head(uart) \in Keys /\ Tail(uart) \in Line
      BY <2>1 DEF Line
    <2>3. EditorInv(Byte(shell, Head(uart)))
      BY <2>2, ByteKeeps DEF ShellInv
    <2>4. EditorInv(shell')
      BY <1>1, <2>3 DEF ReadByte
    <2>5. EditorInv(shell)'
      BY <2>4 DEF EditorInv, EditorType, TypedLineIsKept, HistoryKept, Latest, AtEnd, Blank, Shown
    <2> QED
      BY <1>1, <2>2, <2>5 DEF ReadByte, ShellInv
  <1>2. ASSUME NEW bytes \in Bursts, Receive(bytes)
        PROVE  ShellInv'
    <2>1. bytes \in Line
      BY ShellAssumption DEF Line
    <2> QED
      BY <1>2, <2>1 DEF Receive, ShellInv, EditorInv, EditorType, TypedLineIsKept,
                        HistoryKept, Latest, AtEnd, Shown
  <1>3. CASE UNCHANGED vars
    BY <1>3 DEF vars, ShellInv, EditorInv, EditorType, TypedLineIsKept, HistoryKept, Latest,
                AtEnd, Shown
  <1> QED
    BY <1>1, <1>2, <1>3 DEF Next

(* The inductive invariant of the line editor, for every byte in every     *)
(* state of the escape parser.                                             *)
THEOREM AlwaysShellInv == Spec => []ShellInv
  BY InitShellInv, NextShellInv, PTL DEF Spec

(* The line that Enter will run is the one on the screen, after every      *)
(* printable byte, complete or broken escape sequence and recalled entry:  *)
(* it only may not be once a control byte has been printed into the row,   *)
(* until the next prompt or the next entry recalled that has none.         *)
THEOREM ScreenAlwaysShowsLine == Spec => []ScreenShowsLine
  <1>1. ShellInv => ScreenShowsLine
    BY DEF ShellInv, EditorInv, ScreenShowsLine, Shown
  <1> QED
    BY <1>1, AlwaysShellInv, PTL

(* Whoever comes back from the history finds the line as it was typed.     *)
THEOREM TypedLineAlwaysComesBack == Spec => []TypedLineComesBack
  <1>1. ShellInv => TypedLineComesBack
    BY DEF ShellInv, EditorInv, TypedLineIsKept, TypedLineComesBack
  <1> QED
    BY <1>1, AlwaysShellInv, PTL

(* The history is the latest of the lines run, as many as it has room for, *)
(* without blank lines and repeats, and ends with the last line run.       *)
THEOREM HistoryAlwaysKept == Spec => []HistoryIsKept
  <1>1. ShellInv => HistoryIsKept
    BY DEF ShellInv, EditorInv, HistoryKept, Latest, HistoryIsKept
  <1> QED
    BY <1>1, AlwaysShellInv, PTL
=============================================================================
