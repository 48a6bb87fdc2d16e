------------------------------ MODULE MkfsProofs ------------------------------
(***************************************************************************)
(* How mkfs treats the files around its output, for any number of builds   *)
(* at once, any process ids, command lines and source trees, and whatever  *)
(* the filesystem's calls answer.                                          *)
(*                                                                         *)
(* Neither property is inductive.  Owned is: it adds that builds that run  *)
(* have different process ids, so that no two have the same temporary      *)
(* name, that the temporary image of a running build is its own, and that  *)
(* only a rename, after which nothing fails, gives a build the output.     *)
(***************************************************************************)
EXTENDS Mkfs, TLAPS

Process(b) == b = [pc |-> b.pc, config |-> b.config, pid |-> b.pid, attempt |-> b.attempt,
                   memory |-> b.memory, todo |-> b.todo, ended |-> b.ended]
File(x) == x = [by |-> x.by, dev |-> x.dev]

TempOf(b) == Temporary(b.config, b.pid, b.attempt)
Holding(b) == b.pc \in {"format", "mount", "import", "read", "rename"}
Running(b) == b.pc \notin {"idle", "end"}

(* What the owner of a temporary image, or of the output, is doing or how  *)
(* it ended.                                                               *)
MayLeaveTemp(b) == Holding(b) \/ (b.pc = "end" /\ b.ended \in Aborted \cup {"Killed"})
HasRenamed(b) == b.pc = "keep" \/ (b.pc = "end" /\ b.ended \in {"Ok", "Killed"})

Owned(F, B) ==
  /\ B = [r \in Builds |-> B[r]]
  /\ F = [f \in DOMAIN F |-> F[f]]
  /\ \A r \in Builds : Process(B[r]) /\ (B[r].pc # "end" => B[r].ended = "no")
  /\ \A f \in DOMAIN F : File(F[f]) /\ F[f].by \in Builds \cup {User, Unremoved}
  /\ \A r, q \in Builds : r # q /\ Running(B[r]) /\ Running(B[q]) => B[r].pid # B[q].pid
  /\ \A r \in Builds : Holding(B[r]) => TempOf(B[r]) \in DOMAIN F /\ F[TempOf(B[r])].by = r
  /\ \A r \in Builds : \A f \in DOMAIN F :
       F[f].by = r => IF IsTemp(f) THEN f = TempOf(B[r]) /\ MayLeaveTemp(B[r])
                                   ELSE HasRenamed(B[r])

MkfsInv == Owned(files, build)
------------------------------------------------------------------------------
(* Temporary names of different processes differ, and from the output.     *)
LEMMA TempNames ==
  /\ \A b, c : b.pid # c.pid => TempOf(b) # TempOf(c)
  /\ \A b : IsTemp(TempOf(b))
  /\ \A c : ~ IsTemp(Output(c))
  <1>1. ASSUME NEW b, NEW c, b.pid # c.pid
        PROVE  TempOf(b) # TempOf(c)
    <2>1. TempOf(b).tmp = << b.pid, b.attempt >> /\ TempOf(c).tmp = << c.pid, c.attempt >>
      BY DEF TempOf, Temporary
    <2>2. << b.pid, b.attempt >>[1] # << c.pid, c.attempt >>[1]
      BY <1>1
    <2> QED
      BY <2>1, <2>2
  <1>2. ASSUME NEW b PROVE IsTemp(TempOf(b))
    <2>1. TempOf(b).tmp = << b.pid, b.attempt >>
      BY DEF TempOf, Temporary
    <2>2. << b.pid, b.attempt >> # << >>
      OBVIOUS
    <2> QED
      BY <2>1, <2>2 DEF IsTemp
  <1>3. ASSUME NEW c PROVE ~ IsTemp(Output(c))
    BY DEF IsTemp, Output
  <1> QED
    BY <1>1, <1>2, <1>3

(* The processes after a step of one of them.                              *)
LEMMA OneProcess ==
  ASSUME NEW B, B = [q \in Builds |-> B[q]], NEW r \in Builds, NEW b
  PROVE  LET C == [B EXCEPT ![r] = b]
         IN  /\ C = [q \in Builds |-> C[q]]
             /\ C[r] = b /\ \A q \in Builds : q # r => C[q] = B[q]
  OBVIOUS

(* A step that keeps the process's name for its temporary image, whether   *)
(* it has one, and the owner of every file.                                *)
LEMMA MoveKeeps ==
  ASSUME NEW F, NEW B, Owned(F, B), NEW r \in Builds, NEW b, Process(b),
         b.config = B[r].config, b.pid = B[r].pid, b.attempt = B[r].attempt,
         b.ended = "no", Running(B[r]), Running(b), Holding(b) <=> Holding(B[r]),
         B[r].pc # "keep",
         NEW G, G = [f \in DOMAIN G |-> G[f]], DOMAIN G = DOMAIN F,
         \A f \in DOMAIN F : File(G[f]) /\ G[f].by = F[f].by
  PROVE  Owned(G, [B EXCEPT ![r] = b])
  <1> DEFINE C == [B EXCEPT ![r] = b]
  <1>1. /\ C = [q \in Builds |-> C[q]]
        /\ C[r] = b /\ \A q \in Builds : q # r => C[q] = B[q]
    BY OneProcess DEF Owned
  <1> HIDE DEF C
  <1>2. TempOf(b) = TempOf(B[r])
    BY DEF TempOf
  <1>3. B[r].pc # "end"
    BY DEF Running
  <1>4. \A q \in Builds : Process(C[q]) /\ (C[q].pc # "end" => C[q].ended = "no")
    BY <1>1 DEF Owned
  <1>5. \A q, p \in Builds : q # p /\ Running(C[q]) /\ Running(C[p]) => C[q].pid # C[p].pid
    BY <1>1 DEF Owned
  <1>6. \A q \in Builds : Holding(C[q]) => TempOf(C[q]) \in DOMAIN G /\ G[TempOf(C[q])].by = q
    BY <1>1, <1>2 DEF Owned
  <1>7. ASSUME NEW q \in Builds, NEW f \in DOMAIN G, G[f].by = q
        PROVE  IF IsTemp(f) THEN f = TempOf(C[q]) /\ MayLeaveTemp(C[q]) ELSE HasRenamed(C[q])
    <2>1. IF IsTemp(f) THEN f = TempOf(B[q]) /\ MayLeaveTemp(B[q]) ELSE HasRenamed(B[q])
      BY <1>7 DEF Owned
    <2>2. CASE q = r
      <3>1. ~ HasRenamed(B[r]) /\ (MayLeaveTemp(B[r]) => MayLeaveTemp(b))
        BY <1>3 DEF MayLeaveTemp, HasRenamed, Holding
      <3> QED
        BY <1>1, <1>2, <2>1, <2>2, <3>1
    <2>3. CASE q # r
      BY <1>1, <2>1, <2>3
    <2> QED
      BY <2>2, <2>3
  <1>8. \A f \in DOMAIN G : File(G[f]) /\ G[f].by \in Builds \cup {User, Unremoved}
    BY DEF Owned
  <1>9. Owned(G, C)
    BY <1>1, <1>4, <1>5, <1>6, <1>7, <1>8 DEF Owned
  <1> QED
    BY <1>9 DEF C

(* A process that ends and touches no file.                                *)
LEMMA LeaveKeeps ==
  ASSUME NEW F, NEW B, Owned(F, B), NEW r \in Builds, NEW b, Process(b),
         b.config = B[r].config, b.pid = B[r].pid, b.attempt = B[r].attempt,
         b.pc = "end", B[r].pc # "end",
         Holding(B[r]) => b.ended \in Aborted \cup {"Killed"},
         B[r].pc = "keep" => b.ended \in {"Ok", "Killed"}
  PROVE  Owned(F, [B EXCEPT ![r] = b])
  <1> DEFINE C == [B EXCEPT ![r] = b]
  <1>1. /\ C = [q \in Builds |-> C[q]]
        /\ C[r] = b /\ \A q \in Builds : q # r => C[q] = B[q]
    BY OneProcess DEF Owned
  <1> HIDE DEF C
  <1>2. TempOf(b) = TempOf(B[r]) /\ ~ Running(b) /\ ~ Holding(b)
    BY DEF TempOf, Running, Holding
  <1>3. \A q \in Builds : Process(C[q]) /\ (C[q].pc # "end" => C[q].ended = "no")
    BY <1>1 DEF Owned
  <1>4. \A q, p \in Builds : q # p /\ Running(C[q]) /\ Running(C[p]) => C[q].pid # C[p].pid
    BY <1>1, <1>2 DEF Owned
  <1>5. \A q \in Builds : Holding(C[q]) => TempOf(C[q]) \in DOMAIN F /\ F[TempOf(C[q])].by = q
    BY <1>1, <1>2 DEF Owned
  <1>6. ASSUME NEW q \in Builds, NEW f \in DOMAIN F, F[f].by = q
        PROVE  IF IsTemp(f) THEN f = TempOf(C[q]) /\ MayLeaveTemp(C[q]) ELSE HasRenamed(C[q])
    <2>1. IF IsTemp(f) THEN f = TempOf(B[q]) /\ MayLeaveTemp(B[q]) ELSE HasRenamed(B[q])
      BY <1>6 DEF Owned
    <2>2. CASE q = r
      BY <1>1, <1>2, <2>1, <2>2 DEF MayLeaveTemp, HasRenamed
    <2>3. CASE q # r
      BY <1>1, <2>1, <2>3
    <2> QED
      BY <2>2, <2>3
  <1>7. Owned(F, C)
    BY <1>1, <1>3, <1>4, <1>5, <1>6 DEF Owned
  <1> QED
    BY <1>7 DEF C

(* A process that owns no file may be renamed, started or ended.           *)
LEMMA FreshKeeps ==
  ASSUME NEW F, NEW B, Owned(F, B), NEW r \in Builds, NEW b, Process(b),
         b.pc # "end" => b.ended = "no",
         ~ Holding(B[r]), B[r].pc \notin {"end", "keep"}, ~ Holding(b),
         \A q \in Builds : q # r /\ Running(B[q]) => b.pid # B[q].pid
  PROVE  Owned(F, [B EXCEPT ![r] = b])
  <1> DEFINE C == [B EXCEPT ![r] = b]
  <1>1. /\ C = [q \in Builds |-> C[q]]
        /\ C[r] = b /\ \A q \in Builds : q # r => C[q] = B[q]
    BY OneProcess DEF Owned
  <1> HIDE DEF C
  <1>2. \A q \in Builds : Process(C[q]) /\ (C[q].pc # "end" => C[q].ended = "no")
    BY <1>1 DEF Owned
  <1>3. \A q, p \in Builds : q # p /\ Running(C[q]) /\ Running(C[p]) => C[q].pid # C[p].pid
    BY <1>1 DEF Owned
  <1>4. \A q \in Builds : Holding(C[q]) => TempOf(C[q]) \in DOMAIN F /\ F[TempOf(C[q])].by = q
    BY <1>1 DEF Owned
  <1>5. \A f \in DOMAIN F : F[f].by # r
    BY DEF Owned, MayLeaveTemp, HasRenamed
  <1>6. ASSUME NEW q \in Builds, NEW f \in DOMAIN F, F[f].by = q
        PROVE  IF IsTemp(f) THEN f = TempOf(C[q]) /\ MayLeaveTemp(C[q]) ELSE HasRenamed(C[q])
    <2>1. IF IsTemp(f) THEN f = TempOf(B[q]) /\ MayLeaveTemp(B[q]) ELSE HasRenamed(B[q])
      BY <1>6 DEF Owned
    <2>2. C[q] = B[q]
      BY <1>1, <1>5, <1>6
    <2> QED
      BY <2>1, <2>2
  <1>7. Owned(F, C)
    BY <1>1, <1>2, <1>3, <1>4, <1>6 DEF Owned
  <1> QED
    BY <1>7 DEF C

(* What the host would not remove belongs to no build.                     *)
LEMMA LeftIs == File(Left) /\ Left.by = Unremoved /\ Unremoved \notin Builds
  BY MkfsAssumption DEF Left, File

LEMMA LeftKeeps ==
  ASSUME NEW F, NEW B, Owned(F, B), NEW t, t \notin DOMAIN F, NEW G, G = With(F, t, Left)
  PROVE  Owned(G, B)
  <1>1. /\ G = [f \in DOMAIN G |-> G[f]] /\ DOMAIN G = DOMAIN F \cup {t}
        /\ G[t] = Left /\ \A f \in DOMAIN F : G[f] = F[f]
    BY DEF With
  <1>2. \A f \in DOMAIN G : File(G[f]) /\ G[f].by \in Builds \cup {User, Unremoved}
    BY <1>1, LeftIs DEF Owned
  <1>3. \A q \in Builds : Holding(B[q]) => TempOf(B[q]) \in DOMAIN G /\ G[TempOf(B[q])].by = q
    BY <1>1 DEF Owned
  <1>4. ASSUME NEW q \in Builds, NEW f \in DOMAIN G, G[f].by = q
        PROVE  IF IsTemp(f) THEN f = TempOf(B[q]) /\ MayLeaveTemp(B[q]) ELSE HasRenamed(B[q])
    <2>1. f \in DOMAIN F /\ F[f].by = q
      BY <1>1, <1>4, LeftIs
    <2> QED
      BY <2>1 DEF Owned
  <1> QED
    BY <1>1, <1>2, <1>3, <1>4 DEF Owned

(* An error: the temporary image goes, whoever else has one, or is left.   *)
LEMMA FailKeeps ==
  ASSUME NEW F, NEW B, Owned(F, B), NEW r \in Builds, NEW b, Process(b),
         b.config = B[r].config, b.pid = B[r].pid, b.attempt = B[r].attempt,
         b.pc = "end", B[r].pc \notin {"idle", "end", "keep"},
         NEW G, ~ Holding(B[r]) => G = F,
         Holding(B[r]) => G = Without(F, TempOf(B[r])) \/ G = [F EXCEPT ![TempOf(B[r])] = Left]
  PROVE  Owned(G, [B EXCEPT ![r] = b])
  <1>1. CASE ~ Holding(B[r])
    BY <1>1, LeaveKeeps
  <1>2. CASE Holding(B[r])
    <2> DEFINE C == [B EXCEPT ![r] = b]
               t == TempOf(B[r])
    <2>1. /\ C = [q \in Builds |-> C[q]]
          /\ C[r] = b /\ \A q \in Builds : q # r => C[q] = B[q]
      BY OneProcess DEF Owned
    <2> HIDE DEF C
    <2>a. F = [f \in DOMAIN F |-> F[f]] /\ t \in DOMAIN F
      BY <1>2 DEF Owned
    <2>2. /\ G = [f \in DOMAIN G |-> G[f]]
          /\ \A f : f # t => (f \in DOMAIN G <=> f \in DOMAIN F)
          /\ \A f \in DOMAIN G : f # t => G[f] = F[f]
          /\ t \in DOMAIN G => G[t] = Left
      <3> HIDE DEF t
      <3>1. CASE G = Without(F, t)
        BY <3>1 DEF Without
      <3>2. CASE G = [F EXCEPT ![t] = Left]
        BY <2>a, <3>2
      <3> QED
        BY <1>2, <3>1, <3>2 DEF t
    <2>3. ~ Running(b) /\ ~ Holding(b) /\ Running(B[r])
      BY DEF Running, Holding
    <2>4. \A q \in Builds : q # r /\ Running(B[q]) => TempOf(B[q]) # t
      BY <2>3, TempNames DEF Owned
    <2>5. \A q \in Builds : Process(C[q]) /\ (C[q].pc # "end" => C[q].ended = "no")
      BY <2>1 DEF Owned
    <2>6. \A q, p \in Builds : q # p /\ Running(C[q]) /\ Running(C[p]) => C[q].pid # C[p].pid
      BY <2>1, <2>3 DEF Owned
    <2>7. ASSUME NEW q \in Builds, Holding(C[q])
          PROVE  TempOf(C[q]) \in DOMAIN G /\ G[TempOf(C[q])].by = q
      <3>1. q # r /\ C[q] = B[q] /\ Running(B[q])
        BY <2>1, <2>3, <2>7 DEF Running, Holding
      <3>2. TempOf(B[q]) \in DOMAIN F /\ F[TempOf(B[q])].by = q /\ TempOf(B[q]) # t
        BY <2>4, <2>7, <3>1 DEF Owned
      <3> QED
        BY <2>2, <3>1, <3>2
    <2>8. ASSUME NEW q \in Builds, NEW f \in DOMAIN G, G[f].by = q
          PROVE  IF IsTemp(f) THEN f = TempOf(C[q]) /\ MayLeaveTemp(C[q]) ELSE HasRenamed(C[q])
      <3>1. f \in DOMAIN F /\ F[f].by = q /\ f # t
        BY <2>2, <2>8, LeftIs
      <3>2. IF IsTemp(f) THEN f = TempOf(B[q]) /\ MayLeaveTemp(B[q]) ELSE HasRenamed(B[q])
        BY <3>1 DEF Owned
      <3>3. ~ HasRenamed(B[r])
        BY DEF HasRenamed
      <3>4. q # r
        BY <3>1, <3>2, <3>3
      <3> QED
        BY <2>1, <3>2, <3>4
    <2>9. \A f \in DOMAIN G : File(G[f]) /\ G[f].by \in Builds \cup {User, Unremoved}
      BY <2>2, LeftIs DEF Owned
    <2>10. Owned(G, C)
      BY <2>1, <2>2, <2>5, <2>6, <2>7, <2>8, <2>9 DEF Owned
    <2> QED
      BY <2>10 DEF C
  <1> QED
    BY <1>1, <1>2

(* create_new makes a file under a name that nobody has.                   *)
LEMMA CreateKeeps ==
  ASSUME NEW F, NEW B, Owned(F, B), NEW r \in Builds, NEW b, Process(b),
         b.config = B[r].config, b.pid = B[r].pid, b.attempt = B[r].attempt,
         b.ended = "no", B[r].pc = "create", b.pc = "format",
         TempOf(B[r]) \notin DOMAIN F,
         NEW dev, NEW G, G = With(F, TempOf(B[r]), [by |-> r, dev |-> dev])
  PROVE  Owned(G, [B EXCEPT ![r] = b])
  <1> DEFINE C == [B EXCEPT ![r] = b]
             t == TempOf(B[r])
             x == [by |-> r, dev |-> dev]
  <1>1. /\ C = [q \in Builds |-> C[q]]
        /\ C[r] = b /\ \A q \in Builds : q # r => C[q] = B[q]
    BY OneProcess DEF Owned
  <1> HIDE DEF C
  <1>2. /\ G = [f \in DOMAIN G |-> G[f]] /\ DOMAIN G = DOMAIN F \cup {t}
        /\ G[t] = x /\ \A f \in DOMAIN F : G[f] = F[f]
    BY DEF With
  <1>3. TempOf(b) = t /\ IsTemp(t) /\ Holding(b) /\ Running(b) /\ Running(B[r])
    BY TempNames DEF TempOf, Holding, Running
  <1>4. x.by = r /\ File(x)
    BY DEF File
  <1> HIDE DEF t, x
  <1>5. \A q \in Builds : Process(C[q]) /\ (C[q].pc # "end" => C[q].ended = "no")
    BY <1>1 DEF Owned
  <1>6. \A q, p \in Builds : q # p /\ Running(C[q]) /\ Running(C[p]) => C[q].pid # C[p].pid
    BY <1>1, <1>3 DEF Owned
  <1>7. \A q \in Builds : Holding(C[q]) => TempOf(C[q]) \in DOMAIN G /\ G[TempOf(C[q])].by = q
    BY <1>1, <1>2, <1>3, <1>4 DEF Owned
  <1>8. ASSUME NEW q \in Builds, NEW f \in DOMAIN G, G[f].by = q
        PROVE  IF IsTemp(f) THEN f = TempOf(C[q]) /\ MayLeaveTemp(C[q]) ELSE HasRenamed(C[q])
    <2>1. CASE f = t
      <3>1. q = r
        BY <1>2, <1>4, <1>8, <2>1
      <3>2. MayLeaveTemp(b)
        BY <1>3 DEF MayLeaveTemp
      <3>3. C[q] = b /\ f = TempOf(b) /\ IsTemp(f)
        BY <1>1, <1>3, <2>1, <3>1
      <3> QED
        BY <3>2, <3>3
    <2>2. CASE f # t
      <3>1. f \in DOMAIN F /\ F[f].by = q
        BY <1>2, <1>8, <2>2
      <3>2. IF IsTemp(f) THEN f = TempOf(B[q]) /\ MayLeaveTemp(B[q]) ELSE HasRenamed(B[q])
        BY <3>1 DEF Owned
      <3>3. ~ HasRenamed(B[r]) /\ ~ MayLeaveTemp(B[r])
        BY DEF HasRenamed, MayLeaveTemp, Holding
      <3>4. q # r
        BY <3>2, <3>3
      <3> QED
        BY <1>1, <3>2, <3>4
    <2> QED
      BY <2>1, <2>2
  <1>9. \A f \in DOMAIN G : File(G[f]) /\ G[f].by \in Builds \cup {User, Unremoved}
    BY <1>2, <1>4 DEF Owned
  <1>10. Owned(G, C)
    BY <1>1, <1>2, <1>5, <1>6, <1>7, <1>8, <1>9 DEF Owned
  <1> QED
    BY <1>10 DEF C

(* The rename: the image is the output now, whoever's it was before.       *)
LEMMA RenameKeeps ==
  ASSUME NEW F, NEW B, Owned(F, B), NEW r \in Builds, NEW b, Process(b),
         b.config = B[r].config, b.pid = B[r].pid, b.attempt = B[r].attempt,
         b.ended = "no", B[r].pc = "rename", b.pc = "keep", NEW c,
         NEW G, G = With(Without(F, TempOf(B[r])), Output(c), F[TempOf(B[r])])
  PROVE  Owned(G, [B EXCEPT ![r] = b])
  <1> DEFINE C == [B EXCEPT ![r] = b]
             t == TempOf(B[r])
             o == Output(c)
  <1>1. /\ C = [q \in Builds |-> C[q]]
        /\ C[r] = b /\ \A q \in Builds : q # r => C[q] = B[q]
    BY OneProcess DEF Owned
  <1> HIDE DEF C
  <1>2. /\ G = [f \in DOMAIN G |-> G[f]] /\ DOMAIN G = (DOMAIN F \ {t}) \cup {o}
        /\ G[o] = F[t] /\ \A f \in DOMAIN G : f # o => f # t /\ f \in DOMAIN F /\ G[f] = F[f]
    BY DEF With, Without
  <1>3. IsTemp(t) /\ ~ IsTemp(o) /\ Running(B[r]) /\ Holding(B[r]) /\ ~ Holding(b)
    BY TempNames DEF Holding, Running
  <1>4. t \in DOMAIN F /\ F[t].by = r
    BY <1>3 DEF Owned
  <1>5. \A q \in Builds : q # r /\ Running(B[q]) => TempOf(B[q]) # t
    BY <1>3, TempNames DEF Owned
  <1>6. \A q \in Builds : IsTemp(TempOf(B[q]))
    BY TempNames
  <1> HIDE DEF t, o
  <1>7. \A q \in Builds : Process(C[q]) /\ (C[q].pc # "end" => C[q].ended = "no")
    BY <1>1 DEF Owned
  <1>8. \A q, p \in Builds : q # p /\ Running(C[q]) /\ Running(C[p]) => C[q].pid # C[p].pid
    BY <1>1, <1>3 DEF Owned
  <1>9. ASSUME NEW q \in Builds, Holding(C[q])
        PROVE  TempOf(C[q]) \in DOMAIN G /\ G[TempOf(C[q])].by = q
    <2>1. q # r /\ C[q] = B[q] /\ Running(B[q])
      BY <1>1, <1>3, <1>9 DEF Running, Holding
    <2>2. TempOf(B[q]) \in DOMAIN F /\ F[TempOf(B[q])].by = q
      BY <1>9, <2>1 DEF Owned
    <2>3. TempOf(B[q]) # t /\ TempOf(B[q]) # o
      BY <1>3, <1>5, <1>6, <2>1
    <2>4. TempOf(B[q]) \in DOMAIN G
      BY <1>2, <2>2, <2>3
    <2> QED
      BY <1>2, <2>1, <2>2, <2>3, <2>4
  <1>10. ASSUME NEW q \in Builds, NEW f \in DOMAIN G, G[f].by = q
         PROVE  IF IsTemp(f) THEN f = TempOf(C[q]) /\ MayLeaveTemp(C[q]) ELSE HasRenamed(C[q])
    <2>1. CASE f = o
      <3>1. q = r
        BY <1>2, <1>4, <1>10, <2>1
      <3>2. HasRenamed(b)
        BY DEF HasRenamed
      <3>3. C[q] = b /\ ~ IsTemp(f)
        BY <1>1, <1>3, <2>1, <3>1
      <3> QED
        BY <3>2, <3>3
    <2>2. CASE f # o
      <3>1. f \in DOMAIN F /\ F[f].by = q /\ f # t
        BY <1>2, <1>10, <2>2
      <3>2. IF IsTemp(f) THEN f = TempOf(B[q]) /\ MayLeaveTemp(B[q]) ELSE HasRenamed(B[q])
        BY <3>1 DEF Owned
      <3>3. ~ HasRenamed(B[r])
        BY DEF HasRenamed
      <3>4. q # r
        BY <3>1, <3>2, <3>3 DEF t
      <3> QED
        BY <1>1, <3>2, <3>4
    <2> QED
      BY <2>1, <2>2
  <1>11. \A f \in DOMAIN G : File(G[f]) /\ G[f].by \in Builds \cup {User, Unremoved}
    BY <1>2, <1>4 DEF Owned
  <1>12. Owned(G, C)
    BY <1>1, <1>2, <1>7, <1>8, <1>9, <1>10, <1>11 DEF Owned
  <1> QED
    BY <1>12 DEF C
-------------------------------------------------------------------------------
(* The steps of mkfs in these terms.                                       *)
LEMMA EndForm ==
  ASSUME MkfsInv, NEW r \in Builds, NEW how, End(r, how)
  PROVE  \E b : /\ Process(b) /\ build' = [build EXCEPT ![r] = b]
                /\ b.config = build[r].config /\ b.pid = build[r].pid
                /\ b.attempt = build[r].attempt /\ b.pc = "end" /\ b.ended = how
  <1> DEFINE m == Mounted(BlankDevice)
             b == [pc |-> "end", config |-> build[r].config, pid |-> build[r].pid,
                   attempt |-> build[r].attempt, memory |-> m, todo |-> << >>, ended |-> how]
  <1>1. build = [q \in Builds |-> build[q]] /\ Process(build[r])
    BY DEF MkfsInv, Owned
  <1>2. build' = [build EXCEPT ![r].pc = "end", ![r].ended = how, ![r].memory = m,
                               ![r].todo = << >>]
    BY DEF End
  <1> HIDE DEF m
  <1>3. [build[r] EXCEPT !.pc = "end", !.ended = how, !.memory = m, !.todo = << >>] = b
    <2> DEFINE p == build[r]
               x == [p EXCEPT !.pc = "end"]
               y == [x EXCEPT !.ended = how]
               z == [y EXCEPT !.memory = m]
    <2>1. Process(p)
      BY <1>1
    <2> HIDE DEF p
    <2>2. [p EXCEPT !.pc = "end", !.ended = how, !.memory = m, !.todo = << >>] =
            [z EXCEPT !.todo = << >>]
      OBVIOUS
    <2>3. x = [pc |-> "end", config |-> p.config, pid |-> p.pid, attempt |-> p.attempt,
               memory |-> p.memory, todo |-> p.todo, ended |-> p.ended]
      BY <2>1 DEF Process
    <2> HIDE DEF x
    <2>4. y = [pc |-> "end", config |-> p.config, pid |-> p.pid, attempt |-> p.attempt,
               memory |-> p.memory, todo |-> p.todo, ended |-> how]
      BY <2>3
    <2> HIDE DEF y
    <2>5. z = [pc |-> "end", config |-> p.config, pid |-> p.pid, attempt |-> p.attempt,
               memory |-> m, todo |-> p.todo, ended |-> how]
      BY <2>4
    <2> HIDE DEF z
    <2>6. [z EXCEPT !.todo = << >>] =
            [pc |-> "end", config |-> p.config, pid |-> p.pid, attempt |-> p.attempt,
             memory |-> m, todo |-> << >>, ended |-> how]
      BY <2>5
    <2> QED
      BY <2>2, <2>6 DEF p
  <1>4. build' = [build EXCEPT ![r] = b]
    BY <1>1, <1>2, <1>3
  <1>5. /\ Process(b) /\ b.config = build[r].config /\ b.pid = build[r].pid
        /\ b.attempt = build[r].attempt /\ b.pc = "end" /\ b.ended = how
    BY DEF Process
  <1> HIDE DEF b
  <1> QED
    BY <1>4, <1>5

LEMMA GotoForm ==
  ASSUME MkfsInv, NEW r \in Builds, NEW pc, Goto(r, pc)
  PROVE  \E b : /\ Process(b) /\ build' = [build EXCEPT ![r] = b]
                /\ b.config = build[r].config /\ b.pid = build[r].pid
                /\ b.attempt = build[r].attempt /\ b.pc = pc /\ b.ended = build[r].ended
  <1> DEFINE b == [pc |-> pc, config |-> build[r].config, pid |-> build[r].pid,
                   attempt |-> build[r].attempt, memory |-> build[r].memory,
                   todo |-> build[r].todo, ended |-> build[r].ended]
  <1>1. build = [q \in Builds |-> build[q]] /\ Process(build[r])
    BY DEF MkfsInv, Owned
  <1>2. [build[r] EXCEPT !.pc = pc] = b
    BY <1>1 DEF Process
  <1>3. build' = [build EXCEPT ![r] = b]
    BY <1>1, <1>2 DEF Goto
  <1>4. /\ Process(b) /\ b.config = build[r].config /\ b.pid = build[r].pid
        /\ b.attempt = build[r].attempt /\ b.pc = pc /\ b.ended = build[r].ended
    BY DEF Process
  <1> HIDE DEF b
  <1> QED
    BY <1>3, <1>4

(* The device of an image changes, not its owner.                          *)
LEMMA SameOwners ==
  ASSUME MkfsInv, NEW t \in DOMAIN files, NEW dev,
         files' = [files EXCEPT ![t].dev = dev]
  PROVE  /\ files' = [f \in DOMAIN files' |-> files'[f]] /\ DOMAIN files' = DOMAIN files
         /\ \A f \in DOMAIN files : File(files'[f]) /\ files'[f].by = files[f].by
  <1>1. files = [f \in DOMAIN files |-> files[f]] /\ \A f \in DOMAIN files : File(files[f])
    BY DEF MkfsInv, Owned
  <1> DEFINE x == [files[t] EXCEPT !.dev = dev]
  <1>2. x = [by |-> files[t].by, dev |-> dev]
    BY <1>1 DEF File
  <1>3. files' = [files EXCEPT ![t] = x]
    BY <1>1
  <1>4. File(x) /\ x.by = files[t].by
    BY <1>2 DEF File
  <1> HIDE DEF x
  <1> QED
    BY <1>1, <1>3, <1>4

LEMMA NoOwnerChanges ==
  ASSUME MkfsInv, UNCHANGED files
  PROVE  /\ files' = [f \in DOMAIN files' |-> files'[f]] /\ DOMAIN files' = DOMAIN files
         /\ \A f \in DOMAIN files : File(files'[f]) /\ files'[f].by = files[f].by
  BY DEF MkfsInv, Owned, File

LEMMA FailsKeeps ==
  ASSUME MkfsInv, NEW r \in Builds, NEW how, FailsWith(r, how),
         build[r].pc \notin {"idle", "end", "keep"}
  PROVE  MkfsInv'
  <1>1. PICK b : /\ Process(b) /\ build' = [build EXCEPT ![r] = b]
                 /\ b.config = build[r].config /\ b.pid = build[r].pid
                 /\ b.attempt = build[r].attempt /\ b.pc = "end" /\ b.ended = how
    BY EndForm DEF FailsWith
  <1>2. /\ ~ Holding(build[r]) => files' = files
        /\ Holding(build[r]) => \/ files' = Without(files, TempOf(build[r]))
                                \/ files' = [files EXCEPT ![TempOf(build[r])] = Left]
    BY DEF FailsWith, DropTemp, HasTemp, Holding, Temp, TempOf
  <1>3. Owned(files, build)
    BY DEF MkfsInv
  <1>4. Owned(files', build')
    BY <1>1, <1>2, <1>3, FailKeeps
  <1> QED
    BY <1>4 DEF MkfsInv, Owned, Process, File

(* A process that goes on, with the image it has or still without.         *)
LEMMA GoesOn ==
  ASSUME MkfsInv, NEW r \in Builds, Running(build[r]), build[r].pc # "keep",
         NEW b, Process(b), build' = [build EXCEPT ![r] = b],
         b.config = build[r].config, b.pid = build[r].pid, b.attempt = build[r].attempt,
         b.ended = build[r].ended, Running(b), Holding(b) <=> Holding(build[r]),
         \/ UNCHANGED files
         \/ \E dev : files' = [files EXCEPT ![TempOf(build[r])].dev = dev] /\ Holding(build[r])
  PROVE  MkfsInv'
  <1>1. Owned(files, build)
    BY DEF MkfsInv
  <1>2. /\ files' = [f \in DOMAIN files' |-> files'[f]] /\ DOMAIN files' = DOMAIN files
        /\ \A f \in DOMAIN files : File(files'[f]) /\ files'[f].by = files[f].by
    <2>1. CASE UNCHANGED files
      BY <2>1, NoOwnerChanges
    <2>2. ASSUME NEW dev, files' = [files EXCEPT ![TempOf(build[r])].dev = dev],
                 Holding(build[r])
          PROVE  /\ files' = [f \in DOMAIN files' |-> files'[f]] /\ DOMAIN files' = DOMAIN files
                 /\ \A f \in DOMAIN files : File(files'[f]) /\ files'[f].by = files[f].by
      <3>1. TempOf(build[r]) \in DOMAIN files
        BY <1>1, <2>2 DEF Owned
      <3> QED
        BY <2>2, <3>1, SameOwners
    <2> QED
      BY <2>1, <2>2
  <1>3. b.ended = "no"
    BY <1>1 DEF Owned, Running
  <1> DEFINE G == files'
             C == build'
  <1>4. /\ G = [f \in DOMAIN G |-> G[f]] /\ DOMAIN G = DOMAIN files
        /\ \A f \in DOMAIN files : File(G[f]) /\ G[f].by = files[f].by
    BY <1>2
  <1>5. C = [build EXCEPT ![r] = b]
    OBVIOUS
  <1> HIDE DEF G, C
  <1>6. Owned(G, C)
    BY <1>1, <1>3, <1>4, <1>5, MoveKeeps
  <1>7. Owned(files', build')
    BY <1>6 DEF G, C
  <1> QED
    BY <1>7 DEF MkfsInv, Owned, Process, File

LEMMA GotoKeeps ==
  ASSUME MkfsInv, NEW r \in Builds, NEW pc, Goto(r, pc), Running(build[r]),
         build[r].pc # "keep", pc \notin {"idle", "end"},
         pc \in {"format", "mount", "import", "read", "rename"} <=> Holding(build[r]),
         \/ UNCHANGED files
         \/ \E dev : files' = [files EXCEPT ![Temp(r)].dev = dev] /\ Holding(build[r])
  PROVE  MkfsInv'
  <1>1. PICK b : /\ Process(b) /\ build' = [build EXCEPT ![r] = b]
                 /\ b.config = build[r].config /\ b.pid = build[r].pid
                 /\ b.attempt = build[r].attempt /\ b.pc = pc /\ b.ended = build[r].ended
    BY GotoForm
  <1>2. Running(b) /\ (Holding(b) <=> Holding(build[r]))
    BY <1>1 DEF Running, Holding
  <1>3. Temp(r) = TempOf(build[r])
    BY DEF Temp, TempOf
  <1> QED
    BY <1>1, <1>2, <1>3, GoesOn

LEMMA LeavesKeeps ==
  ASSUME MkfsInv, NEW r \in Builds, NEW how, End(r, how), UNCHANGED files,
         build[r].pc # "end",
         Holding(build[r]) => how \in Aborted \cup {"Killed"},
         build[r].pc = "keep" => how \in {"Ok", "Killed"}
  PROVE  MkfsInv'
  <1>1. PICK b : /\ Process(b) /\ build' = [build EXCEPT ![r] = b]
                 /\ b.config = build[r].config /\ b.pid = build[r].pid
                 /\ b.attempt = build[r].attempt /\ b.pc = "end" /\ b.ended = how
    BY EndForm
  <1>2. Owned(files, build)
    BY DEF MkfsInv
  <1>3. Owned(files, build')
    BY <1>1, <1>2, LeaveKeeps
  <1>4. Owned(files', build')
    BY <1>3
  <1> QED
    BY <1>4 DEF MkfsInv, Owned, Process, File
-------------------------------------------------------------------------------
LEMMA StartKeeps ==
  ASSUME MkfsInv, NEW r \in Builds, Start(r)
  PROVE  MkfsInv'
  <1>1. PICK args \in CommandLines,
             pid \in Pids \ {build[q].pid : q \in {q \in Builds : Alive(q)}} :
          LET c == parse(args) IN
          /\ At(r, "idle")
          /\ build' = [build EXCEPT ![r].config = c, ![r].pid = pid,
                                    ![r].pc = IF c.is = "Build" THEN "check" ELSE "end",
                                    ![r].ended = IF c.is = "Build" THEN "no" ELSE c.is]
          /\ UNCHANGED <<host, versions, files>>
    BY DEF Start
  <1> DEFINE c == parse(args)
             pc == IF c.is = "Build" THEN "check" ELSE "end"
             ended == IF c.is = "Build" THEN "no" ELSE c.is
             p == build[r]
             b == [pc |-> pc, config |-> c, pid |-> pid, attempt |-> p.attempt,
                   memory |-> p.memory, todo |-> p.todo, ended |-> ended]
  <1>2. build = [q \in Builds |-> build[q]] /\ Process(p) /\ Owned(files, build)
    BY DEF MkfsInv, Owned
  <1>3. pc \in {"check", "end"} /\ (pc # "end" => ended = "no")
    OBVIOUS
  <1>4. build' = [build EXCEPT ![r].config = c, ![r].pid = pid, ![r].pc = pc, ![r].ended = ended]
    BY <1>1
  <1> HIDE DEF c, pc, ended
  <1>5. [p EXCEPT !.config = c, !.pid = pid, !.pc = pc, !.ended = ended] = b
    <2> DEFINE x == [p EXCEPT !.config = c]
               y == [x EXCEPT !.pid = pid]
               z == [y EXCEPT !.pc = pc]
    <2> HIDE DEF p
    <2>1. [p EXCEPT !.config = c, !.pid = pid, !.pc = pc, !.ended = ended] =
            [z EXCEPT !.ended = ended]
      OBVIOUS
    <2>2. x = [pc |-> p.pc, config |-> c, pid |-> p.pid, attempt |-> p.attempt,
               memory |-> p.memory, todo |-> p.todo, ended |-> p.ended]
      BY <1>2 DEF Process
    <2> HIDE DEF x
    <2>3. y = [pc |-> p.pc, config |-> c, pid |-> pid, attempt |-> p.attempt,
               memory |-> p.memory, todo |-> p.todo, ended |-> p.ended]
      BY <2>2
    <2> HIDE DEF y
    <2>4. z = [pc |-> pc, config |-> c, pid |-> pid, attempt |-> p.attempt,
               memory |-> p.memory, todo |-> p.todo, ended |-> p.ended]
      BY <2>3
    <2> HIDE DEF z
    <2>5. [z EXCEPT !.ended = ended] =
            [pc |-> pc, config |-> c, pid |-> pid, attempt |-> p.attempt,
             memory |-> p.memory, todo |-> p.todo, ended |-> ended]
      BY <2>4
    <2> QED
      BY <2>1, <2>5
  <1>6. build' = [build EXCEPT ![r] = b]
    BY <1>2, <1>4, <1>5
  <1>7. /\ Process(b) /\ (b.pc # "end" => b.ended = "no") /\ ~ Holding(b) /\ b.pid = pid
        /\ ~ Holding(build[r]) /\ build[r].pc \notin {"end", "keep"}
    BY <1>1, <1>3 DEF Process, Holding, At
  <1>8. \A q \in Builds : q # r /\ Running(build[q]) => pid # build[q].pid
    BY <1>1 DEF Running, Alive
  <1> HIDE DEF b
  <1>9. Owned(files, build')
    BY <1>2, <1>6, <1>7, <1>8, FreshKeeps
  <1>10. files' = files
    BY <1>1
  <1>11. Owned(files', build')
    BY <1>9, <1>10
  <1> QED
    BY <1>11 DEF MkfsInv, Owned, Process, File

LEMMA CreateTemporaryKeeps ==
  ASSUME MkfsInv, NEW r \in Builds, CreateTemporary(r)
  PROVE  MkfsInv'
  <1>1. /\ build[r].pc = "create" /\ Temp(r) = TempOf(build[r]) /\ Owned(files, build)
        /\ build[r].ended = "no" /\ Process(build[r])
        /\ build = [q \in Builds |-> build[q]]
    BY DEF CreateTemporary, At, Temp, TempOf, MkfsInv, Owned
  <1>2. CASE /\ Temp(r) \notin DOMAIN files
             /\ files' = With(files, Temp(r), [by |-> r, dev |-> BlankDevice])
             /\ Goto(r, "format")
    <2>1. PICK b : /\ Process(b) /\ build' = [build EXCEPT ![r] = b]
                   /\ b.config = build[r].config /\ b.pid = build[r].pid
                   /\ b.attempt = build[r].attempt /\ b.pc = "format"
                   /\ b.ended = build[r].ended
      BY <1>2, GotoForm
    <2>2. Owned(files', build')
      BY <1>1, <1>2, <2>1, CreateKeeps
    <2> QED
      BY <2>2 DEF MkfsInv, Owned, Process, File
  <1>3. CASE /\ NextAttempt(r)
             /\ \/ UNCHANGED files
                \/ Temp(r) \notin DOMAIN files /\ files' = With(files, Temp(r), Left)
    <2>1. Owned(files', build)
      BY <1>1, <1>3, LeftKeeps
    <2>2. PICK b : /\ Process(b) /\ build' = [build EXCEPT ![r] = b]
                   /\ (b.pc # "end" => b.ended = "no") /\ ~ Holding(b)
                   /\ b.pid = build[r].pid
      <3>1. CASE build' = [build EXCEPT ![r].attempt = @ + 1]
        <4> DEFINE p == build[r]
                   n == p.attempt + 1
                   b == [pc |-> "create", config |-> p.config, pid |-> p.pid, attempt |-> n,
                         memory |-> p.memory, todo |-> p.todo, ended |-> p.ended]
        <4>1. build' = [build EXCEPT ![r] = [p EXCEPT !.attempt = n]]
          BY <1>1, <3>1
        <4> HIDE DEF n
        <4>2. [p EXCEPT !.attempt = n] = b
          BY <1>1 DEF Process
        <4>3. Process(b) /\ b.ended = "no" /\ ~ Holding(b) /\ b.pid = build[r].pid
          BY <1>1 DEF Process, Holding
        <4>4. build' = [build EXCEPT ![r] = b]
          BY <4>1, <4>2
        <4> HIDE DEF b
        <4> QED
          BY <4>3, <4>4
      <3>2. CASE End(r, "NoTemporary")
        <4>1. PICK b : /\ Process(b) /\ build' = [build EXCEPT ![r] = b]
                       /\ b.pid = build[r].pid /\ b.pc = "end"
          BY <3>2, EndForm
        <4>2. ~ Holding(b)
          BY <4>1 DEF Holding
        <4> QED
          BY <4>1, <4>2
      <3> QED
        BY <1>3, <3>1, <3>2 DEF NextAttempt
    <2>3. ~ Holding(build[r]) /\ build[r].pc \notin {"end", "keep"} /\ Running(build[r])
      BY <1>1 DEF Holding, Running
    <2>4. \A q \in Builds : q # r /\ Running(build[q]) => b.pid # build[q].pid
      BY <1>1, <2>2, <2>3 DEF Owned
    <2>5. Owned(files', build')
      BY <2>1, <2>2, <2>3, <2>4, FreshKeeps
    <2> QED
      BY <2>5 DEF MkfsInv, Owned, Process, File
  <1> QED
    BY <1>2, <1>3 DEF CreateTemporary

LEMMA RenameStepKeeps ==
  ASSUME MkfsInv, NEW r \in Builds, Rename(r)
  PROVE  MkfsInv'
  <1>1. /\ build[r].pc = "rename" /\ Temp(r) = TempOf(build[r]) /\ Owned(files, build)
        /\ build[r].ended = "no"
    BY DEF Rename, At, Temp, TempOf, MkfsInv, Owned
  <1>2. PICK b : /\ Process(b) /\ build' = [build EXCEPT ![r] = b]
                 /\ b.config = build[r].config /\ b.pid = build[r].pid
                 /\ b.attempt = build[r].attempt /\ b.pc = "keep"
                 /\ b.ended = build[r].ended
    BY GotoForm DEF Rename
  <1>3. Owned(files', build')
    BY <1>1, <1>2, RenameKeeps DEF Rename
  <1> QED
    BY <1>3 DEF MkfsInv, Owned, Process, File

LEMMA AfterCallKeeps ==
  ASSUME MkfsInv, NEW r \in Builds, NEW s, NEW then, AfterCall(r, s, then),
         build[r].pc \in {"import", "read"}
  PROVE  MkfsInv'
  <1>1. Holding(build[r]) /\ Running(build[r]) /\ Temp(r) = TempOf(build[r])
    BY DEF Holding, Running, Temp, TempOf
  <1>2. CASE /\ files' = [files EXCEPT ![Temp(r)].dev = s.dev]
             /\ build' = [build EXCEPT ![r].memory = s.mem, ![r].pc = "import", ![r].todo = then]
    <2> DEFINE p == build[r]
               b == [pc |-> "import", config |-> p.config, pid |-> p.pid, attempt |-> p.attempt,
                     memory |-> s.mem, todo |-> then, ended |-> p.ended]
    <2>1. build = [q \in Builds |-> build[q]] /\ Process(p)
      BY DEF MkfsInv, Owned
    <2>2. [p EXCEPT !.memory = s.mem, !.pc = "import", !.todo = then] = b
      <3> DEFINE m == s.mem
                 x == [p EXCEPT !.memory = m]
                 y == [x EXCEPT !.pc = "import"]
      <3> HIDE DEF p, m
      <3>1. [p EXCEPT !.memory = m, !.pc = "import", !.todo = then] = [y EXCEPT !.todo = then]
        OBVIOUS
      <3>2. x = [pc |-> p.pc, config |-> p.config, pid |-> p.pid, attempt |-> p.attempt,
                 memory |-> m, todo |-> p.todo, ended |-> p.ended]
        BY <2>1 DEF Process
      <3> HIDE DEF x
      <3>3. y = [pc |-> "import", config |-> p.config, pid |-> p.pid, attempt |-> p.attempt,
                 memory |-> m, todo |-> p.todo, ended |-> p.ended]
        BY <3>2
      <3> HIDE DEF y
      <3>4. [y EXCEPT !.todo = then] =
              [pc |-> "import", config |-> p.config, pid |-> p.pid, attempt |-> p.attempt,
               memory |-> m, todo |-> then, ended |-> p.ended]
        BY <3>3
      <3> QED
        BY <3>1, <3>4 DEF m
    <2>3. build' = [build EXCEPT ![r] = b]
      BY <1>2, <2>1, <2>2
    <2>4. /\ Process(b) /\ b.config = build[r].config /\ b.pid = build[r].pid
          /\ b.attempt = build[r].attempt /\ b.ended = build[r].ended
          /\ Running(b) /\ Holding(b)
      BY DEF Process, Running, Holding
    <2> HIDE DEF b
    <2>5. \E dev : files' = [files EXCEPT ![TempOf(build[r])].dev = dev]
      BY <1>1, <1>2
    <2> QED
      BY <1>1, <2>3, <2>4, <2>5, GoesOn
  <1>3. CASE End(r, "Panic") /\ UNCHANGED files
    BY <1>3, LeavesKeeps DEF Aborted
  <1>4. CASE Fails(r)
    BY <1>4, FailsKeeps DEF Fails
  <1> QED
    BY <1>2, <1>3, <1>4 DEF AfterCall

(* The todo list of import_directory is nobody else's business.            *)
LEMMA TodoKeeps ==
  ASSUME MkfsInv, NEW r \in Builds, build[r].pc = "import", NEW todo,
         build' = [build EXCEPT ![r].todo = todo], UNCHANGED files
  PROVE  MkfsInv'
  <1> DEFINE p == build[r]
             b == [pc |-> p.pc, config |-> p.config, pid |-> p.pid, attempt |-> p.attempt,
                   memory |-> p.memory, todo |-> todo, ended |-> p.ended]
  <1>1. build = [q \in Builds |-> build[q]] /\ Process(p)
    BY DEF MkfsInv, Owned
  <1>2. [p EXCEPT !.todo = todo] = b
    BY <1>1 DEF Process
  <1>3. build' = [build EXCEPT ![r] = b]
    BY <1>1, <1>2
  <1>4. /\ Process(b) /\ b.config = build[r].config /\ b.pid = build[r].pid
        /\ b.attempt = build[r].attempt /\ b.ended = build[r].ended
        /\ Running(b) /\ Holding(b) /\ Running(build[r]) /\ Holding(build[r])
    BY DEF Process, Running, Holding
  <1> HIDE DEF b
  <1> QED
    BY <1>3, <1>4, GoesOn

LEMMA StepKeeps ==
  ASSUME MkfsInv, NEW r \in Builds, Step(r)
  PROVE  MkfsInv'
  <1>1. CASE Start(r)
    BY <1>1, StartKeeps
  <1>2. CASE Check(r)
    <2>1. build[r].pc = "check"
      BY <1>2 DEF Check, At
    <2>2. CASE Goto(r, "create") /\ UNCHANGED files
      BY <2>1, <2>2, GotoKeeps DEF Running, Holding
    <2>3. CASE Fails(r)
      BY <2>1, <2>3, FailsKeeps DEF Fails
    <2> QED
      BY <1>2, <2>2, <2>3 DEF Check
  <1>3. CASE CreateTemporary(r)
    BY <1>3, CreateTemporaryKeeps
  <1>4. CASE Format(r)
    <2>1. build[r].pc = "format"
      BY <1>4 DEF Format, At
    <2>2. CASE files' = [files EXCEPT ![Temp(r)].dev = format] /\ Goto(r, "mount")
      <3>1. \E dev : files' = [files EXCEPT ![Temp(r)].dev = dev]
        BY <2>2
      <3> QED
        BY <2>1, <2>2, <3>1, GotoKeeps DEF Running, Holding
    <2>3. CASE Fails(r)
      BY <2>1, <2>3, FailsKeeps DEF Fails
    <2> QED
      BY <1>4, <2>2, <2>3 DEF Format
  <1>5. CASE Mount(r)
    <2> DEFINE p == build[r]
               m == Mounted(Image(r))
               then == << [kind |-> "list", path |-> << >>] >>
               b == [pc |-> "import", config |-> p.config, pid |-> p.pid,
                     attempt |-> p.attempt, memory |-> m, todo |-> then, ended |-> p.ended]
    <2>1. /\ build = [q \in Builds |-> build[q]] /\ Process(p) /\ p.pc = "mount"
          /\ build' = [build EXCEPT ![r].memory = m, ![r].pc = "import", ![r].todo = then]
          /\ UNCHANGED files
      BY <1>5 DEF MkfsInv, Owned, Mount, At
    <2> HIDE DEF m, then
    <2>2. [p EXCEPT !.memory = m, !.pc = "import", !.todo = then] = b
      <3> DEFINE x == [p EXCEPT !.memory = m]
                 y == [x EXCEPT !.pc = "import"]
      <3> HIDE DEF p
      <3>1. [p EXCEPT !.memory = m, !.pc = "import", !.todo = then] = [y EXCEPT !.todo = then]
        OBVIOUS
      <3>2. x = [pc |-> p.pc, config |-> p.config, pid |-> p.pid, attempt |-> p.attempt,
                 memory |-> m, todo |-> p.todo, ended |-> p.ended]
        BY <2>1 DEF Process
      <3> HIDE DEF x
      <3>3. y = [pc |-> "import", config |-> p.config, pid |-> p.pid, attempt |-> p.attempt,
                 memory |-> m, todo |-> p.todo, ended |-> p.ended]
        BY <3>2
      <3> HIDE DEF y
      <3>4. [y EXCEPT !.todo = then] =
              [pc |-> "import", config |-> p.config, pid |-> p.pid, attempt |-> p.attempt,
               memory |-> m, todo |-> then, ended |-> p.ended]
        BY <3>3
      <3> QED
        BY <3>1, <3>4
    <2>3. build' = [build EXCEPT ![r] = b]
      BY <2>1, <2>2
    <2>4. /\ Process(b) /\ b.config = build[r].config /\ b.pid = build[r].pid
          /\ b.attempt = build[r].attempt /\ b.ended = build[r].ended
          /\ Running(b) /\ Holding(b) /\ Running(build[r]) /\ Holding(build[r])
          /\ build[r].pc # "keep"
      BY <2>1 DEF Process, Running, Holding
    <2> HIDE DEF b
    <2> QED
      BY <2>1, <2>3, <2>4, GoesOn
  <1>6. CASE ListDirectory(r)
    <2>1. /\ build[r].pc = "import" /\ UNCHANGED files
          /\ \E todo : build' = [build EXCEPT ![r].todo = todo]
      BY <1>6 DEF ListDirectory, Importing, At
    <2> QED
      BY <2>1, TodoKeeps
  <1>7. CASE SkipEntry(r)
    <2>1. /\ build[r].pc = "import" /\ UNCHANGED files
          /\ \E todo : build' = [build EXCEPT ![r].todo = todo]
      BY <1>7 DEF SkipEntry, Importing, At
    <2> QED
      BY <2>1, TodoKeeps
  <1>8. CASE NameFails(r)
    <2>1. build[r].pc = "import" /\ Fails(r)
      BY <1>8 DEF NameFails, Importing, At
    <2> QED
      BY <2>1, FailsKeeps DEF Fails
  <1>9. CASE ImportDirectory(r)
    <2>1. build[r].pc = "import" /\ \E s, then : AfterCall(r, s, then)
      BY <1>9 DEF ImportDirectory, Importing, At
    <2> QED
      BY <2>1, AfterCallKeeps
  <1>10. CASE InspectFile(r)
    <2>1. build[r].pc = "import"
      BY <1>10 DEF InspectFile, Importing, At
    <2>2. CASE Goto(r, "read") /\ UNCHANGED files
      BY <2>1, <2>2, GotoKeeps DEF Running, Holding
    <2>3. CASE Fails(r)
      BY <2>1, <2>3, FailsKeeps DEF Fails
    <2> QED
      BY <1>10, <2>2, <2>3 DEF InspectFile
  <1>11. CASE ImportFile(r)
    <2>1. build[r].pc = "read"
      BY <1>11 DEF ImportFile, At
    <2>2. CASE Fails(r)
      BY <2>1, <2>2, FailsKeeps DEF Fails
    <2>3. CASE \E s, then : AfterCall(r, s, then)
      BY <2>1, <2>3, AfterCallKeeps
    <2> QED
      BY <1>11, <2>2, <2>3 DEF ImportFile
  <1>12. CASE FlushImage(r)
    <2>1. /\ build[r].pc = "import" /\ Goto(r, "rename")
          /\ \E dev : files' = [files EXCEPT ![Temp(r)].dev = dev]
      BY <1>12 DEF FlushImage, At
    <2> QED
      BY <2>1, GotoKeeps DEF Running, Holding
  <1>13. CASE Rename(r)
    BY <1>13, RenameStepKeeps
  <1>14. CASE Finish(r)
    <2>1. build[r].pc = "keep" /\ End(r, "Ok") /\ UNCHANGED files
      BY <1>14 DEF Finish, At
    <2> QED
      BY <2>1, LeavesKeeps DEF Holding
  <1> QED
    BY <1>1, <1>2, <1>3, <1>4, <1>5, <1>6, <1>7, <1>8, <1>9, <1>10, <1>11, <1>12, <1>13, <1>14
    DEF Step

LEMMA InitMkfsInv == MkfsInit => MkfsInv
  <1> SUFFICES ASSUME MkfsInit PROVE MkfsInv
    OBVIOUS
  <1>1. PICK left : files = [f \in {[of |-> o, tmp |-> << >>] : o \in Outputs} \cup left |->
                               [by |-> User, dev |-> BlankDevice]]
    BY DEF MkfsInit
  <1>2. /\ files = [f \in DOMAIN files |-> files[f]]
        /\ \A f \in DOMAIN files : files[f] = [by |-> User, dev |-> BlankDevice]
    BY <1>1
  <1>3. \A f \in DOMAIN files : File(files[f]) /\ files[f].by = User
    BY <1>2 DEF File
  <1>4. build = [r \in Builds |-> build[r]] /\ \A r \in Builds : build[r] = Idle
    BY DEF MkfsInit
  <1>5. Process(Idle) /\ Idle.pc = "idle" /\ Idle.ended = "no"
    BY DEF Idle, Process
  <1>6. ~ Running(Idle) /\ ~ Holding(Idle)
    BY <1>5 DEF Running, Holding
  <1> QED
    BY <1>2, <1>3, <1>4, <1>5, <1>6, MkfsAssumption DEF MkfsInv, Owned

LEMMA NextMkfsInv == MkfsInv /\ [MkfsNext]_mvars => MkfsInv'
  <1> SUFFICES ASSUME MkfsInv, [MkfsNext]_mvars PROVE MkfsInv'
    OBVIOUS
  <1>1. CASE UNCHANGED <<files, build>>
    BY <1>1 DEF MkfsInv, Owned, Process, File
  <1>2. ASSUME NEW r \in Builds, HostCallFails(r) PROVE MkfsInv'
    <2>1. FailsWith(r, "HostErr") /\ build[r].pc \notin {"idle", "end", "keep"}
      BY <1>2 DEF HostCallFails
    <2> QED
      BY <2>1, FailsKeeps
  <1>3. ASSUME NEW r \in Builds, DevicePanics(r) PROVE MkfsInv'
    <2>1. /\ End(r, "DevicePanic") /\ UNCHANGED files
          /\ build[r].pc \notin {"end", "keep"}
      BY <1>3 DEF DevicePanics
    <2> QED
      BY <2>1, LeavesKeeps DEF Aborted
  <1>4. ASSUME NEW r \in Builds, Kill(r) PROVE MkfsInv'
    <2>1. End(r, "Killed") /\ UNCHANGED files /\ build[r].pc # "end"
      BY <1>4 DEF Kill, Alive
    <2> QED
      BY <2>1, LeavesKeeps
  <1>5. CASE EditSource
    BY <1>1, <1>5 DEF EditSource
  <1>6. CASE UNCHANGED mvars
    BY <1>1, <1>6 DEF mvars
  <1> QED
    BY <1>2, <1>3, <1>4, <1>5, <1>6, StepKeeps DEF MkfsNext

(* The inductive invariant, through every step of every build, host        *)
(* failure, abort, kill and edit.                                          *)
THEOREM AlwaysOwned == MkfsSpec => []MkfsInv
  BY InitMkfsInv, NextMkfsInv, PTL DEF MkfsSpec

(* Whatever else runs, and wherever it stops, a build that fails or panics *)
(* has not put its image in the place of the output.                       *)
THEOREM FailureAlwaysKeepsOutput == MkfsSpec => []FailureKeepsOutput
  <1>1. MkfsInv => FailureKeepsOutput
    <2> SUFFICES ASSUME MkfsInv, NEW r \in Builds, build[r].ended \in Failed \cup Aborted,
                        NEW f \in DOMAIN files, ~ IsTemp(f), files[f].by = r
                 PROVE  FALSE
      BY DEF FailureKeepsOutput
    <2>1. HasRenamed(build[r]) /\ (build[r].pc # "end" => build[r].ended = "no")
      BY DEF MkfsInv, Owned
    <2>2. build[r].ended \in {"no", "Ok", "Killed"}
      BY <2>1 DEF HasRenamed
    <2> QED
      BY <2>2 DEF Failed, Aborted
  <1> QED
    BY <1>1, AlwaysOwned, PTL

(* Every temporary image is that of a build at work, or of one that was    *)
(* killed or aborted, or the host would not remove it: no error path       *)
(* forgets one, and no build takes or removes that of another.             *)
THEOREM NoImageEverForgotten == MkfsSpec => []NoImageForgotten
  <1>1. MkfsInv => NoImageForgotten
    <2> SUFFICES ASSUME MkfsInv, NEW f \in DOMAIN files, IsTemp(f),
                        files[f].by \notin {User, Unremoved}, NEW r, r = files[f].by
                 PROVE  f = Temp(r) /\ (HasTemp(r) \/ build[r].ended \in Aborted \cup {"Killed"})
      BY DEF NoImageForgotten
    <2>1. r \in Builds
      BY DEF MkfsInv, Owned
    <2>2. f = TempOf(build[r]) /\ MayLeaveTemp(build[r])
      BY <2>1 DEF MkfsInv, Owned
    <2> QED
      BY <2>2 DEF MayLeaveTemp, Holding, HasTemp, Temp, TempOf
  <1> QED
    BY <1>1, AlwaysOwned, PTL
=============================================================================
