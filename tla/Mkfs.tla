-------------------------------- MODULE Mkfs ---------------------------------
(***************************************************************************)
(* mkfs (mkfs/src): builds a LemonFS image from a directory of the host.   *)
(* The image grows in a temporary file beside the output, which a rename   *)
(* puts in its place.  Several builds may run at once, any of them may be  *)
(* killed between two steps, calls of the host may fail, and somebody may  *)
(* save or delete source files meanwhile.                                  *)
(*                                                                         *)
(* A path of the host is a sequence of components, relative to the working *)
(* directory; the empty sequence is the empty path "".  The workspace is   *)
(* compiled with panic = "abort": a panic ends the process at once and no  *)
(* destructor runs.                                                        *)
(***************************************************************************)
EXTENDS LemonFSCalls, FiniteSetsExt

CONSTANTS Builds,        \* the mkfs processes
          Pids,          \* process ids, which the host uses again
          ATTEMPTS,      \* names tried for the temporary image (100)
          CommandLines,  \* arguments of mkfs: sequences of paths
          HostDirs,      \* directories of the host, by their canonical path
          Trees,         \* source directories: functions from paths to nodes
          Edits,         \* what somebody may save into a source file
          NameOrder,     \* every name of the trees, in the order of its bytes
          BadNames,      \* names that are not UTF-8
          IoFails        \* whether calls of the host may fail

VARIABLES host,      \* the source directory: path -> [kind, bytes]
          versions,  \* history: every value host has had
          files,     \* the files around the output: name -> image
          build      \* the state of each process

mvars == <<host, versions, files, build>>

MAX_FILE_SIZE == INODE_BLOCKS * BLOCK_SIZE

NoPath == << "none" >>
User == "user"
Unremoved == "unremoved"

ASSUME MkfsAssumption == User \notin Builds /\ Unremoved \notin Builds
------------------------------------------------------------------------------
(* Command::parse.  An option takes the next argument, whatever it is.     *)
Options == {<< "--source" >>, << "--output" >>, << "--blocks" >>}
Help == {<< "-h" >>, << "--help" >>}
BlockCounts == {<< "enough" >>, << "small" >>, << "above u32" >>}

Default == [is |-> "Build", want |-> NoPath, seen |-> {},
            source |-> << "rootfs" >>, output |-> << "lemonfs.img" >>,
            blocks |-> << "enough" >>]

option(c, arg) ==
  IF arg \in Help THEN [c EXCEPT !.is = "Help"]
  ELSE IF arg \notin Options \/ arg \in c.seen THEN [c EXCEPT !.is = "Usage"]
  ELSE [c EXCEPT !.want = arg, !.seen = @ \cup {arg}]

next_value(c, arg) ==
  LET d == [c EXCEPT !.want = NoPath] IN
  CASE c.want = << "--source" >> -> [d EXCEPT !.source = arg]
    [] c.want = << "--output" >> -> [d EXCEPT !.output = arg]
    [] c.want = << "--blocks" >> -> IF arg \in BlockCounts THEN [d EXCEPT !.blocks = arg]
                                    ELSE [d EXCEPT !.is = "Usage"]

next_argument(c, arg) ==
  IF c.is # "Build" THEN c
  ELSE IF c.want = NoPath THEN option(c, arg) ELSE next_value(c, arg)

parse(args) ==
  LET c == FoldLeft(next_argument, Default, args)
  IN  IF c.is = "Build" /\ c.want # NoPath THEN [c EXCEPT !.is = "Usage"] ELSE c
------------------------------------------------------------------------------
(* Path::parent, Path::file_name and fs::canonicalize: realpath("") fails, *)
(* and "." is the working directory.                                       *)
parent(path) == Front(path)
has_file_name(path) == path # << >>
NoDots(path) == SelectSeq(path, LAMBDA n : n # ".")
Resolves(path) == path # << >> /\ NoDots(path) \in HostDirs

(* validate_output_location.                                               *)
validate_output_location(c) ==
  /\ Resolves(c.source)
  /\ has_file_name(c.output)
  /\ Resolves(parent(c.output))
  /\ ~ IsPrefix(NoDots(c.source), Append(NoDots(parent(c.output)), Last(c.output)))

(* The checks of build_image before it creates anything.                   *)
CanBegin(c) ==
  /\ NoDots(c.source) \in HostDirs
  /\ validate_output_location(c)
  /\ c.blocks # << "above u32" >>
------------------------------------------------------------------------------
(* A file beside the output is the output or a temporary image of it.      *)
Output(c) == [of |-> c.output, tmp |-> << >>]
Temporary(c, pid, attempt) == [of |-> c.output, tmp |-> << pid, attempt >>]

Without(f, x) == [y \in DOMAIN f \ {x} |-> f[y]]
With(f, x, v) == [y \in DOMAIN f \cup {x} |-> IF y = x THEN v ELSE f[y]]

Idle == [pc |-> "idle", config |-> Default, pid |-> User, attempt |-> 0,
         memory |-> Mounted(BlankDevice), todo |-> << >>, ended |-> "no"]

Alive(r) == build[r].pc \notin {"idle", "end"}
Temp(r) == Temporary(build[r].config, build[r].pid, build[r].attempt)
HasTemp(r) == build[r].pc \in {"format", "mount", "import", "read", "rename"}

At(r, pc) == build[r].pc = pc
Goto(r, pc) == build' = [build EXCEPT ![r].pc = pc]
End(r, how) == build' = [build EXCEPT ![r].pc = "end", ![r].ended = how,
                                      ![r].memory = Mounted(BlankDevice), ![r].todo = << >>]

(* A temporary image that the host did not remove; nobody opens it again.  *)
Left == [by |-> Unremoved, dev |-> BlankDevice]

(* An error: Drop for TemporaryImage removes the file, and ignores it when *)
(* that fails.                                                             *)
DropTemp_kept_too_early(r) ==
  files' = IF HasTemp(r) /\ ~ At(r, "rename") THEN Without(files, Temp(r)) ELSE files
DropTemp(r) ==
  \/ files' = IF HasTemp(r) THEN Without(files, Temp(r)) ELSE files
  \/ IoFails /\ HasTemp(r) /\ files' = [files EXCEPT ![Temp(r)] = Left]
FailsWith(r, how) == End(r, how) /\ DropTemp(r) /\ UNCHANGED <<host, versions>>
Fails(r) == FailsWith(r, "Err")

Image(r) == files[Temp(r)].dev
FsCall(r) == Begin(Image(r), build[r].memory)

(* A call of the filesystem ended in state s; then is what to do next.     *)
AfterCall(r, s, then) ==
  \/ /\ IsOk(s)
     /\ files' = [files EXCEPT ![Temp(r)].dev = s.dev]
     /\ build' = [build EXCEPT ![r].memory = s.mem, ![r].pc = "import", ![r].todo = then]
     /\ UNCHANGED <<host, versions>>
  \/ /\ s.res = "Panic"
     /\ End(r, "Panic") /\ UNCHANGED <<host, versions, files>>
  \/ /\ ~ IsOk(s) /\ s.res # "Panic"
     /\ Fails(r)
------------------------------------------------------------------------------
(* main.                                                                   *)
Start(r) ==
  \E args \in CommandLines, pid \in Pids \ {build[q].pid : q \in {q \in Builds : Alive(q)}} :
    LET c == parse(args) IN
    /\ At(r, "idle")
    /\ build' = [build EXCEPT ![r].config = c, ![r].pid = pid,
                              ![r].pc = IF c.is = "Build" THEN "check" ELSE "end",
                              ![r].ended = IF c.is = "Build" THEN "no" ELSE c.is]
    /\ UNCHANGED <<host, versions, files>>

Check(r) ==
  /\ At(r, "check")
  /\ \/ CanBegin(build[r].config) /\ Goto(r, "create") /\ UNCHANGED <<host, versions, files>>
     \/ ~ CanBegin(build[r].config) /\ Fails(r)

(* create_temporary_image: create_new does not touch a file that exists.   *)
(* The next name is tried whenever a file of this one is there after the   *)
(* error, which is also when set_len fails and then remove_file.           *)
NextAttempt(r) ==
  \/ /\ build[r].attempt + 1 < ATTEMPTS
     /\ build' = [build EXCEPT ![r].attempt = @ + 1]
  \/ build[r].attempt + 1 = ATTEMPTS /\ End(r, "NoTemporary")
CreateTemporary(r) ==
  /\ At(r, "create")
  /\ \/ /\ Temp(r) \notin DOMAIN files
        /\ files' = With(files, Temp(r), [by |-> r, dev |-> BlankDevice])
        /\ Goto(r, "format")
     \/ Temp(r) \in DOMAIN files /\ NextAttempt(r) /\ UNCHANGED files
     \/ /\ IoFails /\ Temp(r) \notin DOMAIN files
        /\ files' = With(files, Temp(r), Left)
        /\ NextAttempt(r)
  /\ UNCHANGED <<host, versions>>

Format_in_place(r) ==
  /\ At(r, "format")
  /\ files' = [files EXCEPT ![Temp(r)].dev = format,
                            ![Output(build[r].config)] = [by |-> r, dev |-> format]]
  /\ Goto(r, "mount") /\ UNCHANGED <<host, versions>>
Format(r) ==
  /\ At(r, "format")
  /\ \/ /\ build[r].config.blocks # << "small" >>
        /\ files' = [files EXCEPT ![Temp(r)].dev = format]
        /\ Goto(r, "mount") /\ UNCHANGED <<host, versions>>
     \/ build[r].config.blocks = << "small" >> /\ Fails(r)

(* format has written a root directory, which is all that Filesystem::new  *)
(* asks of the image.                                                      *)
Mount(r) ==
  /\ At(r, "mount")
  /\ build' = [build EXCEPT ![r].memory = Mounted(Image(r)), ![r].pc = "import",
                            ![r].todo = << [kind |-> "list", path |-> << >>] >>]
  /\ UNCHANGED <<host, versions, files>>
------------------------------------------------------------------------------
(* import_directory: todo is what is left of it and of its callers.  The   *)
(* kind of an entry is the one read_dir reported.                          *)
EntryNames(dir) == {n \in Range(NameOrder) : dir \o << n >> \in DOMAIN host}
Listing(dir) ==
  LET names == SelectSeq(NameOrder, LAMBDA n : n \in EntryNames(dir))
  IN  [k \in 1 .. Len(names) |-> [kind |-> host[dir \o << names[k] >>].kind,
                                  path |-> dir \o << names[k] >>]]

Todo(r) == Head(build[r].todo)
Importing(r, kind) == At(r, "import") /\ build[r].todo # << >> /\ Todo(r).kind = kind

ListDirectory(r) ==
  /\ Importing(r, "list")
  /\ build' = [build EXCEPT ![r].todo = Listing(Todo(r).path) \o Tail(@)]
  /\ UNCHANGED <<host, versions, files>>

SkipEntry(r) ==
  /\ Importing(r, "other")
  /\ build' = [build EXCEPT ![r].todo = Tail(@)]
  /\ UNCHANGED <<host, versions, files>>

NameFails(r) ==
  /\ Importing(r, "dir") \/ Importing(r, "file")
  /\ Last(Todo(r).path) \in BadNames
  /\ Fails(r)

ImportDirectory(r) ==
  /\ Importing(r, "dir") /\ Last(Todo(r).path) \notin BadNames
  /\ AfterCall(r, new_dir_entry(FsCall(r), Todo(r).path, TRUE),
               << [kind |-> "list", path |-> Todo(r).path] >> \o Tail(build[r].todo))

(* The size is that of the metadata; the contents are read afterwards.     *)
InspectFile_below_limit(r) ==
  /\ Importing(r, "file") /\ Last(Todo(r).path) \notin BadNames
  /\ \/ /\ Todo(r).path \in DOMAIN host
        /\ Len(host[Todo(r).path].bytes) < MAX_FILE_SIZE
        /\ Goto(r, "read") /\ UNCHANGED <<host, versions, files>>
     \/ /\ Todo(r).path \in DOMAIN host => Len(host[Todo(r).path].bytes) >= MAX_FILE_SIZE
        /\ Fails(r)
InspectFile(r) ==
  /\ Importing(r, "file") /\ Last(Todo(r).path) \notin BadNames
  /\ \/ /\ Todo(r).path \in DOMAIN host
        /\ Len(host[Todo(r).path].bytes) <= MAX_FILE_SIZE
        /\ Goto(r, "read") /\ UNCHANGED <<host, versions, files>>
     \/ /\ Todo(r).path \in DOMAIN host => Len(host[Todo(r).path].bytes) > MAX_FILE_SIZE
        /\ Fails(r)

write_new_file(s, path, bytes) ==
  IF IsOk(s) THEN append_to_file(Begin(s.dev, s.mem), path, bytes) ELSE s

ImportFile(r) ==
  /\ At(r, "read")
  /\ \/ Todo(r).path \notin DOMAIN host /\ Fails(r)
     \/ /\ Todo(r).path \in DOMAIN host
        /\ AfterCall(r, write_new_file(new_dir_entry(FsCall(r), Todo(r).path, FALSE),
                                       Todo(r).path, host[Todo(r).path].bytes),
                     Tail(build[r].todo))

(* The end of build_image.                                                 *)
FlushImage_forgotten(r) ==
  /\ At(r, "import") /\ build[r].todo = << >>
  /\ Goto(r, "rename") /\ UNCHANGED <<host, versions, files>>
FlushImage(r) ==
  /\ At(r, "import") /\ build[r].todo = << >>
  /\ files' = [files EXCEPT ![Temp(r)].dev = flush(FsCall(r)).dev]
  /\ Goto(r, "rename") /\ UNCHANGED <<host, versions>>

Rename(r) ==
  /\ At(r, "rename")
  /\ files' = With(Without(files, Temp(r)), Output(build[r].config), files[Temp(r)])
  /\ Goto(r, "keep") /\ UNCHANGED <<host, versions>>

Finish(r) == At(r, "keep") /\ End(r, "Ok") /\ UNCHANGED <<host, versions, files>>

Step(r) == \/ Start(r) \/ Check(r) \/ CreateTemporary(r) \/ Format(r) \/ Mount(r)
           \/ ListDirectory(r) \/ SkipEntry(r) \/ NameFails(r) \/ ImportDirectory(r)
           \/ InspectFile(r) \/ ImportFile(r) \/ FlushImage(r) \/ Rename(r) \/ Finish(r)
------------------------------------------------------------------------------
(* A call of the host fails: the step returns its error, or, in the block  *)
(* device under the filesystem, panics.                                    *)
HostCallFails(r) ==
  /\ IoFails
  /\ build[r].pc \in {"check", "create", "mount", "import", "read", "rename"}
  /\ FailsWith(r, "HostErr")

DevicePanics(r) ==
  /\ IoFails
  /\ build[r].pc \in {"format", "mount", "import", "read"}
  /\ End(r, "DevicePanic") /\ UNCHANGED <<host, versions, files>>

Kill(r) == Alive(r) /\ End(r, "Killed") /\ UNCHANGED <<host, versions, files>>

(* Somebody saves other bytes into a source file, or deletes it.           *)
SourceFiles == {p \in DOMAIN host : host[p].kind = "file"}
EditSource ==
  /\ Cardinality(versions) = 1
  /\ \E p \in SourceFiles :
       \/ host' = Without(host, p)
       \/ \E bytes \in Edits : host' = [host EXCEPT ![p].bytes = bytes]
  /\ versions' = versions \cup {host'}
  /\ UNCHANGED <<files, build>>

(* The output of an earlier build, and perhaps what a killed one left.     *)
Outputs == {c.output : c \in {c \in {parse(a) : a \in CommandLines} :
                                  c.is = "Build" /\ CanBegin(c)}}
Leftovers == {[of |-> o, tmp |-> << p, 0 >>] : o \in Outputs, p \in Pids}

MkfsInit ==
  /\ host \in Trees
  /\ versions = {host}
  /\ \E left \in {{}} \cup {{f} : f \in Leftovers} :
       files = [f \in {[of |-> o, tmp |-> << >>] : o \in Outputs} \cup left |->
                  [by |-> User, dev |-> BlankDevice]]
  /\ build = [r \in Builds |-> Idle]

MkfsNext == \/ EditSource
            \/ \E r \in Builds : Step(r) \/ HostCallFails(r) \/ DevicePanics(r) \/ Kill(r)

MkfsSpec == MkfsInit /\ [][MkfsNext]_mvars
------------------------------------------------------------------------------
IsTemp(f) == f.tmp # << >>
Failed == {"Usage", "Err", "HostErr", "NoTemporary"}
Aborted == {"Panic", "DevicePanic"}
Importable(kind) == kind \in {"dir", "file"}

(* Tree t has this entry of the host's tree.                               *)
Holds(t, path, node) ==
  path \in DOMAIN t /\ t[path].dir = (node.kind = "dir") /\ t[path].bytes = node.bytes

(* The output is the old file or a complete image: mounted, it holds only  *)
(* entries the source had while mkfs ran, with bytes the file had at one   *)
(* time, and all of those that nobody touched.  Writing the image in       *)
(* place, a rename before the flush or an import that stops early would    *)
(* break it.                                                               *)
OutputIsWhole ==
  \A f \in DOMAIN files : ~ IsTemp(f) /\ files[f].by # User =>
    LET dev == files[f].dev
        t == TreeBelow(dev, Mounted(dev), Root)
    IN  /\ \A p \in DOMAIN t : \E v \in versions : p \in DOMAIN v /\ Holds(t, p, v[p])
        /\ \A p \in DOMAIN host :
             Importable(host[p].kind) /\ (\A v \in versions : p \in DOMAIN v /\ v[p] = host[p])
               => Holds(t, p, host[p])

(* A build that reports an error, or panics, has not touched the output    *)
(* (test failed_import_preserves_existing_output, for every way to fail).  *)
FailureKeepsOutput ==
  \A r \in Builds : build[r].ended \in Failed \cup Aborted =>
    \A f \in DOMAIN files : ~ IsTemp(f) => files[f].by # r

(* A temporary image belongs to one build that is still running, or was    *)
(* left by one that was killed or aborted, or the host would not remove    *)
(* it: every error path tries to.                                          *)
NoImageForgotten ==
  \A f \in DOMAIN files : IsTemp(f) /\ files[f].by \notin {User, Unremoved} =>
    LET r == files[f].by IN
    /\ f = Temp(r)
    /\ HasTemp(r) \/ build[r].ended \in Aborted \cup {"Killed"}
------------------------------------------------------------------------------
(* What LemonFS can hold: short UTF-8 names, files within the inode's      *)
(* slots, directories of DirectoryHolds entries, and inodes and blocks for *)
(* all of it.                                                              *)
(*                                                                         *)
(* Directory entries follow each other without regard to the blocks, and   *)
(* one that crosses into the next block makes write_slot panic: with bytes *)
(* left over, as in the shipped 512-byte block with 28-byte entries, the   *)
(* first block is all there is (18 entries).  With none left over the last *)
(* slot takes a single entry, has_space being of the size before.          *)
DirectoryHolds(n) ==
  /\ \A e \in 0 .. n - 1 : ((e * DIR_ENTRY_SIZE) % BLOCK_SIZE) + DIR_ENTRY_SIZE <= BLOCK_SIZE
  /\ (n - 1) * DIR_ENTRY_SIZE <= (INODE_BLOCKS - 1) * BLOCK_SIZE

Wanted == {p \in DOMAIN host : Importable(host[p].kind)}
Dirs == {<< >>} \cup {p \in Wanted : host[p].kind = "dir"}
EntriesOf(d) == 2 + Cardinality({p \in Wanted : parent(p) = d})
BlocksFor(size) == (size + BLOCK_SIZE - 1) \div BLOCK_SIZE
BlocksOf(p) == IF p \in Dirs THEN BlocksFor(EntriesOf(p) * DIR_ENTRY_SIZE)
               ELSE BlocksFor(Len(host[p].bytes))

Fits ==
  /\ \A p \in Wanted : Last(p) \notin LongNames \cup BadNames
  /\ \A p \in Wanted : Len(host[p].bytes) <= MAX_FILE_SIZE
  /\ \A d \in Dirs : DirectoryHolds(EntriesOf(d))
  /\ Cardinality(Wanted \cup Dirs) <= MAX_INODES
  /\ MapThenSumSet(BlocksOf, Wanted \cup Dirs) <= DATA_BLOCKS

(* With nobody interfering, mkfs builds an image exactly when the tree     *)
(* fits, the device has blocks for a filesystem, and the output is a name  *)
(* in a directory that is there and not below the source: whatever it      *)
(* refuses, and wherever it panics, one of them is missing.  A bare file   *)
(* name is in no directory (see DefaultBuilds).                            *)
Undisturbed(r) == build[r].ended \in {"Ok", "Err", "Panic"} /\ versions = {host}

BuildsWhatFits ==
  \A r \in Builds :
    LET c == build[r].config IN
    Undisturbed(r) =>
      (build[r].ended = "Ok" <=> Fits /\ CanBegin(c) /\ c.blocks # << "small" >>)

(* What README.md says of mkfs without arguments: "This creates            *)
(* `lemonfs.img`".  validate_output_location asks for the directory of the *)
(* output, which for this name is the empty path, and realpath("") fails.  *)
DefaultBuilds ==
  \A r \in Builds :
    Undisturbed(r) /\ build[r].config = Default /\ Fits => build[r].ended = "Ok"
==============================================================================
