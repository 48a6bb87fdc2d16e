------------------------------ MODULE FileTree -------------------------------
(***************************************************************************)
(* What the shell's user is promised: a tree of names, with directories    *)
(* and files that grow by appending.  Capacity is not part of the promise: *)
(* a call that would succeed may fail for lack of room, and then changes   *)
(* nothing, except that an append may have stored part of its bytes.       *)
(***************************************************************************)
EXTENDS Integers, SequencesExt, TLC

CONSTANTS LongNames, Paths, Writes, MaxFileSize

VARIABLES tree,   \* from paths (sequences of names) to nodes
          last    \* the last call and how it ended

vars == <<tree, last>>

File(bytes) == [dir |-> FALSE, bytes |-> bytes]
Directory == [dir |-> TRUE, bytes |-> << >>]

NonEmpty(parts) == SelectSeq(parts, LAMBDA n : n # 0)
IsDir(p) == p # << >> => p \in DOMAIN tree /\ tree[p].dir

(* The outcome of walking into directory p from the root.                  *)
WalkOutcome(p) ==
  IF \A q \in Prefixes(p) : IsDir(q) THEN "Ok"
  ELSE LET q == CHOOSE q \in Prefixes(p) :
                  ~ IsDir(q) /\ \A r \in Prefixes(p) : Len(r) < Len(q) => IsDir(r)
       IN  IF q \in DOMAIN tree THEN "NotADirectory" ELSE "NotFound"

Target(path) == NonEmpty(Front(path)) \o << Last(path) >>
Lookup(path) ==
  LET walked == WalkOutcome(NonEmpty(Front(path)))
  IN  IF walked = "Ok" /\ Target(path) \notin DOMAIN tree THEN "NotFound" ELSE walked

Ended(op, path, arg, is, bytes) ==
  last' = [op |-> op, path |-> path, arg |-> arg, is |-> is, bytes |-> bytes]

Refuse(op, path, arg, is) == Ended(op, path, arg, is, << >>) /\ UNCHANGED tree
Dies(op, path, arg) == Ended(op, path, arg, "Panic", << >>) /\ tree' = << >>
------------------------------------------------------------------------------
Create(op, path, node) ==
  LET p == NonEmpty(path) IN
  \/ p = << >> /\ Refuse(op, path, << >>, "EmptyName")
  \/ /\ p # << >>
     /\ \/ Last(p) \in LongNames /\ Refuse(op, path, << >>, "NameTooLong")
        \/ /\ Last(p) \notin LongNames
           /\ \/ WalkOutcome(Front(p)) # "Ok" /\ Refuse(op, path, << >>, WalkOutcome(Front(p)))
              \/ /\ WalkOutcome(Front(p)) = "Ok"
                 /\ \/ p \in DOMAIN tree /\ Refuse(op, path, << >>, "EntryExists")
                    \/ Refuse(op, path, << >>, "NoFreeInodeBlocks")
                    \/ /\ p \notin DOMAIN tree
                       /\ \/ Refuse(op, path, << >>, "NoFreeInodes")
                          \/ Dies(op, path, << >>)
                          \/ /\ Ended(op, path, << >>, "Ok", << >>)
                             /\ tree' = tree @@ (p :> node)

Write(path, bytes) ==
  LET p == Target(path) IN
  \/ Lookup(path) # "Ok" /\ Refuse("write", path, bytes, Lookup(path))
  \/ /\ Lookup(path) = "Ok"
     /\ \/ tree[p].dir /\ Refuse("write", path, bytes, "IsDirectory")
        \/ /\ ~ tree[p].dir
           /\ Len(tree[p].bytes) + Len(bytes) > MaxFileSize
           /\ Refuse("write", path, bytes, "FileTooLarge")
        \/ /\ ~ tree[p].dir
           /\ Len(tree[p].bytes) + Len(bytes) <= MaxFileSize
           /\ \E n \in 0 .. Len(bytes) :
                /\ tree' = [tree EXCEPT ![p].bytes = @ \o SubSeq(bytes, 1, n)]
                /\ Ended("write", path, bytes,
                         IF n = Len(bytes) THEN "Ok" ELSE "NoSpaceLeft", << >>)

Unlink(path) ==
  LET p == Target(path) IN
  \/ Lookup(path) # "Ok" /\ Refuse("rm", path, << >>, Lookup(path))
  \/ /\ Lookup(path) = "Ok"
     /\ \/ tree[p].dir /\ Refuse("rm", path, << >>, "OperationNotSupported")
        \/ /\ ~ tree[p].dir
           /\ tree' = [q \in DOMAIN tree \ {p} |-> tree[q]]
           /\ Ended("rm", path, << >>, "Ok", << >>)

(* The kernel may die on a file with characters of several bytes.          *)
Cat(path) ==
  LET p == Target(path) IN
  \/ Lookup(path) # "Ok" /\ Refuse("cat", path, << >>, Lookup(path))
  \/ /\ Lookup(path) = "Ok"
     /\ \/ tree[p].dir /\ Refuse("cat", path, << >>, "IsDirectory")
        \/ /\ ~ tree[p].dir
           /\ Ended("cat", path, << >>, "Ok", tree[p].bytes) /\ UNCHANGED tree
        \/ /\ ~ tree[p].dir /\ \E c \in DOMAIN tree[p].bytes : tree[p].bytes[c] > 127
           /\ Dies("cat", path, << >>)

List(path) ==
  \/ /\ path # << 0 >> => Lookup(path) = "Ok" /\ tree[Target(path)].dir
     /\ Refuse("ls", path, << >>, "Ok")
  \/ /\ path # << 0 >> /\ Lookup(path) # "Ok"
     /\ Refuse("ls", path, << >>, Lookup(path))
  \/ /\ path # << 0 >> /\ Lookup(path) = "Ok" /\ ~ tree[Target(path)].dir
     /\ Refuse("ls", path, << >>, "NotADirectory")

(* Neither printing, nor a flush, nor an orderly exit and boot shows.      *)
Keep == \E op \in {"tree", "flush", "boot"} : Refuse(op, << >>, << >>, "Ok")

Init == /\ tree = << >>
        /\ last = [op |-> "boot", path |-> << >>, arg |-> << >>, is |-> "Ok", bytes |-> << >>]

Next == /\ last.is # "Panic"
        /\ \/ \E path \in Paths :
                \/ Create("mkdir", path, Directory) \/ Create("create", path, File(<< >>))
                \/ Unlink(path) \/ Cat(path) \/ List(path)
                \/ \E bytes \in Writes : Write(path, bytes)
           \/ Keep

Spec == Init /\ [][Next]_vars
==============================================================================
