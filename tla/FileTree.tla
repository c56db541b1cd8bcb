------------------------------ MODULE FileTree ------------------------------
(***************************************************************************)
(* The directory tree a ServedDir serves from, and what opening a path     *)
(* tells the server (src/src/lib.rs, FileInfo).                            *)
(*                                                                         *)
(* The tree belongs to whoever deploys the site.  The documentation of     *)
(* ServedDir::builder (served_dir.rs:121-128) says which updates are safe: *)
(* content changes by moving and deleting paths, never by writing into a   *)
(* file.  A path therefore holds a whole immutable version or nothing, and *)
(* a handle once opened keeps the version it was opened on.  Version       *)
(* numbers stand for contents.                                             *)
(***************************************************************************)
EXTENDS Integers

CONSTANTS
    Paths,       \* full paths below the served directory
    Dirs,        \* those of them that are directories
    MaxVersion,  \* bound on the versions a path goes through
    LenOf,       \* LenOf[v]: length in bytes of version v
    MtimeOf      \* MtimeOf[v]: modification time of version v

Versions == 1 .. MaxVersion
Absent   == 0
Contents == 0 .. MaxVersion      \* what a path holds: a version or Absent

ASSUME TreeAssumption ==
    /\ Dirs \subseteq Paths
    /\ MaxVersion \in Nat
    /\ LenOf \in [Versions -> Nat]
    /\ MtimeOf \in [Versions -> Nat]

\* Two versions of one path differ in length or modification time.  FileInfo
\* relies on it: it is the identity of "a particular version of a file"
\* (lib.rs:308) and holds nothing of the content itself.
ASSUME InfoAssumption ==
    \A v, w \in Versions :
        LenOf[v] = LenOf[w] /\ MtimeOf[v] = MtimeOf[w] => v = w

VARIABLES
    tree,        \* tree[p]: the version path p holds, or Absent
    released     \* released[p]: the newest version p ever held

treeVars == <<tree, released>>

\* Mutant of FileInfo: the modification time is left out of the key.
FileInfoNoMtime(p, v) == [path |-> p, len |-> LenOf[v], mtime |-> 0]

\* FileInfo: path hash, length and modification time.  The 64-bit hash of the
\* path is taken to be injective.
FileInfo(p, v) == [path |-> p, len |-> LenOf[v], mtime |-> MtimeOf[v]]

FileInfos == {FileInfo(p, v) : p \in Paths, v \in Versions}

\* What the tree alone makes of File::open(p) and FileInfo::open_file: an error, or
\* "ok".  On Unix a directory opens, and its metadata then reports it.
OpenStatus(p) ==
    IF p \in Dirs THEN "is_directory"
    ELSE IF tree[p] = Absent THEN "not_found" ELSE "ok"

\* The errors that opening p can end with: what OpenStatus says, or any other one
\* the system reports of an open or of its metadata (no permission, no descriptors
\* left, a file in the place of a directory), which is an IOError.
OpenErrors(p) == {"io_error"} \cup ({OpenStatus(p)} \ {"ok"})

TreeTypeOK ==
    /\ tree \in [Paths -> Contents]
    /\ released \in [Paths -> Contents]

TreeInit ==
    /\ tree \in [Paths -> {Absent, 1} \cap Contents]
    /\ \A p \in Dirs : tree[p] = Absent
    /\ released = tree

\* A new version is moved onto p (or the served symlink is switched to a
\* directory that holds it).
Release(p) ==
    /\ p \notin Dirs
    /\ released[p] < MaxVersion
    /\ released' = [released EXCEPT ![p] = @ + 1]
    /\ tree' = [tree EXCEPT ![p] = released[p] + 1]

\* p is deleted or moved away.
Remove(p) ==
    /\ tree[p] # Absent
    /\ tree' = [tree EXCEPT ![p] = Absent]
    /\ UNCHANGED released

\* The symlink is switched back: p holds an earlier version again.
Rollback(p) ==
    \E v \in 1 .. released[p] :
        /\ tree[p] # v
        /\ tree' = [tree EXCEPT ![p] = v]
        /\ UNCHANGED released
=============================================================================
