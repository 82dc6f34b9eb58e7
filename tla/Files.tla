-------------------------------- MODULE Files --------------------------------
(* src/src/Util/File.cpp: threads that make and delete files of one tree,   *)
(* system call by system call, and the paths that absolutePath makes.  A    *)
(* path is a sequence of names; the root <<>> is always there.              *)
EXTENDS Naturals, Sequences, FiniteSets

CONSTANTS
  FileUsers,   \* threads
  Targets,     \* files they make and delete
  MaxFileOps,
  Root,        \* current_path, for absolutePath
  Parts,       \* elements of a path: names, "..", "." and ""
  MaxParts

ASSUME FilesAssumption ==
  /\ \A f \in Targets : f \in Seq(STRING) /\ f # <<>>
  /\ MaxFileOps \in Nat /\ MaxParts \in Nat

VARIABLES
  disk,     \* what is there: paths of directories and files
  opened,   \* files that fopen made
  doing,    \* thread -> what it does
  born,     \* file -> threads that had found its directory empty, and were about to delete it,
            \* when it was made (history)
  lost,     \* <<thread, file, thread is in born[file]>>: deleted, and not the one that was
            \* to be (history)
  fileOps,
  walk      \* a call of absolutePath

diskVars == <<disk, opened, doing, born, lost, fileOps, walk>>

Under(p, dir) == Len(p) > Len(dir) /\ SubSeq(p, 1, Len(dir)) = dir
Up(p) == SubSeq(p, 1, Len(p) - 1)
Within(dir) == {p \in disk : Under(p, dir)}
IsDirectory(p) == p = <<>> \/ (p \in disk /\ p \notin opened)
NoFileOp == [op |-> "none", step |-> "none", target |-> <<>>, at |-> 0, path |-> <<>>, listed |-> {}]

FilesInit ==
  /\ disk = {} /\ opened = {} /\ doing = [t \in FileUsers |-> NoFileOp]
  /\ born = [f \in Targets |-> {}] /\ lost = {} /\ fileOps = 0
  /\ \E up \in BOOLEAN : walk = [up |-> up, rest |-> <<>>, now |-> Root, said |-> <<>>, ended |-> FALSE]

Does(t, step) == doing' = [doing EXCEPT ![t].step = step]
Rests(t) == doing' = [doing EXCEPT ![t] = NoFileOp]

(* create_file, create_path of its directory, delete_file(.., true, true),  *)
(* or delete_file of a directory.                                           *)
AskFile(t, op, f) ==
  /\ doing[t].op = "none" /\ walk.said = <<>> /\ ~walk.up /\ fileOps < MaxFileOps /\ fileOps' = fileOps + 1
  /\ doing' = [doing EXCEPT ![t] = [NoFileOp EXCEPT !.op = op, !.target = f, !.at = 1,
                !.path = f, !.step = IF op \in {"create", "path"} THEN "access" ELSE "lists"]]
  /\ UNCHANGED <<disk, opened, born, lost, walk>>

-----------------------------------------------------------------------------
(* create_file: each directory is looked for and made, if that fails so     *)
(* what; then the file.  create_path gives up where it fails, though        *)
(* another thread may just have made that very directory.                   *)

Access(t) ==
  LET dir == SubSeq(doing[t].target, 1, doing[t].at)
  IN /\ doing[t].step = "access"
     /\ IF doing[t].at = Len(doing[t].target)
        THEN IF doing[t].op = "path" THEN Rests(t) ELSE Does(t, "fopen")
        ELSE IF dir \in disk THEN doing' = [doing EXCEPT ![t].at = @ + 1] ELSE Does(t, "mkdir")
     /\ UNCHANGED <<disk, opened, born, lost, fileOps, walk>>

Mkdir(t) ==
  LET dir == SubSeq(doing[t].target, 1, doing[t].at)
      makes == dir \notin disk /\ IsDirectory(Up(dir))
  IN /\ doing[t].step = "mkdir"
     /\ disk' = IF makes THEN disk \cup {dir} ELSE disk
     /\ IF doing[t].op = "path" /\ ~makes THEN Rests(t)
        ELSE doing' = [doing EXCEPT ![t].step = "access", ![t].at = @ + 1]
     /\ UNCHANGED <<opened, born, lost, fileOps, walk>>

Fopen(t) ==
  LET f == doing[t].target
      makes == f \notin disk /\ IsDirectory(Up(f))
  IN /\ doing[t].step = "fopen" /\ Rests(t)
     /\ disk' = IF makes THEN disk \cup {f} ELSE disk
     /\ opened' = IF makes THEN opened \cup {f} ELSE opened
     /\ born' = IF makes
                THEN [born EXCEPT ![f] = {u \in FileUsers : doing[u].step \in {"empty", "removes"}
                                             /\ doing[u].at = 0 /\ Under(f, doing[u].path)}]
                ELSE born
     /\ UNCHANGED <<lost, fileOps, walk>>

-----------------------------------------------------------------------------
(* delete_file_l: the entries that readdir gives, each in the same way, and *)
(* rmdir, which fails if there is something new.                            *)

Lists(t) ==
  /\ doing[t].step = "lists"
  /\ doing' = [doing EXCEPT ![t].step = "removes", ![t].listed = Within(doing[t].path)]
  /\ UNCHANGED <<disk, opened, born, lost, fileOps, walk>>

(* After the file: its directory, and so on (deleteEmptyDir).               *)
Deleted(t, ok) ==
  LET parent == Up(doing[t].path)
  IN IF doing[t].op = "rmtree" \/ (~ok /\ doing[t].at > 0) \/ parent = <<>> THEN Rests(t)
     ELSE doing' = [doing EXCEPT ![t].step = "checks", ![t].path = parent, ![t].at = 0]

Removes(t) ==
  /\ doing[t].step = "removes"
  /\ \E p \in Within(doing[t].path) \cup ({doing[t].path} \cap disk) :
       /\ Within(p) = {}
       /\ disk' = disk \ {p} /\ opened' = opened \ {p}
       /\ lost' = IF p \in opened /\ ~Under(p, doing[t].target) /\ p # doing[t].target
                  THEN lost \cup {<<t, p, t \in born[p]>>} ELSE lost
       /\ IF p = doing[t].path THEN Deleted(t, TRUE) ELSE UNCHANGED doing
  /\ UNCHANGED <<born, fileOps, walk>>

RemoveFails(t) ==
  /\ doing[t].step = "removes"
  /\ LET left == Within(doing[t].path)
     IN \/ doing[t].path \notin disk
        \/ left # {} /\ left \cap doing[t].listed = {}
  /\ Deleted(t, FALSE)
  /\ UNCHANGED <<disk, opened, born, lost, fileOps, walk>>

(* Mutant: a directory with files in it counts as empty too.                *)
CheckEmptyNoDirs(t) ==
  /\ doing[t].step = "checks"
  /\ LET dir == doing[t].path
     IN IF IsDirectory(dir) /\ ~ \E p \in Within(dir) : IsDirectory(p) THEN Does(t, "empty") ELSE Rests(t)
  /\ UNCHANGED <<disk, opened, born, lost, fileOps, walk>>

(* is_dir and isEmptyDir; then delete_file.                                 *)
CheckEmpty(t) ==
  /\ doing[t].step = "checks"
  /\ LET dir == doing[t].path
     IN IF IsDirectory(dir) /\ Within(dir) = {} THEN Does(t, "empty") ELSE Rests(t)
  /\ UNCHANGED <<disk, opened, born, lost, fileOps, walk>>

DeleteEmpty(t) ==
  /\ doing[t].step = "empty"
  /\ doing' = [doing EXCEPT ![t].step = "removes", ![t].listed = Within(doing[t].path)]
  /\ UNCHANGED <<disk, opened, born, lost, fileOps, walk>>

-----------------------------------------------------------------------------
(* absolutePath with an absolute current path: `said' is the path, `rest'   *)
(* what is to be looked at.  Above "/" nothing is defined, nor asked here.  *)

SayPart(part) ==
  /\ fileOps = 0 /\ walk.rest = walk.said /\ walk.now = Root /\ ~walk.ended /\ Len(walk.said) < MaxParts
  /\ walk' = [walk EXCEPT !.said = Append(@, part), !.rest = Append(@, part)]
  /\ UNCHANGED <<disk, opened, doing, born, lost, fileOps>>

(* Mutant: the depth is not looked at.                                      *)
NextPartUp(w, part) ==
  IF part \in {"", "."} THEN w.now
  ELSE IF part = ".." THEN Up(w.now) ELSE Append(w.now, part)

NextPart(w, part) ==
  IF part \in {"", "."} THEN w.now
  ELSE IF part = ".." THEN IF ~w.up /\ Len(w.now) <= Len(Root) THEN Root ELSE Up(w.now)
  ELSE Append(w.now, part)

(* ".." above the root, where that is not allowed, is the end of it.        *)
Escapes(w, part) == part = ".." /\ ~w.up /\ Len(w.now) <= Len(Root)

WalkPart ==
  /\ walk.rest # <<>> /\ ~walk.ended /\ (Head(walk.rest) = ".." => walk.now # <<>>)
  /\ LET part == Head(walk.rest)
     IN walk' = [walk EXCEPT !.now = NextPart(walk, part), !.rest = Tail(@),
                             !.ended = Escapes(walk, part) \/ Len(walk.rest) = 1]
  /\ UNCHANGED <<disk, opened, doing, born, lost, fileOps>>

FilesNext ==
  \/ \E t \in FileUsers :
       \/ \E f \in Targets, op \in {"create", "path", "delete"} : AskFile(t, op, f)
       \/ \E f \in Targets : Len(f) > 1 /\ AskFile(t, "rmtree", SubSeq(f, 1, 1))
       \/ Access(t) \/ Mkdir(t) \/ Fopen(t) \/ Lists(t) \/ Removes(t) \/ RemoveFails(t)
       \/ CheckEmpty(t) \/ DeleteEmpty(t)
  \/ \E part \in Parts : SayPart(part)
  \/ WalkPart

FilesSpec == FilesInit /\ [][FilesNext]_diskVars

-----------------------------------------------------------------------------
(* A file that nobody asked to delete is never deleted with a directory     *)
(* that was thought empty, unless it was made after the directory had been  *)
(* looked at; what is on the disk hangs together.                           *)
FilesKept ==
  /\ \A l \in lost : l[3]
  /\ \A p \in disk : IsDirectory(Up(p))

(* A path never leaves the root unless that is allowed, and names what it   *)
(* does step by step.                                                       *)
PathInRoot ==
  /\ ~walk.up => (walk.now = Root \/ Under(walk.now, Root))
  /\ (walk.ended /\ \A i \in DOMAIN walk.said : walk.said[i] # "..") =>
       walk.now = Root \o SelectSeq(walk.said, LAMBDA p : p \notin {"", "."})
=============================================================================
