---------------------------- MODULE ConfigSearch ----------------------------
(***************************************************************************)
(* find_config_path: from the scan path, as the user typed it, climb with  *)
(* Path::parent until a directory has a soroban-guard.toml, or a .git, or  *)
(* there is no parent. The kernel looks names up from the real working     *)
(* directory; Path::parent only shortens the text. The two agree on        *)
(* absolute paths.                                                         *)
(***************************************************************************)
EXTENDS Naturals, Sequences, SequencesExt

CONSTANTS
  Dirs,      \* the directories there are: sequences of names, the root is <<>>
  MaxPath,   \* bound: components of a path as typed
  None

Names == UNION {ToSet(d) : d \in Dirs}

TreeAssumption ==
  /\ <<>> \in Dirs /\ \A d \in Dirs : d \in Seq(Names)
  /\ \A d \in Dirs \ {<<>>} : Front(d) \in Dirs
  /\ {".", ".."} \cap Names = {}
  /\ MaxPath \in Nat /\ None \notin Dirs

\* A path as std::path sees it: "." survives only in front of a relative path.
Texts == {t \in [absolute : BOOLEAN, parts : BoundedSeq(Names \cup {".", ".."}, MaxPath)] :
            \A i \in DOMAIN t.parts : t.parts[i] = "." => i = 1 /\ ~t.absolute}

VARIABLES
  cwd,      \* the working directory
  tomls,    \* directories with a soroban-guard.toml
  gits,     \* directories with a .git, file or directory
  path,     \* the scan path
  to_file,  \* the scan path names a file: its last component is left out of path
  dir,      \* the directory looked at, as text
  pc,       \* "look" or "done"
  result    \* the directory whose file is used, or None

tree_vars == <<cwd, tomls, gits, path, to_file>>
vars      == <<tree_vars, dir, pc, result>>

-----------------------------------------------------------------------------
(* What the kernel makes of a path *)

Enter(at, part) ==
  CASE part = "."  -> at
    [] part = ".." -> IF at = <<>> THEN <<>> ELSE Front(at)
    [] OTHER       -> Append(at, part)

Lookup(start, parts) ==
  LET At[n \in 0 .. Len(parts)] == IF n = 0 THEN start ELSE Enter(At[n - 1], parts[n])
  IN At[Len(parts)]
Real(text) == Lookup(IF text.absolute THEN <<>> ELSE cwd, text.parts)

\* Every directory on the way has to be there.
Exists(text) ==
  \A i \in 0..Len(text.parts) : Real([text EXCEPT !.parts = SubSeq(@, 1, i)]) \in Dirs

-----------------------------------------------------------------------------

\* A relative directory has at least one component; a file may be named alone.
Init ==
  /\ cwd \in Dirs /\ tomls \in SUBSET Dirs /\ gits \in SUBSET Dirs
  /\ path \in Texts /\ to_file \in BOOLEAN
  /\ Exists(path)
  /\ path.absolute \/ path.parts # <<>> \/ to_file
  /\ dir = path
  /\ pc = "look" /\ result = None

Done(found) ==
  /\ pc' = "done" /\ result' = found
  /\ UNCHANGED <<tree_vars, dir>>

\* candidate.is_file()
Found ==
  /\ pc = "look" /\ Real(dir) \in tomls
  /\ Done(Real(dir))

GitFirst ==
  /\ pc = "look" /\ Real(dir) \in gits
  /\ Done(None)
\* The project's own root: nothing above it is looked at.
StopAtGit ==
  /\ pc = "look" /\ Real(dir) \in gits \ tomls
  /\ Done(None)

\* "/" and "" have no parent; the parent of a single component is "".
HasParent(text) == text.parts # <<>>
Parent(text)    == [text EXCEPT !.parts = SubSeq(@, 1, Len(@) - 1)]

ClimbForgetsToMove ==
  /\ pc = "look" /\ Real(dir) \notin tomls \cup gits /\ HasParent(dir)
  /\ UNCHANGED vars
Climb ==
  /\ pc = "look" /\ Real(dir) \notin tomls \cup gits /\ HasParent(dir)
  /\ dir' = Parent(dir)
  /\ UNCHANGED <<tree_vars, pc, result>>

RunOut ==
  /\ pc = "look" /\ Real(dir) \notin tomls \cup gits /\ ~HasParent(dir)
  /\ Done(None)

Next == Found \/ StopAtGit \/ Climb \/ RunOut

Spec == Init /\ [][Next]_vars /\ WF_vars(Next)

-----------------------------------------------------------------------------
(* Properties *)

\* The first of d and the directories above it, going up, that decides.
Deciding(d) == {p \in Prefixes(d) : p \in tomls \cup gits}
Nearest(d) ==
  IF Deciding(d) = {} THEN None
  ELSE LET p == CHOOSE p \in Deciding(d) : \A q \in Deciding(d) : Len(q) <= Len(p)
       IN IF p \in tomls THEN p ELSE None

Downward(text) == ".." \notin ToSet(text.parts)

\* For an absolute path without "..", the file used is the nearest one above
\* the scan path, and none from beyond a directory with a .git.
AbsoluteIsNearest ==
  pc = "done" /\ path.absolute /\ Downward(path) => result = Nearest(Real(path))

\* For a relative path without "..", a file that is used is the right one, and
\* one that is missed lies above the working directory.
RelativeIsNearestOrMissed ==
  pc = "done" /\ ~path.absolute /\ Downward(path) =>
    \/ result = Nearest(Real(path))
    \/ result = None /\ IsStrictPrefix(Nearest(Real(path)), cwd)

\* The search comes to an end: every step shortens the path.
Ends == <>(pc = "done")

\* find_config_path's comment: the nearest file, climbing through the parent
\* directories up to the root of the file system or the first .git.
NearestIsUsed == pc = "done" => result = Nearest(Real(path))
=============================================================================
