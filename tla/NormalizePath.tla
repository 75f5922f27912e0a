--------------------------- MODULE NormalizePath ---------------------------
(***************************************************************************)
(* vfs_normalize_path, which every call of the virtual file system that    *)
(* takes a path runs first: it rewrites the path in place, reading at      *)
(* path_ptr and writing at path_ptr2, and then cuts it off.  One step is   *)
(* one turn of one of its loops.  A path is a function from 0, with NUL    *)
(* at its end, as the string is.                                           *)
(***************************************************************************)
EXTENDS Integers

CONSTANTS
  Letter,   \* characters of names
  Slash, Dot, NUL,
  Length    \* the lengths of the paths given

ASSUME PathAssumption ==
  /\ Length \subseteq Nat
  /\ Slash \notin Letter /\ Dot \notin Letter /\ NUL \notin Letter
  /\ Slash # Dot /\ Slash # NUL /\ Dot # NUL

VARIABLES
  input,      \* the path as it was given
  n,          \* its length
  path,       \* the string
  path_ptr,   \* where it is read
  path_ptr2,  \* where it is written
  pc          \* the loop that runs

pathVars == <<input, n, path, path_ptr, path_ptr2, pc>>

Char == Letter \cup {Slash, Dot}

PathInit ==
  /\ n \in Length
  /\ \E s \in [0..(n - 1) -> Char] :
       input = [i \in 0..n |-> IF i < n THEN s[i] ELSE NUL]
  /\ path = input
  /\ path_ptr = 0
  /\ path_ptr2 = 0
  /\ pc = "copy"

(* What is read next: "./", or "../".                                      *)
AtDot == path[path_ptr] = Dot /\ path[path_ptr + 1] = Slash

AtParent ==
  /\ path[path_ptr] = Dot
  /\ path[path_ptr + 1] = Dot
  /\ path[path_ptr + 2] = Slash

(* The loops that step path_ptr2 back go on.                               *)
InsideName == path_ptr2 # 0 /\ path[path_ptr2 - 1] # Slash
AtTrailer  == path_ptr2 # 0 /\ path[path_ptr2 - 1] \in {Slash, Dot}

(* A skip that also takes back the slash before the dot.                   *)
SkipDotAndSlash ==
  /\ pc = "copy" /\ path[path_ptr] # NUL
  /\ AtDot
  /\ path_ptr' = path_ptr + 2
  /\ path_ptr2' = IF path_ptr2 = 0 THEN 0 ELSE path_ptr2 - 1
  /\ UNCHANGED <<input, n, path, pc>>

SkipDot ==
  /\ pc = "copy" /\ path[path_ptr] # NUL
  /\ AtDot
  /\ path_ptr' = path_ptr + 2
  /\ UNCHANGED <<input, n, path, path_ptr2, pc>>

SkipParent ==
  /\ pc = "copy" /\ path[path_ptr] # NUL
  /\ ~AtDot
  /\ AtParent
  /\ path_ptr' = path_ptr + 3
  /\ pc' = "back"
  /\ UNCHANGED <<input, n, path, path_ptr2>>

(* A copy that takes the two characters of a dot and its neighbour.        *)
CopyTwo ==
  /\ pc = "copy" /\ path[path_ptr] # NUL
  /\ ~AtDot /\ ~AtParent
  /\ path' = [path EXCEPT ![path_ptr2] = path[path_ptr]]
  /\ path_ptr' = path_ptr + (IF path[path_ptr] = Dot THEN 2 ELSE 1)
  /\ path_ptr2' = path_ptr2 + 1
  /\ UNCHANGED <<input, n, pc>>

Copy ==
  /\ pc = "copy" /\ path[path_ptr] # NUL
  /\ ~AtDot /\ ~AtParent
  /\ path' = [path EXCEPT ![path_ptr2] = path[path_ptr]]
  /\ path_ptr' = path_ptr + 1
  /\ path_ptr2' = path_ptr2 + 1
  /\ UNCHANGED <<input, n, pc>>

(* The loop for "..", which steps back to just behind a slash, also when   *)
(* it stands there already.                                                *)
StepBack ==
  /\ pc = "back"
  /\ InsideName
  /\ path_ptr2' = path_ptr2 - 1
  /\ UNCHANGED <<input, n, path, path_ptr, pc>>

BackEnds ==
  /\ pc = "back"
  /\ ~InsideName
  /\ pc' = "copy"
  /\ UNCHANGED <<input, n, path, path_ptr, path_ptr2>>

CopyEnds ==
  /\ pc = "copy" /\ path[path_ptr] = NUL
  /\ pc' = "trim"
  /\ UNCHANGED <<input, n, path, path_ptr, path_ptr2>>

(* Trailing slashes and dots go.                                           *)
Trim ==
  /\ pc = "trim"
  /\ AtTrailer
  /\ path_ptr2' = path_ptr2 - 1
  /\ UNCHANGED <<input, n, path, path_ptr, pc>>

TrimEnds ==
  /\ pc = "trim"
  /\ ~AtTrailer
  /\ path' = [path EXCEPT ![path_ptr2] = NUL]
  /\ pc' = "done"
  /\ UNCHANGED <<input, n, path_ptr, path_ptr2>>

PathStep ==
  \/ SkipDot \/ SkipParent \/ Copy
  \/ StepBack \/ BackEnds
  \/ CopyEnds
  \/ Trim \/ TrimEnds

(* The function runs to its end once it is called.                         *)
NormalizeSpec == PathInit /\ [][PathStep]_pathVars /\ WF_pathVars(PathStep)

-----------------------------------------------------------------------------
(* The writing never overtakes the reading or leaves the string: what is   *)
(* still to be read is as it was given, and its NUL is still in its place  *)
(* until the path is cut off (vfs_normalize_path, which has no length).    *)
RewritesInPlace ==
  /\ 0 <= path_ptr2 /\ path_ptr2 <= path_ptr /\ path_ptr <= n
  /\ pc # "done" => \A i \in path_ptr..n : path[i] = input[i]

=============================================================================
