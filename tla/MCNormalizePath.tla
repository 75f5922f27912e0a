-------------------------- MODULE MCNormalizePath --------------------------
(***************************************************************************)
(* The instances of NormalizePath that TLC checks, and what the comment    *)
(* "Substitute . and .. in the path" asks for: a reference that splits a   *)
(* path at its slashes and resolves "." and "..".                          *)
(***************************************************************************)
EXTENDS NormalizePath, SequencesExt

CONSTANTS a, b

(* The characters of a string up to its NUL.                               *)
Text(s) ==
  LET len == CHOOSE k \in DOMAIN s :
               s[k] = NUL /\ \A j \in 0..(k - 1) : s[j] # NUL
  IN  [i \in 1..len |-> s[i - 1]]

(* The parts of a text between its slashes, empty ones included.           *)
Split(text) ==
  FoldLeft(LAMBDA parts, c :
             IF c = Slash THEN Append(parts, <<>>)
             ELSE [parts EXCEPT ![Len(parts)] = Append(@, c)],
           <<<<>>>>, text)

Resolve(parts) ==
  FoldLeft(LAMBDA names, p :
             CASE p \in {<<>>, <<Dot>>} -> names
               [] p = <<Dot, Dot>> -> IF names = <<>> THEN names ELSE Front(names)
               [] OTHER -> Append(names, p),
           <<>>, parts)

(* No name ends in a dot, and with HasNoParent there is no "..".           *)
HasPlainNames(s) ==
  \A p \in ToSet(Split(Text(s))) :
    p # <<>> /\ Last(p) = Dot => p \in {<<Dot>>, <<Dot, Dot>>}

HasNoParent(s) == <<Dot, Dot>> \notin ToSet(Split(Text(s)))

SameNames(s, t) == Resolve(Split(Text(s))) = Resolve(Split(Text(t)))

(* The three loops of vfs_normalize_path end, and then "." is substituted: *)
(* a path without ".." still names the same file, and no slash or dot is   *)
(* left at its end.                                                        *)
DotsAreSubstituted ==
  <>(/\ pc = "done"
     /\ HasPlainNames(input) /\ HasNoParent(input)
          => /\ SameNames(path, input)
             /\ path_ptr2 # 0 => path[path_ptr2 - 1] \notin {Slash, Dot})
=============================================================================
