-------------------------- MODULE OutermostFolder --------------------------
(***************************************************************************)
(* outermost_folder_name(), src/archive.cpp: it reads the headers of an     *)
(* archive one after the other and keeps, for the top level name of each,   *)
(* what the first of them says of it.  Their order is that of the archive,  *)
(* any: a folder may come after what is in it, or not at all.               *)
(* libarchive is external: the headers, and a failure to read the next one. *)
(***************************************************************************)
EXTENDS Naturals, Sequences, FiniteSets, Functions

CONSTANT Names  \* names of files and folders

VARIABLES
  todo,   \* headers of the archive that have not been read
  read,   \* ghost: those that have been
  map,    \* top level name -> is it a folder
  pc,     \* "none", "reading", "done", "threw"
  result  \* the names returned: none or one

vars == <<todo, read, map, pc, result>>

\* A path is a sequence of names; that of a folder may end in a slash, which makes
\* an empty name.  archive_entry_filetype() tells a folder.
Inside == Names \cup {""}
Paths == {<<n>> : n \in Names} \cup (Names \X Inside)
Headers == [path : Paths, dir : BOOLEAN]

\* What a tree of files and folders looks like in an archive.
InFolder(h, n) == h.path[1] = n /\ Len(h.path) > 1
Archives ==
  {a \in SUBSET Headers :
     /\ \A h \in a : h.path[Len(h.path)] = "" => h.dir
     /\ \A h, g \in a :
          /\ h.path = g.path => h = g
          /\ Len(g.path) = 1 /\ InFolder(h, g.path[1]) => g.dir}

TypeOK ==
  /\ todo \subseteq Headers /\ read \subseteq Headers
  /\ DOMAIN map \subseteq Names /\ \A n \in DOMAIN map : map[n] \in BOOLEAN
  /\ pc \in {"none", "reading", "done", "threw"}
  /\ result \subseteq Names /\ Cardinality(result) <= 1

Init ==
  /\ todo = {} /\ read = {} /\ result = {}
  /\ map = <<>>
  /\ pc = "none"

Open ==
  /\ pc = "none"
  /\ todo' \in Archives
  /\ pc' = "reading"
  /\ UNCHANGED <<read, map, result>>

HasParent(path) == Len(path) > 1
ParentOf(path) == SubSeq(path, 1, Len(path) - 1)

\* Up the parents of a relative path.  Those of one from the root never end.
get_top_level_dir(path) ==
  LET top[n \in 1 .. Len(path)] ==
        IF HasParent(SubSeq(path, 1, n)) THEN top[n - 1] ELSE path[n]
  IN  top[Len(path)]

IsDir(h) == h.dir  \* mutant of IsFolder: the type of the entry alone
IsFolder(h) == h.path # <<get_top_level_dir(h.path)>> \/ h.dir

\* emplace() does nothing for a name it has.
Header(h) ==
  LET top == get_top_level_dir(h.path)
  IN  /\ pc = "reading"
      /\ todo' = todo \ {h}
      /\ read' = read \cup {h}
      /\ map' = IF top \in DOMAIN map THEN map
                ELSE [n \in DOMAIN map \cup {top} |-> IF n = top THEN IsFolder(h) ELSE map[n]]
      /\ UNCHANGED <<pc, result>>

ReadFails ==
  /\ pc = "reading"
  /\ pc' = "threw"
  /\ UNCHANGED <<todo, read, map, result>>

EveryFolder(m) == {n \in DOMAIN m : m[n]}  \* mutant of OnlyFolder: any number
OnlyFolder(m) == {n \in DOMAIN m : DOMAIN m = {n} /\ m[n]}

End ==
  /\ pc = "reading"
  /\ todo = {}
  /\ pc' = "done"
  /\ result' = OnlyFolder(map)
  /\ UNCHANGED <<todo, read, map>>

Next == Open \/ (\E h \in todo : Header(h)) \/ ReadFails \/ End

Spec == Init /\ [][Next]_vars

-----------------------------------------------------------------------------
(* Correctness *)

\* A name is returned exactly if unpacking puts one thing into the target, and that
\* is a folder of this name -- in whatever order the entries come, listed or not.
OutermostExact ==
  pc = "done" =>
    LET made == {h.path[1] : h \in read}
    IN  result = {n \in made : made = {n} /\ \E h \in read : InFolder(h, n) \/ h.dir}
=============================================================================
