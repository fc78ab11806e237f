------------------------------ MODULE Archive ------------------------------
(***************************************************************************)
(* decompress() and compress(), src/archive.cpp, with the ChangeWorkingDir  *)
(* they share, src/util.cpp.                                                *)
(* Both work through names relative to the working directory, of which the  *)
(* process has one: what a name means depends on when it is used.           *)
(*                                                                          *)
(* libarchive is external: archive_write_disk creates an entry when its     *)
(* header is written, but sets the times and the mode of a directory only   *)
(* in archive_write_close(), by the name it was created under.              *)
(***************************************************************************)
EXTENDS Naturals, Sequences, FiniteSets

CONSTANTS
  Threads,  \* threads that call into the library
  Names,    \* directory names a caller may pass; relative, one component
  Folders,  \* the directories an archive, or a compressed folder, contains
  Files,    \* the regular files it contains
  MaxDepth  \* bound: directories nest at most this deep

ASSUME ArchiveAssumption ==
  /\ Folders \cap Files = {}
  /\ MaxDepth \in Nat \ {0}

VARIABLES
  cwd,      \* working directory of the process: a path below the first one
  dirs,     \* the directories there are
  pc,       \* where each thread is in its call
  op,       \* the call: its operation, its path, and the cwd it was made in
  backup,   \* ChangeWorkingDir::backup_, a sequence of paths: none or one
  todo,     \* entries the loop has not come to
  deferred, \* directories whose times and mode archive_write_close() will set
  resolved, \* entries of this call, with the directory their names meant
  fixed,    \* directories whose times were set, with the same
  packed,   \* ghost: the archive being written, named by the caller or by
            \* default, and whether it is compressed as it was asked to be
  alone     \* ghost: no two calls have overlapped

locals == <<op, backup, todo, deferred, resolved, fixed, packed>>
vars == <<cwd, dirs, pc, locals, alone>>

Entries == Folders \cup Files
Home == <<>>
Paths == UNION {[1 .. n -> Names] : n \in 0 .. MaxDepth}
Ops == [kind : {"decompress", "compress"}, to : Names \cup {""}, from : Paths]

TypeOK ==
  /\ cwd \in Paths
  /\ dirs \subseteq Paths
  /\ pc \in [Threads -> {"idle", "backup", "create", "chdir", "setup", "loop", "leave", "close"}]
  /\ op \in [Threads -> Ops]
  /\ backup \in [Threads -> {<<>>} \cup {<<p>> : p \in Paths}]
  /\ todo \in [Threads -> SUBSET Entries]
  /\ deferred \in [Threads -> SUBSET Folders]
  /\ resolved \in [Threads -> SUBSET (Entries \X Paths)]
  /\ fixed \in [Threads -> SUBSET (Folders \X Paths)]
  /\ packed \in [Threads -> SUBSET [named : BOOLEAN, asAsked : BOOLEAN]]
  /\ alone \in BOOLEAN
  /\ \A t \in Threads : pc[t] = "idle" => backup[t] = <<>> /\ deferred[t] = {} /\ packed[t] = {}

NoOp == [kind |-> "decompress", to |-> "", from |-> Home]

Init ==
  /\ cwd = Home
  /\ dirs \in {{Home} \cup {<<n>> : n \in there} : there \in SUBSET Names}
  /\ pc = [t \in Threads |-> "idle"]
  /\ op = [t \in Threads |-> NoOp]
  /\ backup = [t \in Threads |-> <<>>]
  /\ todo = [t \in Threads |-> {}]
  /\ deferred = [t \in Threads |-> {}]
  /\ resolved = [t \in Threads |-> {}]
  /\ fixed = [t \in Threads |-> {}]
  /\ packed = [t \in Threads |-> {}]
  /\ alone = TRUE

Goto(t, label) == pc' = [pc EXCEPT ![t] = label]

\* What a path argument means now, and what it meant when the call was made.
Target(t) == Append(cwd, op[t].to)
Meant(t) == IF op[t].to = "" THEN op[t].from ELSE Append(op[t].from, op[t].to)

-----------------------------------------------------------------------------
(* The two calls up to their ChangeWorkingDir.  What throws before it leaves  *)
(* nothing behind.  An empty path is decompress() without an out_dir, or      *)
(* compress() of a file or of a folder with its name, which stay where they   *)
(* are.  The archive file itself is opened, or named, before any chdir().     *)

Call(t, kind, to) ==
  /\ pc[t] = "idle"
  /\ op' = [op EXCEPT ![t] = [kind |-> kind, to |-> to, from |-> cwd]]
  /\ todo' = [todo EXCEPT ![t] = {}]
  /\ resolved' = [resolved EXCEPT ![t] = {}]
  /\ fixed' = [fixed EXCEPT ![t] = {}]
  /\ alone' = (alone /\ \A u \in Threads : pc[u] = "idle")
  /\ Goto(t, "backup")
  /\ UNCHANGED <<cwd, dirs, backup, deferred, packed>>

-----------------------------------------------------------------------------
(* ChangeWorkingDir(): does nothing for an empty path.  Thrown out of the     *)
(* constructor, an exception does not run the destructor.                     *)

\* The step that follows an exception of the constructor: decompress() has
\* its SCOPE_EXIT for the extractor, compress() nothing yet.
AfterThrow(t) == IF op[t].kind = "decompress" THEN "close" ELSE "idle"

\* The step in the new directory: the reader and the extractor are set up by
\* then, the writer of compress() is not.
Entered(t) == IF op[t].kind = "decompress" THEN "loop" ELSE "setup"

\* Entries of the archive, or of the folder compress() lists.
Loaded(t, entries) == todo' = [todo EXCEPT ![t] = entries]

Backup(t) ==
  /\ pc[t] = "backup"
  /\ IF op[t].to = ""
       THEN /\ \E entries \in SUBSET Entries : Loaded(t, entries)
            /\ Goto(t, Entered(t))
            /\ UNCHANGED backup
       ELSE /\ backup' = [backup EXCEPT ![t] = <<cwd>>]
            /\ Goto(t, "create")
            /\ UNCHANGED todo
  /\ UNCHANGED <<cwd, dirs, op, deferred, resolved, fixed, packed, alone>>

\* is_directory(), then create_directory(), which may be refused.
Create(t) ==
  /\ pc[t] = "create"
  /\ \/ /\ Target(t) \in dirs
        /\ Goto(t, "chdir")
        /\ UNCHANGED <<dirs, backup>>
     \/ /\ Target(t) \notin dirs
        /\ Len(Target(t)) <= MaxDepth
        /\ dirs' = dirs \cup {Target(t)}
        /\ Goto(t, "chdir")
        /\ UNCHANGED backup
     \/ /\ Target(t) \notin dirs
        /\ backup' = [backup EXCEPT ![t] = <<>>]
        /\ Goto(t, AfterThrow(t))
        /\ UNCHANGED dirs
  /\ UNCHANGED <<cwd, op, todo, deferred, resolved, fixed, packed, alone>>

\* Mutant of Chdir: its result not looked at.
ChdirUnchecked(t) ==
  /\ pc[t] = "chdir"
  /\ \/ Target(t) \in dirs /\ cwd' = Target(t)
     \/ UNCHANGED cwd
  /\ \E entries \in SUBSET Entries : Loaded(t, entries)
  /\ Goto(t, Entered(t))
  /\ UNCHANGED <<dirs, op, backup, deferred, resolved, fixed, packed, alone>>

Chdir(t) ==
  /\ pc[t] = "chdir"
  /\ \/ /\ Target(t) \in dirs
        /\ cwd' = Target(t)
        /\ \E entries \in SUBSET Entries : Loaded(t, entries)
        /\ Goto(t, Entered(t))
        /\ UNCHANGED backup
     \/ /\ backup' = [backup EXCEPT ![t] = <<>>]
        /\ Goto(t, AfterThrow(t))
        /\ UNCHANGED <<cwd, todo>>
  /\ UNCHANGED <<dirs, op, deferred, resolved, fixed, packed, alone>>

\* Mutant of Leave: the destructor missing.
StayThere(t) ==
  /\ pc[t] = "leave"
  /\ backup' = [backup EXCEPT ![t] = <<>>]
  /\ Goto(t, IF op[t].kind = "decompress" THEN "close" ELSE "idle")
  /\ UNCHANGED <<cwd, dirs, op, todo, deferred, resolved, fixed, packed, alone>>

\* ~ChangeWorkingDir().  decompress() made it after the SCOPE_EXIT of the
\* extractor, so it runs before; in compress() the archive is closed by then.
Leave(t) ==
  /\ pc[t] = "leave"
  /\ cwd' = IF backup[t] = <<>> THEN cwd ELSE backup[t][1]
  /\ backup' = [backup EXCEPT ![t] = <<>>]
  /\ Goto(t, IF op[t].kind = "decompress" THEN "close" ELSE "idle")
  /\ UNCHANGED <<dirs, op, todo, deferred, resolved, fixed, packed, alone>>

-----------------------------------------------------------------------------
(* The loop over the entries, and what runs when it ends or throws.           *)

EarlyReturn(t) == "idle"  \* mutant of LoopExit: a return past the guards
LoopExit(t) == IF op[t].kind = "decompress" THEN "leave" ELSE "close"

Formats == {"Zip", "The7Zip", "Tar"}
Filters == {"None", "Deflate", "Gzip", "LZMA"}

\* Mutant of NameRefused: an else in place of the throw.
NeverRefused(format, filter) == FALSE

\* compressed_file_name(), asked only for a name by default: no extension.
NameRefused(format, filter) == format = "Tar" /\ filter = "Deflate"

\* init_write_format_filter(): how the archive is compressed, or an exception.
\* For a tar and Deflate no branch is taken, and nothing compresses it.
Compression(format, filter) ==
  CASE format = "Zip" /\ filter \in {"None", "Deflate"} -> filter
    [] format = "The7Zip" /\ filter # "Gzip" -> filter
    [] format = "Tar" -> IF filter = "Deflate" THEN "None" ELSE filter
    [] OTHER -> "refused"

\* compress() between the new directory and the loop.  Its format and filter are
\* those of the call; they matter only here, once compressed_file_name(), at
\* the start of the call, has let them pass.  Any step up to
\* archive_write_open_filename() may fail.
SetUp(t) ==
  /\ pc[t] = "setup"
  /\ \E format \in Formats, filter \in Filters, named \in BOOLEAN :
       /\ named \/ ~ NameRefused(format, filter)
       /\ \/ /\ Compression(format, filter) # "refused"
             /\ packed' = [packed EXCEPT ![t] =
                  {[named |-> named, asAsked |-> Compression(format, filter) = filter]}]
             /\ Goto(t, "loop")
             /\ UNCHANGED todo
          \/ /\ Loaded(t, {})
             /\ Goto(t, LoopExit(t))
             /\ UNCHANGED packed
  /\ UNCHANGED <<cwd, dirs, op, backup, deferred, resolved, fixed, alone>>

Entry(t) ==
  /\ pc[t] = "loop"
  /\ \E e \in todo[t] :
       /\ todo' = [todo EXCEPT ![t] = @ \ {e}]
       /\ resolved' = [resolved EXCEPT ![t] = @ \cup {<<e, cwd>>}]
       /\ deferred' = IF op[t].kind = "decompress" /\ e \in Folders
                        THEN [deferred EXCEPT ![t] = @ \cup {e}] ELSE deferred
  /\ UNCHANGED <<cwd, dirs, pc, op, backup, fixed, packed, alone>>

EndLoop(t) ==
  /\ pc[t] = "loop"
  /\ todo[t] = {}
  /\ Goto(t, LoopExit(t))
  /\ UNCHANGED <<cwd, dirs, locals, alone>>

\* Any call of the loop may fail: the entries so far stay where they are.
LoopThrows(t) ==
  /\ pc[t] = "loop"
  /\ todo[t] # {}
  /\ todo' = [todo EXCEPT ![t] = {}]
  /\ Goto(t, LoopExit(t))
  /\ UNCHANGED <<cwd, dirs, op, backup, deferred, resolved, fixed, packed, alone>>

\* Mutant of Close: the list of deferred directories dropped.
CloseForgetting(t) ==
  /\ pc[t] = "close"
  /\ deferred' = [deferred EXCEPT ![t] = {}]
  /\ packed' = [packed EXCEPT ![t] = {}]
  /\ Goto(t, IF op[t].kind = "decompress" THEN "idle" ELSE "leave")
  /\ UNCHANGED <<cwd, dirs, op, backup, todo, resolved, fixed, alone>>

\* archive_write_close() of the extractor, or of the archive being written.
Close(t) ==
  /\ pc[t] = "close"
  /\ fixed' = [fixed EXCEPT ![t] = {<<e, cwd>> : e \in deferred[t]}]
  /\ deferred' = [deferred EXCEPT ![t] = {}]
  /\ packed' = [packed EXCEPT ![t] = {}]
  /\ Goto(t, IF op[t].kind = "decompress" THEN "idle" ELSE "leave")
  /\ UNCHANGED <<cwd, dirs, op, backup, todo, resolved, alone>>

Next == \E t \in Threads :
  \/ \E kind \in {"decompress", "compress"}, to \in Names \cup {""} : Call(t, kind, to)
  \/ Backup(t)
  \/ Create(t)
  \/ Chdir(t)
  \/ Leave(t)
  \/ SetUp(t)
  \/ Entry(t)
  \/ EndLoop(t)
  \/ LoopThrows(t)
  \/ Close(t)

Spec == Init /\ [][Next]_vars

-----------------------------------------------------------------------------
(* Correctness *)

\* Whatever fails, calls that do not overlap leave the working directory they
\* found.
CwdRestored == alone /\ (\A t \in Threads : pc[t] = "idle") => cwd = Home

\* In such calls every relative name the loop used meant a name in the directory
\* the caller asked for, as it was when the call was made.
EntriesInTarget ==
  alone => \A t \in Threads : \A r \in resolved[t] : r[2] = Meant(t)

\* When a decompress() has ended, normally or not, in any interleaving, exactly
\* the directories it created have been passed to the step that sets their times
\* and modes.
EveryFolderFixed ==
  \A t \in Threads : pc[t] = "idle" /\ op[t].kind = "decompress" =>
    {r[1] : r \in fixed[t]} = {r[1] : r \in resolved[t]} \cap Folders

\* While an archive with a default name is written, and so whenever its
\* extension tells how to read it, it is compressed as it was asked to be: the
\* combinations the two functions list, each for itself, agree.
NameFitsContent ==
  \A t \in Threads : \A archive \in packed[t] : archive.named \/ archive.asAsked

-----------------------------------------------------------------------------
(* What the documentation says and the code does not do *)

\* archive.h, decompress(): "out_dir: Specify the location of the decompressed
\* content", the times of its directories included (ARCHIVE_EXTRACT_TIME), and
\* at least when no two calls overlap.
FixedInTarget == alone => \A t \in Threads : \A r \in fixed[t] : r[2] = Meant(t)
=============================================================================
