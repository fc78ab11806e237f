---------------------------- MODULE ArchiveProofs ----------------------------
(* Proofs about Archive for any threads, names, folders and files. *)
EXTENDS Archive, TLAPS

Decompresses(t) == op[t].kind = "decompress"
Named(pairs) == {r[1] : r \in pairs}

(* In any interleaving: which guards a call has at each point of it, and that   *)
(* the folders it created are those the extractor has on its list, until the    *)
(* extractor is closed.                                                         *)
Tracked(t) ==
  /\ pc[t] \in {"create", "chdir"} => op[t].to # ""
  /\ pc[t] = "setup" => ~ Decompresses(t)
  /\ ~ Decompresses(t) => deferred[t] = {}
  /\ packed[t] # {} => ~ Decompresses(t) /\ pc[t] \in {"loop", "close"}
  /\ pc[t] = "close" /\ Decompresses(t) => backup[t] = <<>>
  /\ Decompresses(t) =>
       Named(resolved[t]) \cap Folders = IF pc[t] = "idle" THEN Named(fixed[t]) ELSE deferred[t]

(* Where a call that overlaps no other has put the working directory.           *)
Outside(t) == cwd = Home /\ backup[t] = <<>>
Inside(t) == cwd = Meant(t) /\ backup[t] = IF op[t].to = "" THEN <<>> ELSE <<Home>>

Place(t) ==
  /\ op[t].from = Home
  /\ pc[t] = "backup" => Outside(t)
  /\ pc[t] \in {"create", "chdir"} => cwd = Home /\ backup[t] = <<Home>>
  /\ pc[t] \in {"setup", "loop", "leave"} => Inside(t)
  /\ pc[t] = "close" => IF Decompresses(t) THEN Outside(t) ELSE Inside(t)

InCall(t) == pc[t] # "idle"
OneCall == \A t, u \in Threads : InCall(t) /\ InCall(u) => t = u
Placed == alone => OneCall /\ \A t \in Threads : InCall(t) => Place(t)

Tracks == \A t \in Threads : Tracked(t)
IInv == TypeOK /\ Tracks /\ Placed /\ CwdRestored /\ EntriesInTarget /\ NameFitsContent

-----------------------------------------------------------------------------
(* Paths *)

LEMMA PathsAreSequences ==
  ASSUME NEW p \in Paths
  PROVE  p \in Seq(Names) /\ Len(p) \in Nat
BY ArchiveAssumption DEF Paths

LEMMA ShortIsPath ==
  ASSUME NEW p \in Seq(Names), Len(p) <= MaxDepth
  PROVE  p \in Paths
  <1>1. p \in [1 .. Len(p) -> Names] /\ Len(p) \in 0 .. MaxDepth
    BY ArchiveAssumption
  <1> QED BY <1>1 DEF Paths

LEMMA HomeIsPath == Home \in Paths
  <1>1. <<>> \in Seq(Names) /\ Len(<<>>) <= MaxDepth
    BY ArchiveAssumption
  <1> QED BY <1>1, ShortIsPath DEF Home

LEMMA NameIsPath ==
  ASSUME NEW n \in Names
  PROVE  <<n>> \in Paths
  <1>1. <<n>> \in Seq(Names) /\ Len(<<n>>) <= MaxDepth
    BY ArchiveAssumption
  <1> QED BY <1>1, ShortIsPath

-----------------------------------------------------------------------------
(* Initially *)

LEMMA InvInit == Init => IInv
  <1> SUFFICES ASSUME Init PROVE IInv
    OBVIOUS
  <1>1. NoOp \in Ops
    BY HomeIsPath DEF NoOp, Ops
  <1>2. cwd \in Paths /\ dirs \subseteq Paths
    BY HomeIsPath, NameIsPath DEF Init
  <1>3. TypeOK
    BY <1>1, <1>2 DEF Init, TypeOK
  <1>4. Tracks
    BY DEF Init, Tracks, Tracked, Decompresses, Named, NoOp
  <1>5. Placed /\ CwdRestored /\ EntriesInTarget /\ NameFitsContent
    BY DEF Init, Placed, OneCall, InCall, CwdRestored, EntriesInTarget, NameFitsContent
  <1> QED BY <1>3, <1>4, <1>5 DEF IInv

-----------------------------------------------------------------------------
(* What a step of one thread leaves of the others, and of a call that is alone *)

\* Of the other threads nothing changes that Tracked looks at.
LEMMA TracksStep ==
  ASSUME IInv, NEW t \in Threads, Tracked(t)',
         \A u \in Threads \ {t} :
           /\ pc'[u] = pc[u] /\ op'[u] = op[u] /\ backup'[u] = backup[u]
           /\ deferred'[u] = deferred[u] /\ packed'[u] = packed[u]
           /\ resolved'[u] = resolved[u] /\ fixed'[u] = fixed[u]
  PROVE  Tracks'
BY DEF IInv, Tracks, Tracked, Decompresses, Named

\* A call that goes on, or ends, and is still alone.
LEMMA PlacedStep ==
  ASSUME IInv, NEW t \in Threads, InCall(t), alone' = alone,
         \A u \in Threads \ {t} : pc'[u] = pc[u],
         alone /\ Place(t) => IF InCall(t)' THEN Place(t)' ELSE cwd' = Home
  PROVE  Placed' /\ CwdRestored'
BY DEF IInv, Placed, OneCall, InCall, CwdRestored

\* Entries that were resolved before, and archives written before.
LEMMA QuietKeeps ==
  ASSUME IInv, alone' => alone, UNCHANGED <<op, resolved, packed>>
  PROVE  EntriesInTarget' /\ NameFitsContent'
BY DEF IInv, EntriesInTarget, NameFitsContent, Meant

-----------------------------------------------------------------------------
(* The actions *)

LEMMA CallKeeps ==
  ASSUME IInv, NEW t \in Threads, NEW kind \in {"decompress", "compress"},
         NEW to \in Names \cup {""}, Call(t, kind, to)
  PROVE  IInv'
  <1>1. /\ pc[t] = "idle" /\ pc' = [pc EXCEPT ![t] = "backup"]
        /\ op' = [op EXCEPT ![t] = [kind |-> kind, to |-> to, from |-> cwd]]
        /\ todo' = [todo EXCEPT ![t] = {}]
        /\ resolved' = [resolved EXCEPT ![t] = {}]
        /\ fixed' = [fixed EXCEPT ![t] = {}]
        /\ alone' = (alone /\ \A u \in Threads : pc[u] = "idle")
        /\ UNCHANGED <<cwd, dirs, backup, deferred, packed>>
    BY DEF Call, Goto
  <1>2. TypeOK'
    <2>1. [kind |-> kind, to |-> to, from |-> cwd] \in Ops
      BY DEF IInv, TypeOK, Ops
    <2>2. alone' \in BOOLEAN
      BY <1>1, Zenon
    <2> QED BY <1>1, <2>1, <2>2 DEF IInv, TypeOK
  <1>3. op'[t] = [kind |-> kind, to |-> to, from |-> cwd] /\ pc'[t] = "backup"
    BY <1>1 DEF IInv, TypeOK
  <1>4. backup[t] = <<>> /\ deferred[t] = {} /\ packed[t] = {}
    BY <1>1 DEF IInv, TypeOK
  <1>5. Tracks'
    <2>1. Tracked(t)'
      BY <1>1, <1>3, <1>4 DEF IInv, TypeOK, Tracked, Decompresses, Named
    <2> QED BY <1>1, <2>1, TracksStep DEF IInv, TypeOK
  <1>6. ASSUME alone' PROVE alone /\ cwd = Home /\ \A u \in Threads : ~ InCall(u)
    BY <1>1, <1>6 DEF IInv, CwdRestored, InCall
  <1>7. Placed' /\ CwdRestored'
    BY <1>1, <1>3, <1>4, <1>6
       DEF IInv, TypeOK, Placed, OneCall, InCall, Place, Outside, CwdRestored
  <1>8. EntriesInTarget'
    <2> SUFFICES ASSUME alone', NEW u \in Threads, NEW r \in resolved'[u]
                 PROVE  r[2] = Meant(u)'
      BY DEF EntriesInTarget
    <2>1. u # t
      BY <1>1 DEF IInv, TypeOK
    <2>2. resolved'[u] = resolved[u] /\ op'[u] = op[u]
      BY <1>1, <2>1 DEF IInv, TypeOK
    <2> QED BY <1>6, <2>2 DEF IInv, EntriesInTarget, Meant
  <1>9. NameFitsContent'
    BY <1>1 DEF IInv, NameFitsContent
  <1> QED BY <1>2, <1>5, <1>7, <1>8, <1>9 DEF IInv

\* The steps of a call that write to no entry and to no archive.
LEMMA MoveKeeps ==
  ASSUME IInv, NEW t \in Threads, InCall(t),
         UNCHANGED <<op, deferred, resolved, fixed, packed, alone>>,
         cwd' \in Paths, dirs' \subseteq Paths,
         NEW l \in {"idle", "create", "chdir", "setup", "loop", "leave", "close"},
         pc' = [pc EXCEPT ![t] = l],
         NEW b \in {<<>>} \cup {<<p>> : p \in Paths}, backup' = [backup EXCEPT ![t] = b],
         NEW entries \in SUBSET Entries, todo' = [todo EXCEPT ![t] = entries],
         l = "idle" => ~ Decompresses(t) /\ b = <<>>,
         l \in {"create", "chdir"} => op[t].to # "",
         l = "setup" => ~ Decompresses(t),
         l = "close" /\ Decompresses(t) => b = <<>>,
         packed[t] # {} => l \in {"loop", "close"},
         alone /\ Place(t) => IF l # "idle" THEN Place(t)' ELSE cwd' = Home
  PROVE  IInv'
  <1>1. pc'[t] = l /\ backup'[t] = b
    BY DEF IInv, TypeOK
  <1>2. l = "idle" => deferred[t] = {} /\ packed[t] = {}
    BY DEF IInv, Tracks, Tracked
  <1>3. TypeOK'
    BY <1>1, <1>2 DEF IInv, TypeOK
  <1>4. Tracked(t)'
    BY <1>1 DEF IInv, Tracks, Tracked, Decompresses, Named, InCall
  <1>5. Tracks'
    BY <1>4, TracksStep DEF IInv, TypeOK
  <1>6. Placed' /\ CwdRestored'
    BY <1>1, PlacedStep DEF IInv, TypeOK, InCall
  <1> QED BY <1>3, <1>5, <1>6, QuietKeeps DEF IInv

\* packed is that of a call with a writer.
LEMMA NotYetPacked ==
  ASSUME IInv, NEW t \in Threads, pc[t] \notin {"loop", "close"}
  PROVE  packed[t] = {}
BY DEF IInv, Tracks, Tracked

LEMMA BackupKeeps ==
  ASSUME IInv, NEW t \in Threads, Backup(t)
  PROVE  IInv'
  <1>1. /\ pc[t] = "backup" /\ InCall(t) /\ packed[t] = {}
        /\ UNCHANGED <<cwd, dirs, op, deferred, resolved, fixed, packed, alone>>
    BY NotYetPacked DEF Backup, InCall
  <1>2. CASE op[t].to = ""
    <2>1. PICK entries \in SUBSET Entries : todo' = [todo EXCEPT ![t] = entries]
      BY <1>2 DEF Backup, Loaded
    <2>2. pc' = [pc EXCEPT ![t] = Entered(t)] /\ backup' = backup
      BY <1>2 DEF Backup, Goto
    <2>3. Entered(t) \in {"setup", "loop"} /\ (Entered(t) = "setup" => ~ Decompresses(t))
      BY DEF Entered, Decompresses
    <2>4. /\ backup[t] \in {<<>>} \cup {<<p>> : p \in Paths}
          /\ backup' = [backup EXCEPT ![t] = backup[t]]
      BY <2>2 DEF IInv, TypeOK
    <2>5. alone /\ Place(t) => Place(t)'
      BY <1>1, <1>2, <2>2, <2>3 DEF IInv, TypeOK, Place, Outside, Inside, Meant
    <2>6. cwd' \in Paths /\ dirs' \subseteq Paths
      BY <1>1 DEF IInv, TypeOK
    <2> HIDE DEF Entered
    <2> QED BY <1>1, <2>1, <2>2, <2>3, <2>4, <2>5, <2>6, MoveKeeps
  <1>3. CASE op[t].to # ""
    <2>1. /\ backup' = [backup EXCEPT ![t] = <<cwd>>]
          /\ pc' = [pc EXCEPT ![t] = "create"] /\ todo' = todo
      BY <1>3 DEF Backup, Goto
    <2>2. /\ todo[t] \in SUBSET Entries /\ todo' = [todo EXCEPT ![t] = todo[t]]
          /\ cwd' \in Paths /\ dirs' \subseteq Paths
          /\ <<cwd>> \in {<<>>} \cup {<<p>> : p \in Paths}
      BY <1>1, <2>1 DEF IInv, TypeOK
    <2>3. alone /\ Place(t) => Place(t)'
      BY <1>1, <1>3, <2>1 DEF IInv, TypeOK, Place, Outside
    <2> QED BY <1>1, <1>3, <2>1, <2>2, <2>3, MoveKeeps
  <1> QED BY <1>2, <1>3

\* The two ways a constructor of ChangeWorkingDir throws.
LEMMA ThrowKeeps ==
  ASSUME IInv, NEW t \in Threads, pc[t] \in {"create", "chdir"},
         backup' = [backup EXCEPT ![t] = <<>>],
         pc' = [pc EXCEPT ![t] = AfterThrow(t)],
         UNCHANGED <<cwd, dirs, op, todo, deferred, resolved, fixed, packed, alone>>
  PROVE  IInv'
  <1>1. InCall(t) /\ packed[t] = {}
    BY NotYetPacked DEF InCall
  <1>2. /\ AfterThrow(t) \in {"idle", "close"}
        /\ AfterThrow(t) = "idle" => ~ Decompresses(t)
        /\ AfterThrow(t) = "close" => Decompresses(t)
    BY DEF AfterThrow, Decompresses
  <1>3. /\ todo[t] \in SUBSET Entries /\ todo' = [todo EXCEPT ![t] = todo[t]]
        /\ cwd' \in Paths /\ dirs' \subseteq Paths
    BY DEF IInv, TypeOK
  <1>4. alone /\ Place(t) => IF AfterThrow(t) # "idle" THEN Place(t)' ELSE cwd' = Home
    BY <1>2 DEF IInv, TypeOK, Place, Outside, Decompresses
  <1> QED BY <1>1, <1>2, <1>3, <1>4, MoveKeeps

LEMMA CreateKeeps ==
  ASSUME IInv, NEW t \in Threads, Create(t)
  PROVE  IInv'
  <1>1. /\ pc[t] = "create" /\ InCall(t) /\ packed[t] = {}
        /\ UNCHANGED <<cwd, op, todo, deferred, resolved, fixed, packed, alone>>
    BY NotYetPacked DEF Create, InCall
  <1>2. op[t].to # ""
    BY <1>1 DEF IInv, Tracks, Tracked
  <1>3. CASE /\ pc' = [pc EXCEPT ![t] = "chdir"] /\ backup' = backup
             /\ dirs' \in {dirs, dirs \cup {Target(t)}}
             /\ dirs' # dirs => Len(Target(t)) <= MaxDepth
    <2>1. dirs' \subseteq Paths
      <3>1. CASE dirs' = dirs
        BY <3>1 DEF IInv, TypeOK
      <3>2. CASE dirs' # dirs
        <4>1. op[t].to \in Names /\ cwd \in Seq(Names)
          BY <1>2, PathsAreSequences DEF IInv, TypeOK, Ops
        <4>2. Target(t) \in Seq(Names)
          BY <4>1 DEF Target
        <4>3. Target(t) \in Paths
          BY <1>3, <3>2, <4>2, ShortIsPath
        <4> QED BY <1>3, <4>3 DEF IInv, TypeOK
      <3> QED BY <3>1, <3>2
    <2>2. /\ todo[t] \in SUBSET Entries /\ todo' = [todo EXCEPT ![t] = todo[t]]
          /\ backup[t] \in {<<>>} \cup {<<p>> : p \in Paths}
          /\ backup' = [backup EXCEPT ![t] = backup[t]]
          /\ cwd' \in Paths
      BY <1>1, <1>3 DEF IInv, TypeOK
    <2>3. alone /\ Place(t) => Place(t)'
      BY <1>1, <1>3 DEF IInv, TypeOK, Place
    <2> QED BY <1>1, <1>3, <1>2, <2>1, <2>2, <2>3, MoveKeeps
  <1>4. CASE /\ pc' = [pc EXCEPT ![t] = AfterThrow(t)] /\ dirs' = dirs
             /\ backup' = [backup EXCEPT ![t] = <<>>]
    BY <1>1, <1>4, ThrowKeeps
  <1> QED BY <1>3, <1>4, <1>2 DEF Create, Goto

LEMMA ChdirKeeps ==
  ASSUME IInv, NEW t \in Threads, Chdir(t)
  PROVE  IInv'
  <1>1. /\ pc[t] = "chdir" /\ InCall(t) /\ packed[t] = {} /\ op[t].to # ""
        /\ UNCHANGED <<dirs, op, deferred, resolved, fixed, packed, alone>>
    BY NotYetPacked DEF Chdir, InCall, IInv, Tracks, Tracked
  <1>2. ASSUME NEW entries \in SUBSET Entries, todo' = [todo EXCEPT ![t] = entries],
               Target(t) \in dirs, cwd' = Target(t), backup' = backup,
               pc' = [pc EXCEPT ![t] = Entered(t)]
        PROVE  IInv'
    <2>1. /\ Entered(t) \in {"setup", "loop"}
          /\ Entered(t) = "setup" => ~ Decompresses(t)
      BY DEF Entered, Decompresses
    <2>2. /\ cwd' \in Paths /\ dirs' \subseteq Paths
          /\ backup[t] \in {<<>>} \cup {<<p>> : p \in Paths}
          /\ backup' = [backup EXCEPT ![t] = backup[t]]
      BY <1>1, <1>2 DEF IInv, TypeOK
    <2>3. alone /\ Place(t) => Place(t)'
      BY <1>1, <1>2, <2>1 DEF IInv, TypeOK, Place, Inside, Meant, Target
    <2> HIDE DEF Entered
    <2> QED BY <1>1, <1>2, <2>1, <2>2, <2>3, MoveKeeps
  <1>3. CASE /\ backup' = [backup EXCEPT ![t] = <<>>]
             /\ pc' = [pc EXCEPT ![t] = AfterThrow(t)]
             /\ UNCHANGED <<cwd, todo>>
    BY <1>1, <1>3, ThrowKeeps
  <1> QED BY <1>2, <1>3 DEF Chdir, Goto, Loaded

\* ~ChangeWorkingDir() puts the directory back, if anyone was to change it.
LEMMA LeaveKeeps ==
  ASSUME IInv, NEW t \in Threads, Leave(t)
  PROVE  IInv'
  <1> DEFINE l == IF op[t].kind = "decompress" THEN "close" ELSE "idle"
  <1>1. /\ pc[t] = "leave" /\ InCall(t) /\ packed[t] = {}
        /\ cwd' = IF backup[t] = <<>> THEN cwd ELSE backup[t][1]
        /\ backup' = [backup EXCEPT ![t] = <<>>]
        /\ pc' = [pc EXCEPT ![t] = l]
        /\ UNCHANGED <<dirs, op, todo, deferred, resolved, fixed, packed, alone>>
    BY NotYetPacked DEF Leave, Goto, InCall
  <1>2. /\ l \in {"close", "idle"}
        /\ l = "close" <=> Decompresses(t)
    BY DEF Decompresses
  <1>3. cwd' \in Paths
    <2>1. backup[t] = <<>> \/ \E p \in Paths : backup[t] = <<p>>
      BY DEF IInv, TypeOK
    <2> QED BY <1>1, <2>1 DEF IInv, TypeOK
  <1>4. /\ todo[t] \in SUBSET Entries /\ todo' = [todo EXCEPT ![t] = todo[t]]
        /\ dirs' \subseteq Paths
    BY <1>1 DEF IInv, TypeOK
  <1>5. alone /\ Place(t) => cwd' = Home
    <2>1. <<Home>> # <<>> /\ <<Home>>[1] = Home
      OBVIOUS
    <2> QED BY <1>1, <2>1 DEF Place, Inside, Meant
  <1>6. alone /\ Place(t) => IF l # "idle" THEN Place(t)' ELSE cwd' = Home
    BY <1>1, <1>2, <1>5 DEF IInv, TypeOK, Place, Outside, Decompresses
  <1> HIDE DEF l
  <1> QED BY <1>1, <1>2, <1>3, <1>4, <1>6, MoveKeeps

\* The ends of the loop: the guards that are there run.
LEMMA LoopEndKeeps ==
  ASSUME IInv, NEW t \in Threads, pc[t] \in {"setup", "loop"},
         NEW entries \in SUBSET Entries, todo' = [todo EXCEPT ![t] = entries],
         pc' = [pc EXCEPT ![t] = LoopExit(t)],
         UNCHANGED <<cwd, dirs, op, backup, deferred, resolved, fixed, packed, alone>>
  PROVE  IInv'
  <1>1. InCall(t)
    BY DEF InCall
  <1>2. /\ LoopExit(t) \in {"leave", "close"}
        /\ LoopExit(t) = "close" <=> ~ Decompresses(t)
    BY DEF LoopExit, Decompresses
  <1>3. /\ backup[t] \in {<<>>} \cup {<<p>> : p \in Paths}
        /\ backup' = [backup EXCEPT ![t] = backup[t]]
        /\ cwd' \in Paths /\ dirs' \subseteq Paths
    BY DEF IInv, TypeOK
  <1>4. packed[t] # {} => LoopExit(t) \in {"loop", "close"}
    BY <1>2 DEF IInv, Tracks, Tracked
  <1>5. alone /\ Place(t) => Place(t)'
    BY <1>2 DEF IInv, TypeOK, Place, Inside, Meant, Decompresses
  <1> HIDE DEF LoopExit
  <1> QED BY <1>1, <1>2, <1>3, <1>4, <1>5, MoveKeeps

\* An archive with a default name is compressed as asked, or not at all: the only
\* filter that nothing applies is the one compressed_file_name() refuses.
LEMMA NamesAndFilters ==
  ASSUME NEW format \in Formats, NEW filter \in Filters,
         ~ NameRefused(format, filter), Compression(format, filter) # "refused"
  PROVE  Compression(format, filter) = filter
  <1>1. CASE format = "Zip"
    BY <1>1 DEF Compression, Formats, Filters
  <1>2. CASE format = "The7Zip"
    BY <1>2 DEF Compression, Formats, Filters
  <1>3. CASE format = "Tar"
    BY <1>3 DEF Compression, NameRefused
  <1> QED BY <1>1, <1>2, <1>3 DEF Formats

LEMMA SetUpKeeps ==
  ASSUME IInv, NEW t \in Threads, SetUp(t)
  PROVE  IInv'
  <1>1. PICK format \in Formats, filter \in Filters, named \in BOOLEAN :
          /\ named \/ ~ NameRefused(format, filter)
          /\ \/ /\ Compression(format, filter) # "refused"
                /\ packed' = [packed EXCEPT ![t] =
                     {[named |-> named, asAsked |-> Compression(format, filter) = filter]}]
                /\ Goto(t, "loop")
                /\ UNCHANGED todo
             \/ Loaded(t, {}) /\ Goto(t, LoopExit(t)) /\ UNCHANGED packed
    BY DEF SetUp
  <1>2. /\ pc[t] = "setup" /\ InCall(t) /\ ~ Decompresses(t)
        /\ UNCHANGED <<cwd, dirs, op, backup, deferred, resolved, fixed, alone>>
    BY DEF SetUp, InCall, IInv, Tracks, Tracked
  <1>3. CASE Loaded(t, {}) /\ Goto(t, LoopExit(t)) /\ UNCHANGED packed
    BY <1>2, <1>3, LoopEndKeeps DEF Loaded, Goto
  <1>4. ASSUME NEW asAsked \in BOOLEAN, named \/ asAsked,
               packed' = [packed EXCEPT ![t] = {[named |-> named, asAsked |-> asAsked]}],
               pc' = [pc EXCEPT ![t] = "loop"], todo' = todo
        PROVE  IInv'
    <2>1. TypeOK'
      BY <1>2, <1>4 DEF IInv, TypeOK
    <2>2. pc'[t] = "loop"
      BY <1>4 DEF IInv, TypeOK
    <2>3. Tracked(t)'
      BY <1>2, <2>2 DEF IInv, Tracks, Tracked, Decompresses, Named
    <2>4. Tracks'
      BY <1>2, <1>4, <2>3, TracksStep DEF IInv, TypeOK
    <2>5. alone /\ Place(t) => Place(t)'
      BY <1>2, <2>2 DEF Place, Inside, Meant
    <2>6. Placed' /\ CwdRestored'
      BY <1>2, <1>4, <2>2, <2>5, PlacedStep DEF IInv, TypeOK, InCall
    <2>7. EntriesInTarget'
      BY <1>2 DEF IInv, EntriesInTarget, Meant
    <2>8. NameFitsContent'
      BY <1>4 DEF IInv, TypeOK, NameFitsContent
    <2> QED BY <2>1, <2>4, <2>6, <2>7, <2>8 DEF IInv
  <1>5. ASSUME Compression(format, filter) # "refused"
        PROVE  named \/ Compression(format, filter) = filter
    BY <1>1, <1>5, NamesAndFilters
  <1> HIDE DEF Compression
  <1>6. (Compression(format, filter) = filter) \in BOOLEAN
    OBVIOUS
  <1> QED BY <1>1, <1>2, <1>3, <1>4, <1>5, <1>6 DEF Goto

LEMMA EntryKeeps ==
  ASSUME IInv, NEW t \in Threads, Entry(t)
  PROVE  IInv'
  <1>1. PICK e \in todo[t] :
          /\ todo' = [todo EXCEPT ![t] = @ \ {e}]
          /\ resolved' = [resolved EXCEPT ![t] = @ \cup {<<e, cwd>>}]
          /\ deferred' = IF Decompresses(t) /\ e \in Folders
                           THEN [deferred EXCEPT ![t] = @ \cup {e}] ELSE deferred
    BY DEF Entry, Decompresses
  <1>2. /\ pc[t] = "loop" /\ InCall(t)
        /\ UNCHANGED <<cwd, dirs, pc, op, backup, fixed, packed, alone>>
    BY DEF Entry, InCall
  <1>3. e \in Entries /\ <<e, cwd>> \in Entries \X Paths
    BY <1>1 DEF IInv, TypeOK
  <1>4. TypeOK'
    BY <1>1, <1>2, <1>3 DEF IInv, TypeOK
  <1>5. Named(resolved'[t]) = Named(resolved[t]) \cup {e}
    <2>1. resolved'[t] = resolved[t] \cup {<<e, cwd>>} /\ <<e, cwd>>[1] = e
      BY <1>1 DEF IInv, TypeOK
    <2>2. Named(resolved'[t]) \subseteq Named(resolved[t]) \cup {e}
      BY <2>1 DEF Named
    <2>3. e \in Named(resolved'[t])
      BY <2>1 DEF Named
    <2>4. Named(resolved[t]) \subseteq Named(resolved'[t])
      BY <2>1 DEF Named
    <2> QED BY <2>2, <2>3, <2>4
  <1>6. Tracked(t)'
    <2>1. ASSUME Decompresses(t) PROVE Named(resolved'[t]) \cap Folders = deferred'[t]
      <3>1. Named(resolved[t]) \cap Folders = deferred[t]
        BY <1>2, <2>1 DEF IInv, Tracks, Tracked
      <3>2. deferred'[t] = IF e \in Folders THEN deferred[t] \cup {e} ELSE deferred[t]
        BY <1>1, <2>1 DEF IInv, TypeOK
      <3> QED BY <1>5, <3>1, <3>2
    <2>2. ~ Decompresses(t) => deferred'[t] = {}
      BY <1>1 DEF IInv, Tracks, Tracked
    <2> QED BY <1>2, <2>1, <2>2 DEF IInv, Tracks, Tracked, Decompresses, Named
  <1>7. Tracks'
    BY <1>1, <1>2, <1>6, TracksStep DEF IInv, TypeOK
  <1>8. alone /\ Place(t) => Place(t)'
    BY <1>2 DEF Place, Inside, Outside, Meant, Decompresses
  <1>9. Placed' /\ CwdRestored'
    BY <1>2, <1>8, PlacedStep DEF InCall
  <1>10. EntriesInTarget'
    <2> SUFFICES ASSUME alone, NEW u \in Threads, NEW r \in resolved'[u]
                 PROVE  r[2] = Meant(u)
      BY <1>2 DEF EntriesInTarget, Meant
    <2>1. cwd = Meant(t)
      BY <1>2 DEF IInv, Placed, Place, Inside
    <2>2. r \in resolved[u] \/ (u = t /\ r = <<e, cwd>>)
      BY <1>1 DEF IInv, TypeOK
    <2> QED BY <2>1, <2>2 DEF IInv, EntriesInTarget
  <1>11. NameFitsContent'
    BY <1>2 DEF IInv, NameFitsContent
  <1> QED BY <1>4, <1>7, <1>9, <1>10, <1>11 DEF IInv

LEMMA CloseKeeps ==
  ASSUME IInv, NEW t \in Threads, Close(t)
  PROVE  IInv'
  <1> DEFINE l == IF op[t].kind = "decompress" THEN "idle" ELSE "leave"
  <1>1. /\ pc[t] = "close" /\ InCall(t)
        /\ fixed' = [fixed EXCEPT ![t] = {<<e, cwd>> : e \in deferred[t]}]
        /\ deferred' = [deferred EXCEPT ![t] = {}]
        /\ packed' = [packed EXCEPT ![t] = {}]
        /\ pc' = [pc EXCEPT ![t] = l]
        /\ UNCHANGED <<cwd, dirs, op, backup, todo, resolved, alone>>
    BY DEF Close, Goto, InCall
  <1>2. l \in {"idle", "leave"} /\ (l = "idle" <=> Decompresses(t))
    BY DEF Decompresses
  <1>3. /\ pc'[t] = l /\ deferred'[t] = {} /\ packed'[t] = {}
        /\ fixed'[t] = {<<e, cwd>> : e \in deferred[t]}
    BY <1>1 DEF IInv, TypeOK
  <1> HIDE DEF l
  <1>4. l = "idle" => backup[t] = <<>>
    BY <1>1, <1>2 DEF IInv, Tracks, Tracked
  <1>5. TypeOK'
    <2>1. {<<e, cwd>> : e \in deferred[t]} \subseteq Folders \X Paths
      BY DEF IInv, TypeOK
    <2>2. fixed' \in [Threads -> SUBSET (Folders \X Paths)]
      BY <1>1, <2>1 DEF IInv, TypeOK
    <2> QED BY <1>1, <1>2, <1>3, <1>4, <2>2 DEF IInv, TypeOK
  <1>6. Named(fixed'[t]) = deferred[t]
    <2>1. ASSUME NEW n \in Named(fixed'[t]) PROVE n \in deferred[t]
      <3>1. PICK r \in fixed'[t] : n = r[1]
        BY DEF Named
      <3> QED BY <1>3, <3>1
    <2>2. ASSUME NEW e \in deferred[t] PROVE e \in Named(fixed'[t])
      <3>1. <<e, cwd>> \in fixed'[t] /\ <<e, cwd>>[1] = e
        BY <1>3
      <3> QED BY <3>1 DEF Named
    <2> QED BY <2>1, <2>2
  <1>7. Tracked(t)'
    BY <1>1, <1>2, <1>3, <1>6 DEF IInv, Tracks, Tracked, Decompresses, Named
  <1>8. Tracks'
    BY <1>1, <1>7, TracksStep DEF IInv, TypeOK
  <1>9. alone /\ Place(t) => IF l # "idle" THEN Place(t)' ELSE cwd' = Home
    BY <1>1, <1>2, <1>3 DEF Place, Inside, Outside, Meant, Decompresses
  <1>10. Placed' /\ CwdRestored'
    BY <1>1, <1>3, <1>9, PlacedStep DEF IInv, TypeOK, InCall
  <1>11. EntriesInTarget'
    BY <1>1 DEF IInv, EntriesInTarget, Meant
  <1>12. NameFitsContent'
    BY <1>1 DEF IInv, TypeOK, NameFitsContent
  <1> QED BY <1>5, <1>8, <1>10, <1>11, <1>12 DEF IInv

-----------------------------------------------------------------------------

LEMMA InvStep == IInv /\ [Next]_vars => IInv'
  <1> SUFFICES ASSUME IInv, [Next]_vars PROVE IInv'
    OBVIOUS
  <1>1. ASSUME NEW t \in Threads, EndLoop(t) PROVE IInv'
    <2>1. todo[t] \in SUBSET Entries /\ todo' = [todo EXCEPT ![t] = todo[t]]
      BY <1>1 DEF EndLoop, locals, IInv, TypeOK
    <2> QED BY <1>1, <2>1, LoopEndKeeps DEF EndLoop, Goto, locals
  <1>2. ASSUME NEW t \in Threads, LoopThrows(t) PROVE IInv'
    BY <1>2, LoopEndKeeps DEF LoopThrows, Goto
  <1>3. CASE UNCHANGED vars
    <2>1. TypeOK' /\ Tracks'
      BY <1>3 DEF vars, locals, IInv, TypeOK, Tracks, Tracked, Decompresses, Named
    <2>2. Placed' /\ CwdRestored'
      BY <1>3 DEF vars, locals, IInv, Placed, OneCall, InCall, Place, Inside, Outside,
                  Meant, Decompresses, CwdRestored
    <2>3. EntriesInTarget' /\ NameFitsContent'
      BY <1>3, QuietKeeps DEF vars, locals
    <2> QED BY <2>1, <2>2, <2>3 DEF IInv
  <1> QED
    BY <1>1, <1>2, <1>3, CallKeeps, BackupKeeps, CreateKeeps, ChdirKeeps, LeaveKeeps,
       SetUpKeeps, EntryKeeps, CloseKeeps DEF Next

\* The inductive invariant of Archive: what is on the lists of a call at each of
\* its points, and, as long as calls do not overlap, where the process is.
THEOREM Invariant == Spec => []IInv
  <1> QED BY InvInit, InvStep, PTL DEF Spec

\* Every variable of Archive keeps its type, for any threads, names and depth.
THEOREM TypeCorrect == Spec => []TypeOK
  <1>1. IInv => TypeOK
    BY DEF IInv
  <1> QED BY <1>1, Invariant, PTL

\* Calls that do not overlap leave the working directory they found, wherever
\* they throw.
THEOREM DirectoryRestored == Spec => []CwdRestored
  <1>1. IInv => CwdRestored
    BY DEF IInv
  <1> QED BY <1>1, Invariant, PTL

\* Their relative names meant names in the directory the caller asked for.
THEOREM NamesMeantTarget == Spec => []EntriesInTarget
  <1>1. IInv => EntriesInTarget
    BY DEF IInv
  <1> QED BY <1>1, Invariant, PTL

\* However calls interleave, exactly the folders a decompress() created are passed
\* to the step that sets their times.
THEOREM FoldersFixed == Spec => []EveryFolderFixed
  <1>1. IInv => EveryFolderFixed
    <2> SUFFICES ASSUME IInv, NEW t \in Threads, pc[t] = "idle", Decompresses(t)
                 PROVE  Named(fixed[t]) = Named(resolved[t]) \cap Folders
      BY DEF EveryFolderFixed, Named, Decompresses
    <2> QED BY DEF IInv, Tracks, Tracked
  <1> QED BY <1>1, Invariant, PTL

\* No archive with a default name is compressed otherwise than its name says.
THEOREM NamesTrue == Spec => []NameFitsContent
  <1>1. IInv => NameFitsContent
    BY DEF IInv
  <1> QED BY <1>1, Invariant, PTL
=============================================================================
