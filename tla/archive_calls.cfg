SPECIFICATION Spec
CONSTANTS
  Threads = {t1, t2}
  Names = {"a"}
  Folders = {d1}
  Files = {f1}
  MaxDepth = 2
INVARIANTS TypeOK CwdRestored EntriesInTarget EveryFolderFixed NameFitsContent
