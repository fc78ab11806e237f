----------------------------- MODULE MCHelpers -----------------------------
(***************************************************************************)
(* The helpers of klib that share nothing, side by side: whoever calls one  *)
(* leaves the others as they are, so one at a time is away from its initial *)
(* state.  QrCode, extended, has its own names; the others have a letter.   *)
(***************************************************************************)
EXTENDS QrCode

CONSTANTS MaxLength, Names, Threads, MaxSize, Data

ASSUME HelpersAssumption == MaxLength \in Nat /\ MaxSize \in Nat

VARIABLES string, given, op, outcome, returned                \* Text
VARIABLES todo, read, map, reading, folder                  \* OutermostFolder
VARIABLES call, ignore, rc, errors, force, output, failed   \* HtmlTidy
VARIABLES file, doing, size, content, whole, undisturbed    \* Files
VARIABLES made, state, hashing, data, hashed, own           \* SharedHash

T == INSTANCE Text WITH text <- string, result <- returned
O == INSTANCE OutermostFolder WITH pc <- reading, result <- folder
H == INSTANCE HtmlTidy WITH pc <- call
F == INSTANCE Files WITH pc <- doing, result <- content
S == INSTANCE SharedHash WITH pc <- hashing, result <- hashed

textVars == <<string, given, op, outcome, returned>>
folderVars == <<todo, read, map, reading, folder>>
tidyVars == <<call, ignore, rc, errors, force, output, failed>>
fileVars == <<file, doing, size, content, whole, undisturbed>>
hashVars == <<made, state, hashing, data, hashed, own>>
helpersVars == <<textVars, folderVars, tidyVars, fileVars, hashVars, vars>>

HelpersInit == T!Init /\ O!Init /\ H!Init /\ F!Init /\ S!Init /\ Init

HelpersNext ==
  \/ /\ O!Init /\ H!Init /\ F!Init /\ S!Init /\ Init /\ T!Next
     /\ UNCHANGED <<folderVars, tidyVars, fileVars, hashVars, vars>>
  \/ /\ T!Init /\ H!Init /\ F!Init /\ S!Init /\ Init /\ O!Next
     /\ UNCHANGED <<textVars, tidyVars, fileVars, hashVars, vars>>
  \/ /\ T!Init /\ O!Init /\ F!Init /\ S!Init /\ Init /\ H!Next
     /\ UNCHANGED <<textVars, folderVars, fileVars, hashVars, vars>>
  \/ /\ T!Init /\ O!Init /\ H!Init /\ S!Init /\ Init /\ F!Next
     /\ UNCHANGED <<textVars, folderVars, tidyVars, hashVars, vars>>
  \/ /\ T!Init /\ O!Init /\ H!Init /\ F!Init /\ Init /\ S!Next
     /\ UNCHANGED <<textVars, folderVars, tidyVars, fileVars, vars>>
  \/ /\ T!Init /\ O!Init /\ H!Init /\ F!Init /\ S!Init /\ Next
     /\ UNCHANGED <<textVars, folderVars, tidyVars, fileVars, hashVars>>

HelpersSpec == HelpersInit /\ [][HelpersNext]_helpersVars

-----------------------------------------------------------------------------

\* Every variable of every helper keeps its type, also after a step that throws.
TypeOK == T!TypeOK /\ O!TypeOK /\ H!TypeOK /\ F!TypeOK /\ S!TypeOK

\* The trim functions of src/unicode.cpp: see Text.
TrimExact == T!TrimExact
\* What a trim function removes, or leaves when it throws: see Text.
NothingElseLost == T!NothingElseLost
\* trim() of what trim() left: see Text.
TrimIsStable == T!TrimIsStable
\* make_file_name_legal(): see Text.
NameIsLegal == T!NameIsLegal
\* outermost_folder_name(): see OutermostFolder.
OutermostExact == O!OutermostExact
\* html_tidy(): see HtmlTidy.
TidyReturnsDocument == H!TidyReturnsDocument
\* read_file() and write_file(): see Files.
ReadsWhatWasWritten == F!ReadsWhatWasWritten
\* fast_hash(): see SharedHash.
HashOfOwnData == S!HashOfOwnData
=============================================================================
