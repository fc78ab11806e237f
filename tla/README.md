# klib in TLA+

klib is a C++ library of wrappers: small classes and functions around SQLite,
libcurl, libarchive, BoringSSL, libqrencode and others. Little of it runs by
itself; what can go wrong lies in how its calls are put together. Objects die in
an order the client chooses, options and errors stay behind on a handle after a
call has thrown, names depend on a working directory that the whole process
shares, buffers are sized before they are filled. The modules here model klib's
own control and treat the libraries underneath as external: operators under a
heading with the library's name say what the calls klib makes do.

Paths such as `sql.cpp:198` are short for `src/src/sql.cpp`, those of headers
for `src/include/klib/`.

## The system

| component | state | operations | what is hard | what makes it correct |
|---|---|---|---|---|
| sql (`sql.cpp`) | `db_` of a SqlDatabase; `stmt_`, `column_count_` of each SqlQuery; the raw statement in a Column | open, exec, transactions, prepare, bind, step, read, finalize, destroy | objects die in any order, finalize throws half way, errors stay on a statement | no use of freed memory, nothing leaked, only COMMIT publishes |
| http (`http.cpp`) | a libcurl handle with sticky options; libcurl's global count; the cookie file | construct, get, post, post_mime, destroy | scope guards after a throw, several Requests | what is sent is what was asked for; cookies survive |
| url (`url.cpp`) | the parts of a URL | parse, setters, to_string | decoding and splitting in that order, a hash map's order | build then parse is the identity |
| archive (`archive.cpp`) | reader, writer, a guard of the working directory | compress, decompress, outermost_folder_name | scope order, failure half way, two threads | names mean what the caller meant; the directory is restored |
| util: processes (`util.cpp`) | the children of the process | exec, pipe, wait_for_child_process | threads reap each other's children, signals | commands are reported truly; calls end |
| util: working directory | `backup_` | constructor, destructor | one per process | as for archive |
| util: files, strings | none | read_file, write_file, make_file_name_legal, split_str, ... | failures nobody looks at, a file that changes between size and read | what was written is read; names are legal |
| crypto (`crypto.cpp`) | a cipher context, an output buffer | aes_256_encrypt, aes_256_decrypt | chunks, blocks held back, padding | writes fit; decryption inverts encryption |
| qr_code (`qr_code.cpp`) | none | qr_code_to_rbg, qr_code_to_utf8 | offsets, an odd number of rows | the picture is the symbol |
| unicode (`unicode.cpp`) | none | trim functions, first and last code point, conversions | bytes that are no UTF-8, two ends and a throw between them | only white space goes |
| hash (`hash.cpp`) | a static xxHash state | fast_hash, digests, passwords | threads share the state | a hash is that of its argument |
| html (`html.cpp`) | none | html_tidy | a status that later calls overwrite | what is returned is the document |
| base64, image, font, mime, markdown | none | one library call each | | |

The components interact in few places. compress() and decompress() make a
ChangeWorkingDir and read_file(); SqlQuery::bind() of a blob and
Column::as_blob() pass through compress_data() and decompress_data(); Request
uses url_encode() and write_file(); crypto draws its initial vectors from
generate_random_bytes(); the QR picture is an RGB of the image component. Errors
are exceptions everywhere but in destructors, which call error() and so end the
process. `PROJECT.json` has every component, and every hazard found in the code
with its line and the properties aimed at it.

## The modules

**Sql** has one action per member function of SqlDatabase, SqlQuery and Column;
the outcomes of a function (`PrepareFails`, `PrepareEmpty`, `PrepareCompiles`...)
are operators of their own. SQLite is one table with its committed and
uncommitted state, a heap of statement addresses, and the connection, which
turns into a zombie when it is closed with statements left. Passing SQLite a
pointer it has freed ends the behaviour in a fault. `Lapses` says which of four
precautions the client does not take; with all of them taken no fault may
happen. An address some pointer still names is not handed out again, so that
uses of stale pointers show as faults and not as uses of another statement.

**Http** has a call of a Request in four steps (`Begin` sets the options, or
throws among them; `Perform`; `Return` runs the scope guards), so that the calls
of two Requests interleave. Options that hold pointers are "null", "mine" while they
point into the call in progress, or "stale". `kept` has the
options of the setters, `asked` what the client may rely on: a setter that sets
several options and throws between them leaves those "unsure". `shared`
remembers for each Request whether its life overlapped that of another, since
the cookie file and libcurl's global state are only kept for one that did not.

**Url** keeps strings as sequences of the characters that mean something in a
query or a path; the text of a URL may also have them escaped. Schema, port,
fragment and user pass through unchanged. Splitting, the first "=", `npos + 1`,
emplace() and the hash map's order are modelled as the code has them.

**Archive** takes compress() and decompress() apart at the system calls of
ChangeWorkingDir (`Backup`, `Create`, `Chdir`, `Leave`), the setting up of the
writer in between (`SetUp`), the loop over entries
and the closing of the writer, each of which may fail and unwinds through the
scope guards that exist by then. `resolved` and `fixed` record which directory a
relative name meant when it was used. `alone` remembers
whether calls have overlapped so far. `packed` compares
the compression that is set up for a format and a filter with the one asked for.

**ChildProcesses** has exec() and pipe() as a child started and a wait for it,
and wait_for_child_process() as a loop of waitpid(-1); threads interleave, the
program forks children of its own, and signals may interrupt a wait; such a wait is
told apart as "cut short", though its caller takes it for a normal return.

**Crypto** follows byte counts through aes_256_crypt(): what is consumed, held
back by the cipher, written, and how far a write may reach.

**SqlTable** is what a client is promised: a table as a session sees it
and as the file holds it, with seven actions (open, begin, change, commit,
abandon, linger, end). `Promised` in Sql maps the connection, its transaction and the end of
a session to it; queries, columns, statements and zombies map to nothing, so
that all they do must be a stutter.

The remaining modules are small and share nothing:

- **QrCode** computes both pictures of any symbol, offset by offset and glyph by
  glyph.
- **Text** has the functions that cut a string at its ends. A byte is one of eight
  kinds, which is what utfcpp, Boost and the code tell apart; UTF-8 is decoded
  from the left and from the right as utfcpp does it, so text need not be valid.
  trim() is two steps, since the second may throw.
- **OutermostFolder** reads the headers of an archive in any order.
- **HtmlTidy** follows the status through the calls of Tidy.
- **Files** is one file that threads open, write and read; a write reaches the
  disk in part or not at all, and is not reported.
- **SharedHash** takes fast_hash() apart at its three calls on the static state.

**MCHelpers** puts these six side by side for one run. As they share nothing, any
interleaving of them is a product; `HelpersNext` lets one at a time be away from
its initial state, which reaches every state of each and none of the product.

Modules named MC... give a module its symmetry sets and input sets for TLC, those
named ...Proofs its theorems. Operators commented "mutant of" are variants with a
plausible mistake; `PROJECT.json` pairs each with the property that finds it.

## What TLC checks

Every run that passes explores all states of its instance. Deadlock is not
checked where a client may stop calling; it is checked for Archive and Crypto,
whose calls must always go on.

| run | instance | shows |
|---|---|---|
| sql_careful | 2 queries, 1 column, 3 addresses, 2 rows, no lapse | no fault at all; column_count_ matches its statement; next() leaves a reset statement; only commit() publishes |
| sql_reckless | the same, 1 row, all lapses | while the process lives, each statement has one owner and the connection lives exactly as long as needed; Sql implements SqlTable |
| http_calls | 2 Requests, 2 cookies, basic_auth() with 1 value | the options sent are those asked for after any calls, thrown or not, and those of the setters; nothing stale stays; without overlap, libcurl is initialised and no cookie is lost |
| url_again | queries of up to 4 tokens, maps of up to 2 pairs | build then parse is the identity where no separator would split a key or value, and for all that was parsed |
| archive_calls | 2 threads, 1 name to depth 2, 1 folder, 1 file | without overlap the working directory comes back and names meant what the caller meant; always, every unpacked folder reaches the step that sets its times; an archive with a default name is compressed as asked |
| child_processes | 2 threads, 3 children | no false success; a false failure only for a child a wait for all took; a wait that was not cut short has collected all; every call ends |
| crypto_chunks | sizes around 0, one and two chunks of 16384 | writes fit; lengths round trip |
| helper_calls | strings of up to 4 bytes; archives of 2 names; 2 threads that write up to 2 bytes; 2 values to hash; every 3x3 symbol, margins 0-2, zooms 1-2 | trimming takes the white space and nothing else, and is stable; file names are legal; the outermost folder is exact; html_tidy() returns the document; undisturbed reads return what was written; an undisturbed hash is that of its data; both pictures show the symbol |

The bounds are small because the behaviour repeats beyond them. Two queries and
three addresses are what it takes to leak, share or reuse a statement; two
threads to steal a child, a directory, a file or a hash, and a third child is one
more than they have. basic_auth() sets two options, so it can throw between
them. Four tokens hold an empty item between two others, or two pairs with a
repeated key. Four bytes hold two code points of two bytes, or white space on
both sides of one, or three bytes that are none. Two names make an archive with one
thing in it or with two, folders listed before, after or not at all. An odd width
with a row below and one without are all the cases of QrCode. Sizes around two
chunks pass every boundary of block and chunk, with the real size of a chunk.
The theorems below drop these bounds for every safety property of every module.

Each property is one that a mutated definition breaks under the same run, so
that none holds by the shape of the model alone.

### Fairness

Only `child_processes` asks for liveness. Its fairness is weak: a child that runs
ends some time (a command that never ends makes exec() wait by intention), and a
thread whose waitpid() or pclose() has something to report goes on. No thread is
ever made to start a call.

### Where the code does not do what is said of it

Four runs check a sentence of the documentation and end with a counterexample.
`PROJECT.json`, "findings", quotes each sentence and its place.

| run | line | what happens |
|---|---|---|
| sql_drop_doc | `sql.cpp:343` | drop_table_if_exists() returns the change count of an earlier statement |
| http_empty_form | `http.cpp:406` | post_mime() without data and files makes libcurl follow 1 as a form |
| archive_dir_times | `archive.cpp:339` | the writer closes after the directory has been left, and sets times of folders there |
| url_build_doc | `url.cpp:93` | an escaped separator is decoded before the query is split |

Others need no model to be seen and have no run: exec() that fails does not reset
its statement (`sql.cpp:251`, against `sql.h:158`; it is why `abandon_failed` is a
precaution); a Column follows its statement to other rows (`sql.cpp:125`);
wait_for_child_process() ends at the first child that failed (`util.cpp:181`,
against `util.h:146`); the margin of the RGB picture counts modules and not
pixels (`qr_code.cpp:37`, against `qr_code.h:18`); a query item without "="
becomes its own value (`url.cpp:103`); get_top_level_dir() never ends on an
absolute path (`archive.cpp:174`); compress() to a tar with Deflate and a given
name takes no branch and compresses nothing (`archive.cpp:124`). Where these lines
are modelled, they are modelled as the code has them.

## What is proved

The theorems hold for every value of the constants allowed by the assumptions
named in the modules: `SqlAssumption`, `HttpAssumption`, `ArchiveAssumption`,
`ChildAssumption`, `CryptoAssumption`, `QrCodeAssumption`, `UrlAssumption` (the
constants are texts and maps of strings) and `HelpersAssumption` (the bounds on
lengths and sizes are natural numbers, however large).

**SqlProofs.** `TypeCorrect` comes first. The faults cannot be excluded by
looking at them alone: a fault needs a dangling pointer, a dangling pointer
needs a finalize() that threw, and that needs a statement left failed. `IInv`
adds this chain to the type invariant as `PointersTraced` (a query with a
pointer is alive; a dangling one needs its lapse; no address is held twice, not
even by a dangling pointer; every live statement is held) with the connection
and the column count. `Invariant` proves it, one lemma on ownership for each way
a step changes the heap (unchanged, freed, allocated);
`PrecautionsSuffice`, `EveryStatementOwned`, `ConnectionAlwaysHeld`,
`CountAlwaysMatches` follow, and `CommitPublishes` and `NextResets` by cases on
the actions. `Refinement` proves that Sql implements SqlTable: initial states map
to initial states, and each action, after the same cases, to one of the table's
or to a stutter. `AllSettled` then carries an invariant of the table back.

**HttpProofs.** What a call sends depends on what all calls before it left on the
handle. `IInv` describes the handle at every point of a call: between calls no
option holds a pointer (`Clean`); once a call is set up its options are all its
own (`Complete`); a call that threw while it set them up has those up to the one
that threw (`Broken`). Each scope guard is needed to get from one back to
`Clean`, also from the middle. With it go what the setters keep and, for a Request
that shares its life with no other, that it is the only one alive, that
its initialisation of libcurl is in force, and that what it read of the file
is still all there is (`Alone`).

**ArchiveProofs.** `Tracked` holds in any interleaving: which guards exist at each
point of a call, and that the folders created are those on the extractor's list
until it is closed; `FoldersFixed` and `NamesTrue` need no more. `Placed` holds
while calls do not overlap: there is one call at a time, and where it is tells
where the process is and what `backup_` has. `DirectoryRestored` and
`NamesMeantTarget` follow.

**ChildProcessesProofs.** That a status is reported truly needs that a child has
one parent call, that only this call reaps it, so that while it waits the child is
there or was taken, and that the status handed out is the one the child ended with.

**CryptoProofs.** `WritesFit` is not inductive: what the cipher may write depends
on what it holds back. `BytesTraced` states that every byte consumed is given
out or held, and how many are held as a function of those consumed; with the
arithmetic of remainders (`KeptAgain`, `RoomEnough`, `KeptAtEnds`) `Invariant`
proves `IInv` for every size of data and of chunk, and `EveryWriteFits` and
`EveryRoundTrip` follow.

**UrlProofs.** The theorem behind both properties is `QueryRoundTrip`: whatever
the order of the pairs, the query that is built parses to the same query, if no key or
value has a separator that would split it. `Grown` is its step: one more pair, appended
behind an "&", leaves the items there were where they begin and end, and begins one
item that is this pair (`NextItem`); `KeyAndValue` takes it apart again at its
first "=". By induction over the pieces the items are the pairs (`JoinLists`).
libcurl's escaping drops out, since decoding what it encoded gives the string
back, character by character (`Decodes`). `ParsedRepresentable` is the other half:
what was parsed always has this form. `UrlInv` connects the object with the text
before it and with what was built of it.

**HelpersProofs.** `SideBySide` lets the proofs take one helper at a time: each step
of the composition is a step of one component or a stutter of it. Then:

- *Text.* trim_left() and trim_right() scan a string from either end, and are not
  symmetric on bytes that are no UTF-8. `LeftEnd` and `RightEnd` say where a scan
  stops without mention of the loop, and the loops are shown to stop there by
  induction. From them: of valid text exactly the white space goes; of any
  bytes nothing but white space and stray trail bytes; and what trim() left is left
  alone by a second trim(). `TextInv` ties what a call returned to what it was given,
  also between the halves of trim() and after a throw there. `NamesAreLegal` uses
  lemmas about removing characters (`Without`).
- *OutermostFolder.* `FolderInv` says what the map holds of each name seen so far,
  in terms that do not depend on the order in which the headers came.
- *HtmlTidy.* `TidyInv`: until something has failed, the status at hand tells whether
  the document has errors, though later calls overwrite it; by the time it is saved,
  output was forced exactly if it has.
- *Files, SharedHash.* A call that nobody overlaps has the shared state to itself:
  `HashInv` says what the hash state holds at each of its steps, `FileInv` that the
  file has kept its size, or is still empty. The argument is how a second call takes
  this claim away, and that the claim comes back by itself after any race.

UrlProofs and HelpersProofs are about recursion over sequences. The library's
induction theorems take a predicate as a parameter, which the provers cannot
instantiate, so both modules prove induction for sets (`Least`, `UpInduction`)
from the least element of a set of numbers, and from it that the recursive
functions of the models exist and unfold (`JoinUnfolds`, `Jumps`, `Keeps`).

**QrCodeProofs.** No state here, only arithmetic: a number in rows of n columns has
one row and one column (`RowAndColumn`), so no pixel belongs to two modules or
to the next row, and the last module ends inside the picture (`PixelOfModule`),
so the bound in set_xy() drops nothing. For the text, what three sequences one
after the other hold (`ThreeParts`) gives each line and each glyph.

Only model-checked: that every call of ChildProcesses ends (`EveryCallEnds`), since
the provers know neither fairness nor ENABLED; and the four properties that do not
hold. No module declares a RECURSIVE operator.

## What is not modelled

- Contents: the values bound and read in SQL, the bodies of requests, ciphertexts
  and digests, compressed blobs, compression levels. The libraries make them.
- What compress() leaves in its file when writing fails, and the errors of
  archive_write_close(): libarchive's buffers decide how much is there.
- 32-bit counts: `archive_write_data()` of 2 GiB, the size of a picture of a huge
  zoom, a `long` written to a 32-bit status code. Numbers are unbounded here; the
  arithmetic before the overflow is what QrCodeProofs is about.
- get_top_level_dir() on an absolute path, which never returns: OutermostFolder
  has relative paths.
- A caller's violated precondition, such as decrypting a message shorter than its
  header, or the first code point of an empty string (Expects() ends the process).
- split_str(), get_env(), uuid(), hexadecimal output, terminal_size(), the
  conversions of unicode.cpp, the digests and passwords of hash.cpp, base64, image,
  font, mime and markdown: one call into a library and no state, so that a model
  would be a model of that library.
- Logging, the texts of exceptions, the certificates, and vendored code.

What would still be worth stating: an oracle "send exactly this request" that Http
refines, in the way Sql refines SqlTable; an abstract file and an abstract hash, of
which Files and SharedHash are what remains when calls overlap; several databases
on one file, which klib opens but does not coordinate.
