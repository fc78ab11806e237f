-------------------------------- MODULE Url --------------------------------
(***************************************************************************)
(* URL of klib (src/url.cpp, include/klib/url.h): its constructor takes a    *)
(* URL apart, its setters change the parts, to_string() puts them together. *)
(* libcurl's URL parser, which does the work at either end, is external.    *)
(*                                                                          *)
(* A string is a sequence of characters; of those only the ones that mean   *)
(* something in a query or a path are told apart.  In the text of a URL a   *)
(* character may be escaped: "%26" is an escaped "&", "%3d" an escaped "=", *)
(* "%2f" an escaped "/".                                                    *)
(***************************************************************************)
EXTENDS Integers, Sequences, FiniteSets, FiniteSetsExt

CONSTANTS
  QueryTexts,  \* queries a parsed URL may have, as text: sequences of Tokens
  PathTexts,   \* paths it may have, as text: they begin with "/"
  Queries,     \* maps a client may pass to set_query()
  Paths        \* strings it may pass to set_path(): empty, or from "/" on

Characters == {"x", "&", "=", "/"}
Tokens == Characters \cup {"%26", "%3d", "%2f"}

\* A hash map of strings.
IsQuery(q) ==
  /\ DOMAIN q \subseteq Seq(Characters) /\ IsFiniteSet(DOMAIN q)
  /\ q \in [DOMAIN q -> Seq(Characters)]

ASSUME UrlAssumption ==
  /\ QueryTexts \subseteq Seq(Tokens) /\ PathTexts \subseteq Seq(Tokens)
  /\ Paths \subseteq Seq(Characters)
  /\ \A q \in Queries : IsQuery(q)

VARIABLES
  text,   \* the text to parse; NoText once there is an object
  url,    \* the URL object; NoUrl before its constructor has returned
  built   \* what to_string() returned, NoText if it has not been called

vars == <<text, url, built>>

\* The parts that pass through unchanged, "" when a URL does not have them.
Parts == {"schema", "host", "port", "fragment", "user", "password"}
NoUrl == [path |-> <<>>, query |-> <<>>, parts |-> [p \in Parts |-> "no url"]]
NoText == [path |-> <<>>, query |-> <<>>, parts |-> [p \in Parts |-> "no text"]]

\* All the optional parts are there or none is: each is treated by itself.
PartsOf(host, optional) ==
  [p \in Parts |-> CASE p = "schema" -> "https"
                     [] p = "host" -> host
                     [] OTHER -> optional]
SomeParts == {PartsOf("", ""), PartsOf("", "v"), PartsOf("h", ""), PartsOf("h", "v")}

Init ==
  /\ text \in [path : PathTexts, query : QueryTexts, parts : SomeParts]
  /\ url = NoUrl
  /\ built = NoText

-----------------------------------------------------------------------------
(* libcurl: CURLU_URLDECODE and CURLU_URLENCODE.  Encoding leaves "/" alone   *)
(* in a path and the first "=" in an appended piece of query.                 *)

DecodeToken(t) ==
  CASE t = "%26" -> "&" [] t = "%3d" -> "=" [] t = "%2f" -> "/" [] OTHER -> t
Decode(s) == [i \in DOMAIN s |-> DecodeToken(s[i])]

EncodeCharacter(c) ==
  CASE c = "&" -> "%26" [] c = "=" -> "%3d" [] c = "/" -> "%2f" [] OTHER -> c
EncodePath(s) == [i \in DOMAIN s |-> IF s[i] = "/" THEN "/" ELSE EncodeCharacter(s[i])]
EncodePiece(s) ==
  [i \in DOMAIN s |->
     IF s[i] = "=" /\ \A j \in 1 .. i - 1 : s[j] # "=" THEN "=" ELSE EncodeCharacter(s[i])]

-----------------------------------------------------------------------------
(* URL(): the query is decoded as a whole, then split at "&", adjacent ones   *)
(* counting once, and every item at its first "=".                            *)

\* Where the items of a query start: at either end, or after a "&" when no
\* other follows it.
Starts(s) ==
  {i \in 1 .. Len(s) + 1 :
     /\ i = 1 \/ s[i - 1] = "&"
     /\ i = 1 \/ i = Len(s) + 1 \/ s[i] # "&"}
Item(s, start) ==
  LET end == Min({i \in start .. Len(s) + 1 : i = Len(s) + 1 \/ s[i] = "&"})
  IN  SubSeq(s, start, end - 1)

\* item.find('='); without one it is npos, and npos + 1 is 0: the value of
\* such an item is the item.
FindEquals(item) == {i \in DOMAIN item : item[i] = "="}
Key(item) ==
  IF FindEquals(item) = {} THEN item ELSE SubSeq(item, 1, Min(FindEquals(item)) - 1)
ValueFromEquals(item) ==  \* mutant of Value: substr(index) for substr(index + 1)
  IF FindEquals(item) = {} THEN item ELSE SubSeq(item, Min(FindEquals(item)), Len(item))
Value(item) ==
  IF FindEquals(item) = {} THEN item
  ELSE SubSeq(item, Min(FindEquals(item)) + 1, Len(item))

\* emplace() keeps the first of several values of a key.
ParseQuery(s) ==
  LET item(i) == Item(s, i)
      keys == {Key(item(i)) : i \in Starts(s)}
      First(k) == Min({i \in Starts(s) : Key(item(i)) = k})
  IN  IF s = <<>> THEN <<>> ELSE [k \in keys |-> Value(item(First(k)))]

Parse(t) ==
  [path |-> Decode(t.path), query |-> ParseQuery(Decode(t.query)), parts |-> t.parts]

\* libcurl refuses a text without a host.
Construct ==
  /\ url = NoUrl
  /\ text.parts["host"] # ""
  /\ url' = Parse(text)
  /\ text' = NoText
  /\ UNCHANGED built

\* URL() = default
ConstructDefault ==
  /\ url = NoUrl
  /\ url' = [path |-> <<>>, query |-> <<>>, parts |-> PartsOf("", "")]
  /\ text' = NoText
  /\ UNCHANGED built

-----------------------------------------------------------------------------
(* The setters *)

set_query(q) == url' = [url EXCEPT !.query = q]
set_path(p) == url' = [url EXCEPT !.path = p]
set_parts(parts) == url' = [url EXCEPT !.parts = parts]

Set ==
  /\ url # NoUrl
  /\ built = NoText
  /\ \/ \E q \in Queries : set_query(q)
     \/ \E p \in Paths : set_path(p)
     \/ \E parts \in SomeParts : set_parts(parts)
  /\ UNCHANGED <<text, built>>

-----------------------------------------------------------------------------
(* to_string(): the pairs of the hash map come in any order.  An empty path   *)
(* becomes "/", and a URL without a host cannot be built.                     *)

Piece(k, v) == EncodePiece(k \o <<"=">> \o v)

\* Mutant of Join: without CURLU_APPENDQUERY each piece replaces the query.
JoinReplacing(q, order) ==
  IF order = <<>> THEN <<>> ELSE LET last == order[Len(order)] IN Piece(last, q[last])

\* The pieces in the order of a sequence of their keys, "&" between them.
Join(q, order) ==
  LET upTo[n \in 0 .. Len(order)] ==
        IF n = 0 THEN <<>>
        ELSE upTo[n - 1] \o (IF n = 1 THEN <<>> ELSE <<"&">>)
                         \o Piece(order[n], q[order[n]])
  IN  upTo[Len(order)]

Orders(keys) ==
  {o \in [1 .. Cardinality(keys) -> keys] : \A k \in keys : \E i \in DOMAIN o : o[i] = k}

Build(u) ==
  {[path |-> IF u.path = <<>> THEN <<"/">> ELSE EncodePath(u.path),
    query |-> Join(u.query, order), parts |-> u.parts] : order \in Orders(DOMAIN u.query)}

to_string ==
  /\ url # NoUrl
  /\ built = NoText
  /\ url.parts["host"] # ""
  /\ built' \in Build(url)
  /\ UNCHANGED <<text, url>>

Next == Construct \/ ConstructDefault \/ Set \/ to_string

Spec == Init /\ [][Next]_vars

-----------------------------------------------------------------------------
(* Correctness *)

Normal(u) == [u EXCEPT !.path = IF @ = <<>> THEN <<"/">> ELSE @]

\* Queries that survive: splitting comes after decoding, so that no "&" may
\* stand in a key or a value, and no "=" in a key.
Has(s, c) == \E i \in DOMAIN s : s[i] = c
Representable(q) ==
  \A k \in DOMAIN q : ~ Has(k, "&") /\ ~ Has(k, "=") /\ ~ Has(q[k], "&")

\* What to_string() makes of such a URL, in whatever order the hash map has its
\* pairs, parses to that URL again.
BuiltParses ==
  built # NoText /\ Representable(url.query) => Parse(built) = Normal(url)

\* A URL that was parsed survives whatever the text was, with its escapes, empty
\* items and repeated keys: parsing and building again changes a URL once at most.
ParsedSurvives ==
  [][Construct => \A b \in Build(url') : Parse(b) = Normal(url')]_vars

-----------------------------------------------------------------------------
(* What the tests and the documentation say and the code does not do *)

\* url.h:30: URL can "parse and build URL": what it builds of any parts is a
\* URL that has these parts.
EveryQueryParses == built # NoText => Parse(built) = Normal(url)
=============================================================================
