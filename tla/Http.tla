-------------------------------- MODULE Http --------------------------------
(***************************************************************************)
(* The HTTP component of klib (src/http.cpp, include/klib/http.h).  A       *)
(* Request owns one libcurl easy handle.  The options of a handle are       *)
(* sticky: a call sets those of its request, performs it, and its scope     *)
(* guards undo the settings, also when the call throws half way.  What all  *)
(* Requests share is libcurl's global state and the cookie file in $HOME.   *)
(*                                                                          *)
(* An option that holds a pointer is "mine" while it points into the call   *)
(* in progress and "stale" once that call has ended without undoing it.     *)
(* libcurl is external: what curl_easy_setopt() does to the method, what    *)
(* the global counter does and when cookies are read and written.           *)
(***************************************************************************)
EXTENDS Integers, FiniteSets, Sequences

CONSTANTS
  Requests,   \* the Request objects of the program
  Cookies,    \* the cookies a server may set
  Setters,    \* the setters the program calls
  Values,     \* what it passes to them
  MaxAlive    \* bound: how many Requests the program keeps at one time

\* The options each setter sets for good, in this order.  basic_auth() sets the
\* same kind of authentication every time before them.
OptionsSet ==
  [verbose |-> <<"verbose">>, set_proxy |-> <<"proxy">>, set_no_proxy |-> <<"noproxy">>,
   set_proxy_from_env |-> <<"proxy", "noproxy">>, set_doh_url |-> <<"doh_url">>,
   set_user_agent |-> <<"useragent">>, set_browser_user_agent |-> <<"useragent">>,
   set_timeout |-> <<"timeout">>, set_connect_timeout |-> <<"connecttimeout">>,
   set_cookie |-> <<"cookie">>, basic_auth |-> <<"username", "password">>]
Kept == UNION {{OptionsSet[s][i] : i \in DOMAIN OptionsSet[s]} : s \in Setters}

ASSUME HttpAssumption ==
  /\ MaxAlive \in Nat \ {0}
  /\ Setters \subseteq DOMAIN OptionsSet
  /\ Values \cap {"default", "unsure"} = {}

VARIABLES
  pc,       \* where a Request is: "none", "idle", in a call, or "crashed"
  call,     \* the call in progress
  opt,      \* the options a call sets on the easy handle, and undoes
  kept,     \* those a setter sets, and nothing undoes
  asked,    \* ghost: what the setters were asked for, "unsure" if one threw
  globals,  \* libcurl's count of global initialisations
  file,     \* cookies in the file of COOKIEFILE and COOKIEJAR
  jar,      \* cookies of the handle
  loaded,   \* the handle has read the file
  received, \* ghost: every cookie a server has set, see Destroy
  shared    \* ghost: another Request has lived, or failed to, beside this one

options == <<opt, kept, asked>>
cookieVars == <<file, jar, loaded, received>>
vars == <<pc, call, options, globals, cookieVars, shared>>

\* What the client asks for.  "bad" maps have an empty key or value, or name
\* a file that does not exist.
Maps == {"empty", "good", "bad"}
Calls ==
  [verb : {"get", "post", "post_json"}, headers : Maps, form : {"empty"}]
    \cup [verb : {"post_mime"}, headers : Maps, form : Maps]
NoCall == [verb |-> "get", headers |-> "empty", form |-> "empty"]

Pointers == {"null", "mine", "stale"}
Options == [method : {"GET", "POST", "POST_FORM", "POST_MIME"},
            httppost : BOOLEAN,  \* CURLOPT_HTTPPOST is 1, not a form
            postfields : Pointers, url : Pointers, headers : Pointers,
            mime : Pointers, sink : Pointers]
InitialOptions == [method |-> "GET", httppost |-> FALSE, postfields |-> "null",
                   url |-> "null", headers |-> "null", mime |-> "null",
                   sink |-> "null"]

TypeOK ==
  /\ pc \in [Requests -> {"none", "idle", "set", "sent", "unwind", "crashed"}]
  /\ call \in [Requests -> Calls]
  /\ opt \in [Requests -> Options]
  /\ kept \in [Requests -> [Kept -> Values \cup {"default"}]]
  /\ asked \in [Requests -> [Kept -> Values \cup {"default", "unsure"}]]
  /\ globals \in Nat
  /\ file \subseteq Cookies
  /\ jar \in [Requests -> SUBSET Cookies]
  /\ loaded \in [Requests -> BOOLEAN]
  /\ received \subseteq Cookies
  /\ shared \in [Requests -> BOOLEAN]

Init ==
  /\ pc = [r \in Requests |-> "none"]
  /\ call = [r \in Requests |-> NoCall]
  /\ opt = [r \in Requests |-> InitialOptions]
  /\ kept = [r \in Requests |-> [o \in Kept |-> "default"]]
  /\ asked = kept
  /\ globals = 0
  /\ file \in SUBSET Cookies  \* left there by an earlier process
  /\ jar = [r \in Requests |-> {}]
  /\ loaded = [r \in Requests |-> FALSE]
  /\ received = {}
  /\ shared = [r \in Requests |-> FALSE]

Alive(r) == pc[r] # "none"
InCall(r) == pc[r] \in {"set", "sent", "unwind"}

-----------------------------------------------------------------------------
(* libcurl *)

\* curl_easy_init() initialises the globals if nobody has; curl_global_cleanup()
\* undoes one initialisation.
NoInit == globals' = globals  \* mutant of easy_init
easy_init == globals' = IF globals = 0 THEN 1 ELSE globals
CleanupBelowZero(n) == IF n = 0 THEN -1 ELSE n - 1  \* mutant of global_cleanup
global_cleanup(n) == IF n = 0 THEN 0 ELSE n - 1

\* The first transfer of a handle, or its cleanup, reads the cookie file.
JarOf(r) == IF loaded[r] THEN jar[r] ELSE file

\* curl_easy_setopt(): each of these selects a method too.
HTTPGET(o) == [o EXCEPT !.method = "GET"]
HTTPPOST(o) == [o EXCEPT !.method = "POST_FORM", !.httppost = TRUE]
POSTFIELDS(o, p) == [o EXCEPT !.method = "POST", !.postfields = p]
MIMEPOST(o, p) == [o EXCEPT !.method = "POST_MIME", !.mime = p]

-----------------------------------------------------------------------------
(* Request() and ~Request() *)

\* A Request r that begins shares libcurl and the file with those alive.
ShareWith(r) ==
  [q \in Requests |-> IF q = r THEN \E p \in Requests \ {r} : Alive(p)
                              ELSE shared[q] \/ Alive(q)]

Construct(r) ==
  /\ pc[r] = "none"
  /\ Cardinality({q \in Requests : Alive(q)}) < MaxAlive
  /\ easy_init
  /\ pc' = [pc EXCEPT ![r] = "idle"]
  /\ opt' = [opt EXCEPT ![r] = InitialOptions]
  /\ kept' = [kept EXCEPT ![r] = [o \in Kept |-> "default"]]
  /\ asked' = [asked EXCEPT ![r] = [o \in Kept |-> "default"]]
  /\ jar' = [jar EXCEPT ![r] = {}]
  /\ loaded' = [loaded EXCEPT ![r] = FALSE]
  /\ shared' = ShareWith(r)
  /\ UNCHANGED <<call, file, received>>

\* SCOPE_FAIL cleans up the handle and the globals, whoever initialised them.
ConstructFails(r) ==
  /\ pc[r] = "none"
  /\ Cardinality({q \in Requests : Alive(q)}) < MaxAlive
  /\ globals' = global_cleanup(IF globals = 0 THEN 1 ELSE globals)
  /\ shared' = ShareWith(r)
  /\ UNCHANGED <<pc, call, options, cookieVars>>

\* Mutant of Destroy: a handle without a COOKIEJAR.
DestroyWithoutJar(r) ==
  /\ pc[r] = "idle"
  /\ globals' = global_cleanup(globals)
  /\ pc' = [pc EXCEPT ![r] = "none"]
  /\ jar' = [jar EXCEPT ![r] = {}]
  /\ UNCHANGED <<call, options, file, loaded, received, shared>>

\* curl_easy_cleanup() rewrites the cookie file with the cookies of this handle.
\* What a Request that shared the file knows nothing of is gone; received is
\* what was set since, or before and kept.
Destroy(r) ==
  /\ pc[r] = "idle"
  /\ file' = JarOf(r)
  /\ received' = IF shared[r]
       THEN received \cap (JarOf(r) \cup UNION {jar[q] : q \in Requests \ {r}})
       ELSE received
  /\ jar' = [jar EXCEPT ![r] = {}]
  /\ globals' = global_cleanup(globals)
  /\ pc' = [pc EXCEPT ![r] = "none"]
  /\ UNCHANGED <<call, options, loaded, shared>>

-----------------------------------------------------------------------------
(* The setters *)

\* A proxy that is empty, or not in the environment, is none: the default.
Arguments(setter) ==
  IF setter \in {"set_proxy", "set_no_proxy", "set_proxy_from_env"}
    THEN Values \cup {"default"} ELSE Values

\* The first n options of a setter are set, each to its argument; one that
\* libcurl refuses throws, and the rest stay as they were.
Set(r, setter, args, n) ==
  LET names == OptionsSet[setter]
  IN  /\ pc[r] = "idle"
      /\ kept' = [kept EXCEPT ![r] = [o \in Kept |->
           IF \E i \in 1 .. n : names[i] = o
             THEN args[CHOOSE i \in 1 .. n : names[i] = o] ELSE kept[r][o]]]
      /\ asked' = [asked EXCEPT ![r] = [o \in Kept |->
           IF \E i \in DOMAIN names : names[i] = o
             THEN IF n = Len(names) THEN kept'[r][o] ELSE "unsure"
             ELSE asked[r][o]]]
      /\ UNCHANGED <<pc, call, opt, globals, cookieVars, shared>>

AfterReset(set) == [o \in DOMAIN set |-> "default"]  \* mutant: curl_easy_reset()
\* What the guards of a call do to those options.
AfterCall(set) == set

-----------------------------------------------------------------------------
(* get(), post(), post_mime() *)

\* The method and the body, before the URL and the headers.
SetVerb(o, verb) ==
  CASE verb = "get" -> HTTPGET(o)
    [] verb \in {"post", "post_json"} -> POSTFIELDS(HTTPPOST(o), "mine")
    [] verb = "post_mime" -> HTTPPOST(o)

SetUrl(o) == [o EXCEPT !.url = "mine"]

\* add_header(): an empty map leaves the option alone.  post() of JSON adds
\* the content type, so its map is never empty.
HeadersOf(c) ==
  IF c.verb = "post_json" /\ c.headers = "empty" THEN "good" ELSE c.headers
SetHeaders(o, c) ==
  IF HeadersOf(c) = "good" THEN [o EXCEPT !.headers = "mine"] ELSE o

\* add_form(): only post_mime(); without any part there is no form to set.
SetForm(o, c) ==
  IF c.verb = "post_mime" /\ c.form = "good" THEN MIMEPOST(o, "mine") ELSE o

Throws(c) == HeadersOf(c) = "bad" \/ (c.verb = "post_mime" /\ c.form = "bad")

\* The guards armed when the call leaves, in the reverse of their order; those
\* for the headers and the form only when add_header(), add_form() returned.
UndoForm(o, c) ==
  IF c.verb = "post_mime" /\ HeadersOf(c) # "bad" /\ c.form # "bad"
    THEN MIMEPOST(o, "null") ELSE o
KeepHeaders(o, c) == o  \* mutant of UndoHeaders: the guard is missing
UndoHeaders(o, c) ==
  IF HeadersOf(c) # "bad" THEN [o EXCEPT !.headers = "null"] ELSE o
KeepUrl(o) == o  \* mutant of UndoUrl: the guard is missing
UndoUrl(o) == [o EXCEPT !.url = "null"]
UndoFields(o, c) ==
  IF c.verb \in {"post", "post_json"} THEN POSTFIELDS(o, "null") ELSE o

\* What an option still points to in the call has ended with it.
Expire(o) ==
  LET Age(p) == IF p = "mine" THEN "stale" ELSE p
  IN  [o EXCEPT !.postfields = Age(@), !.url = Age(@), !.headers = Age(@),
                !.mime = Age(@), !.sink = Age(@)]

\* The call up to curl_easy_perform(), or up to its exception.  The headers
\* are set before the form, so bad headers keep the form from being set.
Begin(r, c) ==
  /\ pc[r] = "idle"
  /\ call' = [call EXCEPT ![r] = c]
  /\ LET set == SetHeaders(SetUrl(SetVerb(opt[r], c.verb)), c)
     IN  IF Throws(c)
           THEN /\ opt' = [opt EXCEPT ![r] = set]
                /\ pc' = [pc EXCEPT ![r] = "unwind"]
           ELSE /\ opt' = [opt EXCEPT ![r] = [SetForm(set, c) EXCEPT !.sink = "mine"]]
                /\ pc' = [pc EXCEPT ![r] = "set"]
  /\ UNCHANGED <<kept, asked, globals, cookieVars, shared>>

\* curl_easy_perform(): a form post follows the pointer of CURLOPT_HTTPPOST.
\* A transfer may fail before or after it received cookies.
Perform(r) ==
  /\ pc[r] = "set"
  /\ pc' = [pc EXCEPT ![r] =
       IF opt[r].method = "POST_FORM" /\ opt[r].httppost THEN "crashed" ELSE "sent"]
  /\ \E new \in SUBSET Cookies :
       /\ jar' = [jar EXCEPT ![r] = JarOf(r) \cup new]
       /\ received' = received \cup new
  /\ loaded' = [loaded EXCEPT ![r] = TRUE]
  /\ UNCHANGED <<call, options, globals, file, shared>>

\* The guards run; then the storage of the call is gone.
Return(r) ==
  /\ pc[r] \in {"sent", "unwind"}
  /\ pc' = [pc EXCEPT ![r] = "idle"]
  /\ LET c == call[r]
         o == IF pc[r] = "sent" THEN [opt[r] EXCEPT !.sink = "null"] ELSE opt[r]
     IN  opt' = [opt EXCEPT ![r] =
           Expire(UndoFields(UndoUrl(UndoHeaders(UndoForm(o, c), c)), c))]
  /\ call' = [call EXCEPT ![r] = NoCall]
  /\ kept' = [kept EXCEPT ![r] = AfterCall(@)]
  /\ UNCHANGED <<asked, globals, cookieVars, shared>>

\* No step of a crashed process.
Running == \A r \in Requests : pc[r] # "crashed"

Next ==
  /\ Running
  /\ \E r \in Requests :
       \/ Construct(r)
       \/ ConstructFails(r)
       \/ Destroy(r)
       \/ \E s \in Setters : \E args \in [DOMAIN OptionsSet[s] -> Arguments(s)],
                               n \in 0 .. Len(OptionsSet[s]) : Set(r, s, args, n)
       \/ \E c \in Calls : Begin(r, c)
       \/ Perform(r)
       \/ Return(r)

Spec == Init /\ [][Next]_vars

-----------------------------------------------------------------------------
(* Correctness *)

\* The request that goes out is the one asked for by this call and by nothing
\* before it: its verb, its headers if it has any, its body, its own response
\* buffer -- after any sequence of calls, thrown ones included.
SentAsAsked ==
  \A r \in Requests : pc[r] = "sent" =>
    LET o == opt[r]
        c == call[r]
    IN  /\ o.method = CASE c.verb = "get" -> "GET"
                        [] c.verb \in {"post", "post_json"} -> "POST"
                        [] c.verb = "post_mime" -> "POST_MIME"
        /\ o.url = "mine" /\ o.sink = "mine"
        /\ o.headers = IF HeadersOf(c) = "good" THEN "mine" ELSE "null"
        /\ o.method = "POST" => o.postfields = "mine"
        /\ o.method = "POST_MIME" => o.mime = "mine"

\* Between calls a handle points into no storage of a call that has ended.
NothingStale ==
  \A r \in Requests : \A field \in {"postfields", "url", "headers", "mime", "sink"} :
    opt[r][field] # "stale"

\* A setter that returned holds for every transfer until it is called again, and
\* no call, thrown or not, of this Request or another undoes it; after one that
\* threw half way, only its own options may be new or old.
SentAsSet ==
  \A r \in Requests : pc[r] = "sent" =>
    \A o \in Kept : asked[r][o] # "unsure" => kept[r][o] = asked[r][o]

\* A transfer of a Request that shared its life with no other runs with libcurl
\* initialised: each Request undoes one initialisation, but only the first of
\* several alive made one.  What others did to each other before does not matter.
GlobalsHeld == \A r \in Requests : InCall(r) /\ ~ shared[r] => globals > 0

\* The cookie file carries what servers set from one Request to the next: none
\* is lost when a transfer fails, a call throws or a Request makes no call.  Only
\* the end of a Request that shared its life with another can lose cookies, and
\* none but those it never read.
CookiesKept ==
  received \subseteq file \cup UNION {jar[r] : r \in {q \in Requests : Alive(q)}}

-----------------------------------------------------------------------------
(* What the documentation says and the code does not do *)

\* http.h:204-209, post_mime(): "Sends a POST request ... @return Response
\* content".  Every call ends; none takes the process with it.
EveryCallAnswers == \A r \in Requests : pc[r] # "crashed"
=============================================================================
