----------------------------- MODULE HttpProofs -----------------------------
(* Proofs about Http for every set of Requests, cookies, setters and values. *)
EXTENDS Http, TLAPS

(* A handle between calls points into nothing.  Within a call its options are  *)
(* those of the call, as far as the call has come: "set" and "sent" with all,  *)
(* "unwind" up to the one that threw.                                          *)
Clean(o) ==
  /\ o.postfields = "null" /\ o.url = "null" /\ o.headers = "null"
  /\ o.mime = "null" /\ o.sink = "null"

Begun(o, c) ==
  /\ o.url = "mine"
  /\ o.headers = IF HeadersOf(c) = "good" THEN "mine" ELSE "null"
  /\ o.postfields = IF c.verb \in {"post", "post_json"} THEN "mine" ELSE "null"

Complete(o, c) ==
  /\ Begun(o, c)
  /\ ~ Throws(c)
  /\ o.sink = "mine"
  /\ c.verb = "get" => o.method = "GET" /\ o.mime = "null"
  /\ c.verb \in {"post", "post_json"} => o.method = "POST" /\ o.mime = "null"
  /\ c.verb = "post_mime" /\ c.form = "good" => o.method = "POST_MIME" /\ o.mime = "mine"
  /\ c.verb = "post_mime" /\ c.form # "good" =>
       o.method = "POST_FORM" /\ o.httppost /\ o.mime = "null"

Broken(o, c) == Begun(o, c) /\ Throws(c) /\ o.sink = "null" /\ o.mime = "null"

Handle(p, o, c) ==
  /\ p \in {"none", "idle"} => Clean(o)
  /\ p \in {"set", "sent", "crashed"} => Complete(o, c)
  /\ p = "sent" => o.method # "POST_FORM"
  /\ p = "unwind" => Broken(o, c)

Handles == \A r \in Requests : Handle(pc[r], opt[r], call[r])

(* The setters, at any time and not only in a transfer. *)
KeptAsAsked ==
  \A r \in Requests : \A o \in Kept : asked[r][o] # "unsure" => kept[r][o] = asked[r][o]

(* A Request that shares its life with no other is the only one alive, its     *)
(* initialisation of libcurl is in force, and once it has read the file nobody *)
(* has written to the file since.                                              *)
Alone ==
  \A r \in Requests : Alive(r) /\ ~ shared[r] =>
    /\ \A q \in Requests : q # r => ~ Alive(q)
    /\ globals > 0
    /\ loaded[r] => file \subseteq jar[r]

Unread == \A r \in Requests : ~ Alive(r) \/ ~ loaded[r] => jar[r] = {}

IInv == TypeOK /\ Handles /\ KeptAsAsked /\ Alone /\ Unread /\ CookiesKept

-----------------------------------------------------------------------------
(* Types *)

LEMMA KeptNames ==
  ASSUME NEW s \in Setters, NEW i \in DOMAIN OptionsSet[s]
  PROVE  OptionsSet[s][i] \in Kept
BY DEF Kept

LEMMA CallsAre ==
  ASSUME NEW c \in Calls
  PROVE  /\ c.verb \in {"get", "post", "post_json", "post_mime"}
         /\ c.headers \in Maps
         /\ c.form \in Maps
         /\ HeadersOf(c) \in Maps
BY DEF Calls, Maps, HeadersOf

LEMMA OptionsBegun ==
  ASSUME NEW o \in Options, NEW c \in Calls
  PROVE  SetHeaders(SetUrl(SetVerb(o, c.verb)), c) \in Options
<1>1. c.verb \in {"get", "post", "post_json", "post_mime"}
  BY CallsAre
<1>2. SetVerb(o, c.verb) \in Options
  BY <1>1 DEF SetVerb, HTTPGET, HTTPPOST, POSTFIELDS, Options, Pointers
<1> DEFINE v == SetVerb(o, c.verb)
<1>3. SetUrl(v) \in Options
  BY <1>2 DEF SetUrl, Options, Pointers
<1> QED BY <1>3 DEF SetHeaders, Options, Pointers

LEMMA OptionsFormed ==
  ASSUME NEW o \in Options, NEW c \in Calls
  PROVE  [SetForm(o, c) EXCEPT !.sink = "mine"] \in Options
BY DEF SetForm, MIMEPOST, Options, Pointers

LEMMA OptionsUndone ==
  ASSUME NEW o \in Options, NEW c \in Calls
  PROVE  Expire(UndoFields(UndoUrl(UndoHeaders(UndoForm(o, c), c)), c)) \in Options
<1>1. UndoForm(o, c) \in Options
  BY DEF UndoForm, MIMEPOST, Options, Pointers
<1>2. ASSUME NEW p \in Options
      PROVE  UndoHeaders(p, c) \in Options
  BY <1>2 DEF UndoHeaders, Options, Pointers
<1>3. ASSUME NEW p \in Options
      PROVE  UndoUrl(p) \in Options
  BY <1>3 DEF UndoUrl, Options, Pointers
<1>4. ASSUME NEW p \in Options
      PROVE  UndoFields(p, c) \in Options
  <2>1. POSTFIELDS(p, "null") \in Options
    BY <1>4 DEF POSTFIELDS, Options, Pointers
  <2> QED BY <1>4, <2>1 DEF UndoFields
<1>5. ASSUME NEW p \in Options
      PROVE  Expire(p) \in Options
  <2> DEFINE Age(x) == IF x = "mine" THEN "stale" ELSE x
  <2>1. \A x \in Pointers : Age(x) \in Pointers
    BY DEF Pointers
  <2> HIDE DEF Age
  <2>2. [p EXCEPT !.postfields = Age(p.postfields), !.url = Age(p.url),
                  !.headers = Age(p.headers), !.mime = Age(p.mime),
                  !.sink = Age(p.sink)] \in Options
    BY <1>5, <2>1 DEF Options
  <2> QED BY <2>2 DEF Expire, Age
<1> QED BY <1>1, <1>2, <1>3, <1>4, <1>5

LEMMA ShareTyped ==
  ASSUME TypeOK, NEW r \in Requests
  PROVE  ShareWith(r) \in [Requests -> BOOLEAN]
BY DEF ShareWith, TypeOK

LEMMA GlobalsTyped ==
  ASSUME globals \in Nat
  PROVE  /\ easy_init => globals' \in Nat
         /\ global_cleanup(globals) \in Nat
         /\ global_cleanup(IF globals = 0 THEN 1 ELSE globals) \in Nat
BY DEF easy_init, global_cleanup

LEMMA SetTyped ==
  ASSUME TypeOK, NEW r \in Requests, NEW s \in Setters,
         NEW args \in [DOMAIN OptionsSet[s] -> Arguments(s)],
         NEW n \in 0 .. Len(OptionsSet[s]), Set(r, s, args, n)
  PROVE  /\ kept' \in [Requests -> [Kept -> Values \cup {"default"}]]
         /\ asked' \in [Requests -> [Kept -> Values \cup {"default", "unsure"}]]
<1> DEFINE names == OptionsSet[s]
           set == [o \in Kept |-> IF \E i \in 1 .. n : names[i] = o
                     THEN args[CHOOSE i \in 1 .. n : names[i] = o] ELSE kept[r][o]]
<1>1. s \in DOMAIN OptionsSet
  BY HttpAssumption
<1>2. 1 .. n \subseteq DOMAIN names
  BY <1>1 DEF OptionsSet
<1>3. Arguments(s) \subseteq Values \cup {"default"}
  BY DEF Arguments
<1>4. ASSUME NEW o \in Kept
      PROVE  set[o] \in Values \cup {"default"}
  <2>1. CASE \E i \in 1 .. n : names[i] = o
    <3>1. (CHOOSE i \in 1 .. n : names[i] = o) \in DOMAIN names
      BY <1>2, <2>1
    <3> QED BY <1>3, <2>1, <3>1
  <2>2. CASE ~ \E i \in 1 .. n : names[i] = o
    BY <2>2 DEF TypeOK
  <2> QED BY <2>1, <2>2
<1>5. kept' = [kept EXCEPT ![r] = set]
  BY DEF Set
<1>6. kept' \in [Requests -> [Kept -> Values \cup {"default"}]]
  BY <1>4, <1>5 DEF TypeOK
<1>7. asked' = [asked EXCEPT ![r] = [o \in Kept |->
                  IF \E i \in DOMAIN names : names[i] = o
                    THEN IF n = Len(names) THEN kept'[r][o] ELSE "unsure"
                    ELSE asked[r][o]]]
  BY DEF Set
<1>8. asked' \in [Requests -> [Kept -> Values \cup {"default", "unsure"}]]
  BY <1>6, <1>7 DEF TypeOK
<1> QED BY <1>6, <1>8

LEMMA InitTyped ==
  ASSUME Init
  PROVE  TypeOK
<1> USE DEF Init
<1>1. NoCall \in Calls
  BY DEF NoCall, Calls, Maps
<1>2. InitialOptions \in Options
  BY DEF InitialOptions, Options, Pointers
<1> QED BY <1>1, <1>2 DEF TypeOK

LEMMA NextTyped ==
  ASSUME TypeOK, [Next]_vars
  PROVE  TypeOK'
<1> USE DEF TypeOK, options, cookieVars
<1>1. CASE UNCHANGED vars
  BY <1>1 DEF vars
<1>2. ASSUME NEW r \in Requests, Construct(r)
      PROVE  TypeOK'
  <2>1. InitialOptions \in Options
    BY DEF InitialOptions, Options, Pointers
  <2> QED BY <1>2, <2>1, ShareTyped, GlobalsTyped DEF Construct
<1>3. ASSUME NEW r \in Requests, ConstructFails(r)
      PROVE  TypeOK'
  BY <1>3, ShareTyped, GlobalsTyped DEF ConstructFails
<1>4. ASSUME NEW r \in Requests, Destroy(r)
      PROVE  TypeOK'
  BY <1>4, GlobalsTyped DEF Destroy, JarOf
<1>5. ASSUME NEW r \in Requests, NEW s \in Setters,
             NEW args \in [DOMAIN OptionsSet[s] -> Arguments(s)],
             NEW n \in 0 .. Len(OptionsSet[s]), Set(r, s, args, n)
      PROVE  TypeOK'
  <2>1. UNCHANGED <<pc, call, opt, globals, cookieVars, shared>>
    BY <1>5 DEF Set
  <2> QED BY <1>5, <2>1, SetTyped
<1>6. ASSUME NEW r \in Requests, NEW c \in Calls, Begin(r, c)
      PROVE  TypeOK'
  <2> DEFINE set == SetHeaders(SetUrl(SetVerb(opt[r], c.verb)), c)
  <2>0. set \in Options /\ [SetForm(set, c) EXCEPT !.sink = "mine"] \in Options
    BY OptionsBegun, OptionsFormed
  <2>1. opt' \in [Requests -> Options]
    <3> HIDE DEF set
    <3>1. \/ opt' = [opt EXCEPT ![r] = set]
          \/ opt' = [opt EXCEPT ![r] = [SetForm(set, c) EXCEPT !.sink = "mine"]]
      BY <1>6 DEF Begin, set
    <3> QED BY <2>0, <3>1
  <2> QED BY <1>6, <2>1 DEF Begin
<1>7. ASSUME NEW r \in Requests, Perform(r)
      PROVE  TypeOK'
  BY <1>7 DEF Perform, JarOf
<1>8. ASSUME NEW r \in Requests, Return(r)
      PROVE  TypeOK'
  <2>0. opt[r] \in Options
    OBVIOUS
  <2>1. [opt[r] EXCEPT !.sink = "null"] \in Options
    BY <2>0 DEF Options, Pointers
  <2>2. opt' \in [Requests -> Options]
    BY <1>8, <2>1, OptionsUndone DEF Return
  <2>3. NoCall \in Calls
    BY DEF NoCall, Calls, Maps
  <2> QED BY <1>8, <2>2, <2>3 DEF Return, AfterCall
<1> QED BY <1>1, <1>2, <1>3, <1>4, <1>5, <1>6, <1>7, <1>8 DEF Next

\* Every variable keeps its type, whatever is called, thrown and destroyed.
THEOREM TypeCorrect == Spec => []TypeOK
BY InitTyped, NextTyped, PTL DEF Spec

-----------------------------------------------------------------------------
(* The options of one handle *)

LEMMA BeginsClean ==
  ASSUME NEW o \in Options, NEW c \in Calls, Clean(o)
  PROVE  LET set == SetHeaders(SetUrl(SetVerb(o, c.verb)), c)
         IN  /\ Throws(c) => Broken(set, c)
             /\ ~ Throws(c) => Complete([SetForm(set, c) EXCEPT !.sink = "mine"], c)
<1> DEFINE v == SetVerb(o, c.verb)
           u == SetUrl(v)
           h == SetHeaders(u, c)
<1>0. /\ c.verb \in {"get", "post", "post_json", "post_mime"}
      /\ HeadersOf(c) \in {"empty", "good", "bad"}
  BY CallsAre DEF Maps
<1>1. /\ v \in Options
      /\ v.url = "null" /\ v.headers = "null" /\ v.mime = "null" /\ v.sink = "null"
      /\ v.postfields = IF c.verb \in {"post", "post_json"} THEN "mine" ELSE "null"
      /\ c.verb = "get" => v.method = "GET"
      /\ c.verb \in {"post", "post_json"} => v.method = "POST"
      /\ c.verb = "post_mime" => v.method = "POST_FORM" /\ v.httppost
  BY <1>0 DEF SetVerb, HTTPGET, HTTPPOST, POSTFIELDS, Clean, Options, Pointers
<1> HIDE DEF v
<1>2. /\ u \in Options
      /\ u.url = "mine" /\ u.headers = "null" /\ u.mime = "null" /\ u.sink = "null"
      /\ u.postfields = v.postfields /\ u.method = v.method /\ u.httppost = v.httppost
  BY <1>1 DEF SetUrl, Options, Pointers
<1> HIDE DEF u
<1>3. /\ h \in Options
      /\ h.url = "mine" /\ h.mime = "null" /\ h.sink = "null"
      /\ h.headers = IF HeadersOf(c) = "good" THEN "mine" ELSE "null"
      /\ h.postfields = v.postfields /\ h.method = v.method /\ h.httppost = v.httppost
  BY <1>0, <1>2 DEF SetHeaders, Options, Pointers
<1> HIDE DEF h
<1>4. Begun(h, c)
  BY <1>1, <1>3 DEF Begun
<1>5. Throws(c) => Broken(h, c)
  BY <1>3, <1>4 DEF Broken
<1> DEFINE f == SetForm(h, c)
<1>6. /\ f \in Options
      /\ f.url = h.url /\ f.headers = h.headers /\ f.postfields = h.postfields
      /\ f.httppost = h.httppost
      /\ c.verb # "post_mime" => f.method = h.method /\ f.mime = "null"
      /\ c.verb = "post_mime" /\ c.form # "good" => f.method = h.method /\ f.mime = "null"
      /\ c.verb = "post_mime" /\ c.form = "good" => f.method = "POST_MIME" /\ f.mime = "mine"
  BY <1>3 DEF SetForm, MIMEPOST, Options, Pointers
<1> HIDE DEF f
<1> DEFINE s == [f EXCEPT !.sink = "mine"]
<1>7. /\ s.sink = "mine"
      /\ s.url = f.url /\ s.headers = f.headers /\ s.postfields = f.postfields
      /\ s.httppost = f.httppost /\ s.method = f.method /\ s.mime = f.mime
  BY <1>6 DEF Options
<1> HIDE DEF s
<1>8. ~ Throws(c) => Complete(s, c)
  BY <1>0, <1>1, <1>3, <1>4, <1>6, <1>7 DEF Complete, Begun
<1> QED BY <1>5, <1>8 DEF h, u, v, f, s

(* The guards of a call leave a clean handle behind. *)
LEMMA ReturnsClean ==
  ASSUME NEW o \in Options, NEW c \in Calls, Begun(o, c), o.sink = "null",
         o.mime # "null" => ~ Throws(c) /\ c.verb = "post_mime"
  PROVE  Clean(Expire(UndoFields(UndoUrl(UndoHeaders(UndoForm(o, c), c)), c)))
<1> DEFINE f == UndoForm(o, c)
           h == UndoHeaders(f, c)
           u == UndoUrl(h)
           p == UndoFields(u, c)
<1>1. /\ f \in Options /\ f.mime = "null" /\ f.sink = "null"
      /\ f.headers = o.headers /\ f.postfields = o.postfields
  BY DEF UndoForm, MIMEPOST, Throws, Options, Pointers
<1> HIDE DEF f
<1>2. /\ h \in Options /\ h.mime = "null" /\ h.sink = "null"
      /\ h.headers = "null" /\ h.postfields = o.postfields
  BY <1>1 DEF UndoHeaders, Begun, Options, Pointers
<1> HIDE DEF h
<1>3. /\ u \in Options /\ u.mime = "null" /\ u.sink = "null" /\ u.url = "null"
      /\ u.headers = "null" /\ u.postfields = o.postfields
  BY <1>2 DEF UndoUrl, Options, Pointers
<1> HIDE DEF u
<1>4. /\ p \in Options /\ Clean(p)
  <2>1. CASE c.verb \in {"post", "post_json"}
    BY <1>3, <2>1 DEF UndoFields, POSTFIELDS, Clean, Options, Pointers
  <2>2. CASE c.verb \notin {"post", "post_json"}
    BY <1>3, <2>2 DEF UndoFields, Begun, Clean
  <2> QED BY <2>1, <2>2
<1> HIDE DEF p
<1>5. Clean(Expire(p))
  BY <1>4 DEF Clean, Expire, Options
<1> QED BY <1>5 DEF p, u, h, f

(* A step of one Request that leaves its handle as it should leaves all so. *)
LEMMA HandlesStep ==
  ASSUME Handles, NEW r \in Requests, Handle(pc'[r], opt'[r], call'[r]),
         \A q \in Requests \ {r} :
           pc'[q] = pc[q] /\ opt'[q] = opt[q] /\ call'[q] = call[q]
  PROVE  Handles'
<1>1. ASSUME NEW q \in Requests
      PROVE  Handle(pc'[q], opt'[q], call'[q])
  BY DEF Handles
<1> QED BY <1>1 DEF Handles

-----------------------------------------------------------------------------
(* The invariant *)

LEMMA InitInvariant ==
  ASSUME Init
  PROVE  IInv
<1>1. TypeOK
  BY InitTyped
<1>2. Handles
  BY DEF Init, Handles, Handle, Clean, InitialOptions
<1>3. KeptAsAsked
  BY DEF Init, KeptAsAsked
<1>4. Alone /\ Unread /\ CookiesKept
  BY DEF Init, Alone, Unread, CookiesKept, Alive
<1> QED BY <1>1, <1>2, <1>3, <1>4 DEF IInv

LEMMA NextHandles ==
  ASSUME TypeOK, Handles, Next
  PROVE  Handles'
<1> USE DEF TypeOK, options, cookieVars
<1>1. ASSUME NEW r \in Requests, Construct(r)
      PROVE  Handles'
  <2>1. Handle(pc'[r], opt'[r], call'[r])
    BY <1>1 DEF Construct, Handle, Clean, InitialOptions
  <2> QED BY <1>1, <2>1, HandlesStep DEF Construct
<1>2. ASSUME NEW r \in Requests, ConstructFails(r)
      PROVE  Handles'
  BY <1>2 DEF ConstructFails, Handles
<1>3. ASSUME NEW r \in Requests, Destroy(r)
      PROVE  Handles'
  <2>1. Handle(pc'[r], opt'[r], call'[r])
    BY <1>3 DEF Destroy, Handles, Handle
  <2> QED BY <1>3, <2>1, HandlesStep DEF Destroy
<1>4. ASSUME NEW r \in Requests, NEW s \in Setters,
             NEW args \in [DOMAIN OptionsSet[s] -> Arguments(s)],
             NEW n \in 0 .. Len(OptionsSet[s]), Set(r, s, args, n)
      PROVE  Handles'
  <2>1. UNCHANGED <<pc, call, opt>>
    BY <1>4 DEF Set
  <2> QED BY <2>1 DEF Handles
<1>5. ASSUME NEW r \in Requests, NEW c \in Calls, Begin(r, c)
      PROVE  Handles'
  <2> DEFINE set == SetHeaders(SetUrl(SetVerb(opt[r], c.verb)), c)
             formed == [SetForm(set, c) EXCEPT !.sink = "mine"]
  <2>0. Clean(opt[r])
    BY <1>5 DEF Begin, Handles, Handle
  <2>1. (Throws(c) => Broken(set, c)) /\ (~ Throws(c) => Complete(formed, c))
    BY <2>0, BeginsClean
  <2>2. call' = [call EXCEPT ![r] = c]
    BY <1>5 DEF Begin
  <2>3. CASE Throws(c)
    <3> HIDE DEF set
    <3>1. opt' = [opt EXCEPT ![r] = set] /\ pc' = [pc EXCEPT ![r] = "unwind"]
      BY <1>5, <2>3 DEF Begin, set
    <3>2. Handle(pc'[r], opt'[r], call'[r])
      BY <2>1, <2>2, <2>3, <3>1 DEF Handle
    <3> QED BY <2>2, <3>1, <3>2, HandlesStep
  <2>4. CASE ~ Throws(c)
    <3> HIDE DEF set, formed
    <3>1. opt' = [opt EXCEPT ![r] = formed] /\ pc' = [pc EXCEPT ![r] = "set"]
      BY <1>5, <2>4 DEF Begin, set, formed
    <3>2. Handle(pc'[r], opt'[r], call'[r])
      BY <2>1, <2>2, <2>4, <3>1 DEF Handle
    <3> QED BY <2>2, <3>1, <3>2, HandlesStep
  <2> QED BY <2>3, <2>4
<1>6. ASSUME NEW r \in Requests, Perform(r)
      PROVE  Handles'
  <2>1. Complete(opt[r], call[r])
    BY <1>6 DEF Perform, Handles, Handle
  <2>2. call[r].verb \in {"get", "post", "post_json", "post_mime"}
    BY CallsAre
  <2>3. opt[r].method = "POST_FORM" => opt[r].httppost
    BY <2>1, <2>2 DEF Complete
  <2>4. UNCHANGED <<opt, call>>
    BY <1>6 DEF Perform
  <2>5. Handle(pc'[r], opt'[r], call'[r])
    BY <1>6, <2>1, <2>3, <2>4 DEF Perform, Handle
  <2> QED BY <1>6, <2>4, <2>5, HandlesStep DEF Perform
<1>7. ASSUME NEW r \in Requests, Return(r)
      PROVE  Handles'
  <2> DEFINE o == IF pc[r] = "sent" THEN [opt[r] EXCEPT !.sink = "null"] ELSE opt[r]
             c == call[r]
             undone == Expire(UndoFields(UndoUrl(UndoHeaders(UndoForm(o, c), c)), c))
  <2>0. opt[r] \in Options /\ c \in Calls /\ c.verb \in {"get", "post", "post_json", "post_mime"}
    BY CallsAre
  <2>1. /\ o \in Options /\ Begun(o, c) /\ o.sink = "null"
        /\ o.mime # "null" => ~ Throws(c) /\ c.verb = "post_mime"
    <3>1. CASE pc[r] = "sent"
      <4>1. Complete(opt[r], c)
        BY <3>1 DEF Handles, Handle
      <4>2. o = [opt[r] EXCEPT !.sink = "null"]
        BY <3>1
      <4> HIDE DEF o
      <4>3. /\ o \in Options /\ o.sink = "null"
            /\ o.url = opt[r].url /\ o.headers = opt[r].headers
            /\ o.postfields = opt[r].postfields /\ o.mime = opt[r].mime
        BY <2>0, <4>2 DEF Options, Pointers
      <4> QED BY <2>0, <4>1, <4>3 DEF Complete, Begun
    <3>2. CASE pc[r] = "unwind"
      BY <2>0, <3>2 DEF Handles, Handle, Broken
    <3> QED BY <1>7, <3>1, <3>2 DEF Return
  <2>2. Clean(undone)
    BY <2>0, <2>1, ReturnsClean
  <2>3. /\ opt' = [opt EXCEPT ![r] = undone]
        /\ pc' = [pc EXCEPT ![r] = "idle"]
        /\ call' = [call EXCEPT ![r] = NoCall]
    BY <1>7 DEF Return
  <2> HIDE DEF undone
  <2>4. Handle(pc'[r], opt'[r], call'[r])
    BY <2>2, <2>3 DEF Handle
  <2> QED BY <2>3, <2>4, HandlesStep
<1> QED BY <1>1, <1>2, <1>3, <1>4, <1>5, <1>6, <1>7 DEF Next

LEMMA NextKept ==
  ASSUME TypeOK, KeptAsAsked, Next
  PROVE  KeptAsAsked'
<1> USE DEF TypeOK, KeptAsAsked, options
<1>1. ASSUME NEW r \in Requests, Construct(r)
      PROVE  KeptAsAsked'
  BY <1>1 DEF Construct
<1>2. ASSUME NEW r \in Requests, ConstructFails(r) \/ Destroy(r) \/ Perform(r)
      PROVE  KeptAsAsked'
  BY <1>2 DEF ConstructFails, Destroy, Perform
<1>3. ASSUME NEW r \in Requests, NEW s \in Setters,
             NEW args \in [DOMAIN OptionsSet[s] -> Arguments(s)],
             NEW n \in 0 .. Len(OptionsSet[s]), Set(r, s, args, n)
      PROVE  KeptAsAsked'
  <2> DEFINE names == OptionsSet[s]
             set == [o \in Kept |-> IF \E i \in 1 .. n : names[i] = o
                       THEN args[CHOOSE i \in 1 .. n : names[i] = o] ELSE kept[r][o]]
             wish == [o \in Kept |-> IF \E i \in DOMAIN names : names[i] = o
                        THEN IF n = Len(names) THEN kept'[r][o] ELSE "unsure"
                        ELSE asked[r][o]]
  <2>1. s \in DOMAIN OptionsSet
    BY HttpAssumption
  <2>2. 1 .. n \subseteq DOMAIN names
    BY <2>1 DEF OptionsSet
  <2>3. kept' = [kept EXCEPT ![r] = set] /\ asked' = [asked EXCEPT ![r] = wish]
    BY <1>3 DEF Set
  <2>4. ASSUME NEW o \in Kept, wish[o] # "unsure"
        PROVE  set[o] = wish[o]
    <3>1. CASE \E i \in DOMAIN names : names[i] = o
      BY <2>3, <2>4, <3>1
    <3>2. CASE ~ \E i \in DOMAIN names : names[i] = o
      BY <2>2, <2>4, <3>2
    <3> QED BY <3>1, <3>2
  <2> HIDE DEF set, wish
  <2> QED BY <2>3, <2>4
<1>4. ASSUME NEW r \in Requests, NEW c \in Calls, Begin(r, c)
      PROVE  KeptAsAsked'
  BY <1>4 DEF Begin
<1>5. ASSUME NEW r \in Requests, Return(r)
      PROVE  KeptAsAsked'
  BY <1>5 DEF Return, AfterCall
<1> QED BY <1>1, <1>2, <1>3, <1>4, <1>5 DEF Next

LEMMA NextAlone ==
  ASSUME TypeOK, Alone, Next
  PROVE  Alone'
<1> USE DEF TypeOK, Alone, Alive, options, cookieVars
<1>1. ASSUME NEW r \in Requests, Construct(r)
      PROVE  Alone'
  <2>1. /\ pc' = [pc EXCEPT ![r] = "idle"]
        /\ loaded' = [loaded EXCEPT ![r] = FALSE]
        /\ shared' = ShareWith(r)
        /\ globals' > 0
    BY <1>1 DEF Construct, easy_init
  <2> QED BY <2>1 DEF ShareWith
<1>2. ASSUME NEW r \in Requests, ConstructFails(r)
      PROVE  Alone'
  BY <1>2 DEF ConstructFails, ShareWith
<1>3. ASSUME NEW r \in Requests, Destroy(r)
      PROVE  Alone'
  <2>1. pc[r] = "idle" /\ pc' = [pc EXCEPT ![r] = "none"] /\ UNCHANGED shared
    BY <1>3 DEF Destroy
  <2>2. \A q \in Requests : pc'[q] # "none" => shared'[q]
    BY <2>1
  <2> QED BY <2>2
<1>4. ASSUME NEW r \in Requests, NEW s \in Setters,
             NEW args \in [DOMAIN OptionsSet[s] -> Arguments(s)],
             NEW n \in 0 .. Len(OptionsSet[s]), Set(r, s, args, n)
      PROVE  Alone'
  BY <1>4 DEF Set
<1>5. ASSUME NEW r \in Requests, NEW c \in Calls, Begin(r, c)
      PROVE  Alone'
  <2>1. /\ pc[r] = "idle"
        /\ pc' \in {[pc EXCEPT ![r] = "unwind"], [pc EXCEPT ![r] = "set"]}
        /\ UNCHANGED <<globals, file, jar, loaded, shared>>
    BY <1>5 DEF Begin
  <2> QED BY <2>1
<1>6. ASSUME NEW r \in Requests, Perform(r)
      PROVE  Alone'
  <2>1. PICK new \in SUBSET Cookies : jar' = [jar EXCEPT ![r] = JarOf(r) \cup new]
    BY <1>6 DEF Perform
  <2>2. /\ pc[r] = "set"
        /\ pc' \in {[pc EXCEPT ![r] = "crashed"], [pc EXCEPT ![r] = "sent"]}
        /\ UNCHANGED <<globals, file, shared>>
        /\ loaded' = [loaded EXCEPT ![r] = TRUE]
    BY <1>6 DEF Perform
  <2>3. ~ shared[r] => file \subseteq jar'[r]
    BY <2>1, <2>2 DEF JarOf
  <2> QED BY <2>1, <2>2, <2>3
<1>7. ASSUME NEW r \in Requests, Return(r)
      PROVE  Alone'
  BY <1>7 DEF Return
<1> QED BY <1>1, <1>2, <1>3, <1>4, <1>5, <1>6, <1>7 DEF Next

LEMMA NextUnread ==
  ASSUME TypeOK, Unread, Next
  PROVE  Unread'
<1> USE DEF TypeOK, Unread, Alive, options, cookieVars
<1>1. ASSUME NEW r \in Requests, Construct(r)
      PROVE  Unread'
  BY <1>1 DEF Construct
<1>2. ASSUME NEW r \in Requests, ConstructFails(r)
      PROVE  Unread'
  BY <1>2 DEF ConstructFails
<1>3. ASSUME NEW r \in Requests, Destroy(r)
      PROVE  Unread'
  BY <1>3 DEF Destroy
<1>4. ASSUME NEW r \in Requests, NEW s \in Setters,
             NEW args \in [DOMAIN OptionsSet[s] -> Arguments(s)],
             NEW n \in 0 .. Len(OptionsSet[s]), Set(r, s, args, n)
      PROVE  Unread'
  BY <1>4 DEF Set
<1>5. ASSUME NEW r \in Requests, NEW c \in Calls, Begin(r, c)
      PROVE  Unread'
  <2>1. /\ pc[r] = "idle"
        /\ \A q \in Requests : pc'[q] = "none" => pc[q] = "none"
        /\ UNCHANGED <<jar, loaded>>
    BY <1>5 DEF Begin
  <2> QED BY <2>1
<1>6. ASSUME NEW r \in Requests, Perform(r)
      PROVE  Unread'
  BY <1>6 DEF Perform
<1>7. ASSUME NEW r \in Requests, Return(r)
      PROVE  Unread'
  BY <1>7 DEF Return
<1> QED BY <1>1, <1>2, <1>3, <1>4, <1>5, <1>6, <1>7 DEF Next

(* CookiesKept, one cookie at a time. *)
LEMMA CookiesKeptEach ==
  CookiesKept <=> \A c \in received : c \in file \/ \E q \in Requests : Alive(q) /\ c \in jar[q]
BY DEF CookiesKept

LEMMA NextCookies ==
  ASSUME TypeOK, Alone, Unread, CookiesKept, Next
  PROVE  CookiesKept'
<1> USE DEF TypeOK, Alive, options, cookieVars
<1> DEFINE Each == \A c \in received : c \in file \/ \E q \in Requests : Alive(q) /\ c \in jar[q]
<1>0. Each /\ (CookiesKept' <=> Each')
  BY CookiesKeptEach DEF CookiesKept
<1>1. ASSUME NEW r \in Requests, Construct(r)
      PROVE  Each'
  BY <1>0, <1>1 DEF Construct
<1>2. ASSUME NEW r \in Requests, ConstructFails(r)
      PROVE  Each'
  BY <1>0, <1>2 DEF ConstructFails
<1>3. ASSUME NEW r \in Requests, Destroy(r)
      PROVE  Each'
  <2>1. /\ pc[r] = "idle" /\ pc' = [pc EXCEPT ![r] = "none"]
        /\ file' = JarOf(r)
        /\ jar' = [jar EXCEPT ![r] = {}]
    BY <1>3 DEF Destroy
  <2>2. CASE shared[r]
    <3>1. received' = received \cap (JarOf(r) \cup UNION {jar[q] : q \in Requests \ {r}})
      BY <1>3, <2>2 DEF Destroy
    <3>2. ASSUME NEW c \in received'
          PROVE  c \in file' \/ \E q \in Requests : Alive(q)' /\ c \in jar'[q]
      <4>1. c \in JarOf(r) \/ \E q \in Requests \ {r} : c \in jar[q]
        BY <3>1
      <4>2. \A q \in Requests \ {r} : c \in jar[q] => Alive(q)' /\ c \in jar'[q]
        BY <2>1 DEF Unread
      <4> QED BY <2>1, <4>1, <4>2
    <3> QED BY <3>2
  <2>3. CASE ~ shared[r]
    <3>1. received' = received
      BY <1>3, <2>3 DEF Destroy
    <3>2. file \cup jar[r] \subseteq JarOf(r)
      BY <2>1, <2>3 DEF JarOf, Alone, Unread
    <3>3. \A q \in Requests : Alive(q) => q = r
      BY <2>1, <2>3 DEF Alone
    <3> QED BY <1>0, <2>1, <3>1, <3>2, <3>3
  <2> QED BY <2>2, <2>3
<1>4. ASSUME NEW r \in Requests, NEW s \in Setters,
             NEW args \in [DOMAIN OptionsSet[s] -> Arguments(s)],
             NEW n \in 0 .. Len(OptionsSet[s]), Set(r, s, args, n)
      PROVE  Each'
  BY <1>0, <1>4 DEF Set
<1>5. ASSUME NEW r \in Requests, NEW c \in Calls, Begin(r, c)
      PROVE  Each'
  <2>1. /\ \A q \in Requests : pc[q] # "none" => pc'[q] # "none"
        /\ UNCHANGED <<file, jar, received>>
    BY <1>5 DEF Begin
  <2> QED BY <1>0, <2>1
<1>6. ASSUME NEW r \in Requests, Perform(r)
      PROVE  Each'
  <2>1. PICK new \in SUBSET Cookies : /\ jar' = [jar EXCEPT ![r] = JarOf(r) \cup new]
                                      /\ received' = received \cup new
    BY <1>6 DEF Perform
  <2>2. \A q \in Requests : jar[q] \subseteq jar'[q]
    BY <2>1 DEF JarOf, Unread
  <2>3. /\ new \subseteq jar'[r] /\ Alive(r)'
        /\ \A q \in Requests : Alive(q) => Alive(q)'
        /\ UNCHANGED file
    BY <1>6, <2>1 DEF Perform
  <2> QED BY <1>0, <2>1, <2>2, <2>3
<1>7. ASSUME NEW r \in Requests, Return(r)
      PROVE  Each'
  <2>1. /\ \A q \in Requests : pc[q] # "none" => pc'[q] # "none"
        /\ UNCHANGED <<file, jar, received>>
    BY <1>7 DEF Return
  <2> QED BY <1>0, <2>1
<1> QED BY <1>0, <1>1, <1>2, <1>3, <1>4, <1>5, <1>6, <1>7 DEF Next

LEMMA NextInvariant ==
  ASSUME IInv, [Next]_vars
  PROVE  IInv'
<1>1. CASE UNCHANGED vars
  BY <1>1 DEF IInv, vars, options, cookieVars, TypeOK, Handles, KeptAsAsked, Alone,
              Alive, Unread, CookiesKept
<1>2. CASE Next
  BY <1>2, NextTyped, NextHandles, NextKept, NextAlone, NextUnread, NextCookies DEF IInv
<1> QED BY <1>1, <1>2

THEOREM Invariant == Spec => []IInv
BY InitInvariant, NextInvariant, PTL DEF Spec

-----------------------------------------------------------------------------
(* What follows from it *)

\* Every request sent is the one its call asked for: what was called, thrown or
\* returned on the handle before leaves no trace in it.
THEOREM RequestsAsAsked == Spec => []SentAsAsked
<1>1. IInv => SentAsAsked
  <2> SUFFICES ASSUME IInv, NEW r \in Requests, pc[r] = "sent"
               PROVE  SentAsAsked!(r)!2
    BY DEF SentAsAsked
  <2>1. Complete(opt[r], call[r]) /\ opt[r].method # "POST_FORM"
    BY DEF IInv, Handles, Handle
  <2>2. call[r].verb \in {"get", "post", "post_json", "post_mime"}
    BY CallsAre DEF IInv, TypeOK
  <2> QED BY <2>1, <2>2 DEF Complete, Begun
<1> QED BY <1>1, Invariant, PTL

\* A setter holds until it is called again, whatever happens in between.
THEOREM SettersHold == Spec => []SentAsSet
<1>1. IInv => SentAsSet
  BY DEF IInv, KeptAsAsked, SentAsSet
<1> QED BY <1>1, Invariant, PTL

\* No handle ever points into a call that has ended.
THEOREM NoneStale == Spec => []NothingStale
<1>1. IInv => NothingStale
  <2> SUFFICES ASSUME IInv, NEW r \in Requests,
                      NEW field \in {"postfields", "url", "headers", "mime", "sink"}
               PROVE  opt[r][field] # "stale"
    BY DEF NothingStale
  <2>1. /\ pc[r] \in {"none", "idle", "set", "sent", "unwind", "crashed"}
        /\ call[r].verb \in {"get", "post", "post_json", "post_mime"}
    BY CallsAre DEF IInv, TypeOK
  <2>2. Clean(opt[r]) \/ Complete(opt[r], call[r]) \/ Broken(opt[r], call[r])
    BY <2>1 DEF IInv, Handles, Handle
  <2> QED BY <2>1, <2>2 DEF Clean, Complete, Broken, Begun
<1> QED BY <1>1, Invariant, PTL

\* libcurl is initialised during the calls of a Request that shares its life with
\* no other, whatever Requests before it did to its counter.
THEOREM Initialised == Spec => []GlobalsHeld
<1>1. IInv => GlobalsHeld
  BY DEF IInv, Alone, Alive, InCall, GlobalsHeld
<1> QED BY <1>1, Invariant, PTL

\* Cookies outlive the Requests that received them.
THEOREM CookiesOutlive == Spec => []CookiesKept
<1>1. IInv => CookiesKept
  BY DEF IInv
<1> QED BY <1>1, Invariant, PTL
=============================================================================
