------------------------------ MODULE UrlProofs ------------------------------
(* Proofs about Url, for strings of any length and maps of any size: that what  *)
(* to_string() builds of a representable query parses to it again, and that     *)
(* every query that was parsed is representable.                                *)
EXTENDS Url, SequenceTheorems, FiniteSetTheorems, WellFoundedInduction, TLAPS

-----------------------------------------------------------------------------
(* Induction by least counterexample *)

\* A set of natural numbers that is not empty has a least element.
LEMMA Least ==
  ASSUME NEW W, W \subseteq Nat, W # {}
  PROVE  \E n \in W : \A m \in W : n <= m
  <1> DEFINE R == OpToRel(<, Nat)
  <1>1. IsWellFoundedOn(R, Nat)
    BY NatLessThanWellFounded
  <1> HIDE DEF R
  <1>2. PICK n \in W : \A m \in W : ~ (<<m, n>> \in R)
    BY <1>1, WFMin
  <1>3. \A m \in Nat : m < n => <<m, n>> \in R
    BY DEF R, OpToRel
  <1>4. ASSUME NEW m \in W PROVE n <= m
    <2>1. m \in Nat /\ n \in Nat
      OBVIOUS
    <2>2. ~ (<<m, n>> \in R)
      BY <1>2
    <2>3. ~ (m < n)
      BY <1>3, <2>1, <2>2
    <2> QED BY <2>1, <2>3
  <1> QED BY <1>4

\* Course-of-values induction, of a set instead of a predicate.
LEMMA UpInduction ==
  ASSUME NEW N \in Nat, NEW W,
         \A n \in 0 .. N : (\A m \in 0 .. n - 1 : m \in W) => n \in W
  PROVE  \A n \in 0 .. N : n \in W
  <1> DEFINE Bad == {n \in 0 .. N : n \notin W}
  <1>1. Bad \subseteq Nat
    OBVIOUS
  <1>2. \A n \in 0 .. N : n \in W \/ n \in Bad
    OBVIOUS
  <1>3. \A n \in Bad : n \in 0 .. N /\ n \notin W
    OBVIOUS
  <1> HIDE DEF Bad
  <1>4. ASSUME Bad # {} PROVE FALSE
    <2>1. PICK n \in Bad : \A m \in Bad : n <= m
      BY <1>1, <1>4, Least
    <2>2. n \in 0 .. N /\ n \notin W
      BY <1>3, <2>1
    <2>3. ASSUME NEW m \in 0 .. n - 1 PROVE m \in W
      <3>1. m \in 0 .. N /\ ~ (n <= m)
        BY <2>2
      <3>2. m \notin Bad
        BY <2>1, <3>1
      <3> QED BY <1>2, <3>1, <3>2
    <2> QED BY <2>2, <2>3
  <1> QED BY <1>2, <1>4

-----------------------------------------------------------------------------
(* libcurl decodes what it encoded, a character at a time. *)

LEMMA StringAt ==
  ASSUME NEW U, NEW s \in Seq(U)
  PROVE  /\ Len(s) \in Nat /\ DOMAIN s = 1 .. Len(s)
         /\ \A i \in 1 .. Len(s) : s[i] \in U
  <1> QED BY LenProperties, ElementOfSeq

LEMMA DecodeType ==
  ASSUME NEW s \in Seq(Tokens)
  PROVE  /\ Decode(s) \in Seq(Characters) /\ Len(Decode(s)) = Len(s)
         /\ \A i \in 1 .. Len(s) : Decode(s)[i] = DecodeToken(s[i])
  <1>1. Len(s) \in Nat /\ DOMAIN s = 1 .. Len(s) /\ \A i \in 1 .. Len(s) : s[i] \in Tokens
    BY StringAt
  <1>2. \A t \in Tokens : DecodeToken(t) \in Characters
    BY DEF Tokens, Characters, DecodeToken
  <1>3. /\ Decode(s) \in [1 .. Len(s) -> Characters]
        /\ \A i \in 1 .. Len(s) : Decode(s)[i] = DecodeToken(s[i])
    BY <1>1, <1>2 DEF Decode
  <1> HIDE DEF Decode
  <1> QED BY <1>1, <1>3

LEMMA DecodeConcat ==
  ASSUME NEW s \in Seq(Tokens), NEW t \in Seq(Tokens)
  PROVE  Decode(s \o t) = Decode(s) \o Decode(t)
  <1> DEFINE a == Decode(s \o t)
             b == Decode(s) \o Decode(t)
  <1>1. Len(s) \in Nat /\ Len(t) \in Nat
    BY StringAt
  <1>2. /\ s \o t \in Seq(Tokens) /\ Len(s \o t) = Len(s) + Len(t)
        /\ \A i \in 1 .. Len(s) + Len(t) :
             (s \o t)[i] = IF i <= Len(s) THEN s[i] ELSE t[i - Len(s)]
    BY ConcatProperties
  <1>3. /\ a \in Seq(Characters) /\ Len(a) = Len(s) + Len(t)
        /\ \A i \in 1 .. Len(s) + Len(t) : a[i] = DecodeToken((s \o t)[i])
    <2>1. /\ a \in Seq(Characters) /\ Len(a) = Len(s \o t)
          /\ \A i \in 1 .. Len(s \o t) : a[i] = DecodeToken((s \o t)[i])
      BY <1>2, DecodeType
    <2> QED BY <1>2, <2>1
  <1>4. /\ Decode(s) \in Seq(Characters) /\ Len(Decode(s)) = Len(s)
        /\ \A i \in 1 .. Len(s) : Decode(s)[i] = DecodeToken(s[i])
    BY DecodeType
  <1>5. /\ Decode(t) \in Seq(Characters) /\ Len(Decode(t)) = Len(t)
        /\ \A i \in 1 .. Len(t) : Decode(t)[i] = DecodeToken(t[i])
    BY DecodeType
  <1>6. /\ b \in Seq(Characters) /\ Len(b) = Len(s) + Len(t)
        /\ \A i \in 1 .. Len(s) + Len(t) :
             b[i] = IF i <= Len(s) THEN Decode(s)[i] ELSE Decode(t)[i - Len(s)]
    <2>1. PICK p \in Seq(Characters), r \in Seq(Characters) : p = Decode(s) /\ r = Decode(t)
      BY <1>4, <1>5
    <2>2. /\ p \o r \in Seq(Characters) /\ Len(p \o r) = Len(p) + Len(r)
          /\ \A i \in 1 .. Len(p) + Len(r) :
               (p \o r)[i] = IF i <= Len(p) THEN p[i] ELSE r[i - Len(p)]
      BY ConcatProperties
    <2> QED BY <1>4, <1>5, <2>1, <2>2
  <1> HIDE DEF a, b
  <1>7. ASSUME NEW i \in 1 .. Len(s) + Len(t) PROVE a[i] = b[i]
    <2>1. CASE i <= Len(s)
      <3>1. i \in 1 .. Len(s)
        BY <1>1, <2>1
      <3> QED BY <1>2, <1>3, <1>4, <1>6, <2>1, <3>1
    <2>2. CASE ~ (i <= Len(s))
      <3>1. i - Len(s) \in 1 .. Len(t)
        BY <1>1, <2>2
      <3>2. PICK j \in 1 .. Len(t) : j = i - Len(s)
        BY <3>1
      <3> QED BY <1>2, <1>3, <1>5, <1>6, <2>2, <3>2
    <2> QED BY <2>1, <2>2
  <1>8. a = b
    BY <1>3, <1>6, <1>7
  <1> QED BY <1>8 DEF a, b

LEMMA Decodes ==
  ASSUME NEW w \in Seq(Characters), NEW e, DOMAIN e = DOMAIN w, e = [i \in DOMAIN w |-> e[i]],
         \A i \in DOMAIN w :
           (e[i] = w[i] /\ w[i] \in {"=", "/"}) \/ e[i] = EncodeCharacter(w[i])
  PROVE  e \in Seq(Tokens) /\ Decode(e) = w
  <1>1. Len(w) \in Nat /\ DOMAIN w = 1 .. Len(w) /\ \A i \in 1 .. Len(w) : w[i] \in Characters
    BY StringAt
  <1>2. \A c \in Characters : /\ EncodeCharacter(c) \in Tokens
                              /\ DecodeToken(EncodeCharacter(c)) = c
                              /\ (c \in {"=", "/"} => c \in Tokens /\ DecodeToken(c) = c)
    BY DEF Characters, Tokens, EncodeCharacter, DecodeToken
  <1>3. \A i \in 1 .. Len(w) : e[i] \in Tokens /\ DecodeToken(e[i]) = w[i]
    BY <1>1, <1>2
  <1>4. e \in [1 .. Len(w) -> Tokens]
    BY <1>1, <1>3
  <1>5. e \in Seq(Tokens) /\ Len(e) = Len(w)
    BY <1>1, <1>4
  <1>6. Decode(e) \in Seq(Characters) /\ Len(Decode(e)) = Len(w)
        /\ \A i \in 1 .. Len(w) : Decode(e)[i] = w[i]
    BY <1>3, <1>5, DecodeType
  <1> QED BY <1>5, <1>6

LEMMA PathDecodes ==
  ASSUME NEW p \in Seq(Characters)
  PROVE  Decode(EncodePath(p)) = p
  <1> DEFINE e == EncodePath(p)
  <1>1. e = [i \in DOMAIN p |-> IF p[i] = "/" THEN "/" ELSE EncodeCharacter(p[i])]
    BY DEF EncodePath
  <1>2. /\ DOMAIN e = DOMAIN p /\ e = [i \in DOMAIN p |-> e[i]]
        /\ \A i \in DOMAIN p :
             (e[i] = p[i] /\ p[i] \in {"=", "/"}) \/ e[i] = EncodeCharacter(p[i])
    BY <1>1
  <1> HIDE DEF e
  <1>3. Decode(e) = p
    BY <1>2, Decodes
  <1> QED BY <1>3 DEF e

LEMMA PieceDecodes ==
  ASSUME NEW w \in Seq(Characters)
  PROVE  EncodePiece(w) \in Seq(Tokens) /\ Decode(EncodePiece(w)) = w
  <1> DEFINE e == EncodePiece(w)
             first(i) == w[i] = "=" /\ \A j \in 1 .. i - 1 : w[j] # "="
  <1>1. e = [i \in DOMAIN w |-> IF first(i) THEN "=" ELSE EncodeCharacter(w[i])]
    BY DEF EncodePiece
  <1>2. first(1) \in BOOLEAN /\ \A i : first(i) => w[i] = "="
    OBVIOUS
  <1> HIDE DEF first
  <1>3. /\ DOMAIN e = DOMAIN w /\ e = [i \in DOMAIN w |-> e[i]]
        /\ \A i \in DOMAIN w :
             (e[i] = w[i] /\ w[i] \in {"=", "/"}) \/ e[i] = EncodeCharacter(w[i])
    BY <1>1, <1>2
  <1> HIDE DEF e
  <1>4. e \in Seq(Tokens) /\ Decode(e) = w
    BY <1>3, Decodes
  <1> QED BY <1>4 DEF e

-----------------------------------------------------------------------------
(* The pieces of a query, one after the other *)

Separator(n) == IF n = 1 THEN <<>> ELSE <<"&">>
JoinStep(q, order, f, n) ==
  IF n = 0 THEN <<>> ELSE f[n - 1] \o Separator(n) \o Piece(order[n], q[order[n]])
Joins(q, order, f, N) == \A n \in 0 .. N : f[n] = JoinStep(q, order, f, n)

LEMMA JoinsExtend ==
  ASSUME NEW q, NEW order, NEW k \in Nat, k > 0, NEW f, Joins(q, order, f, k - 1)
  PROVE  \E g : Joins(q, order, g, k)
  <1> DEFINE g == [n \in 0 .. k |-> IF n = k THEN JoinStep(q, order, f, k) ELSE f[n]]
  <1>1. \A n \in 0 .. k - 1 : g[n] = f[n]
    OBVIOUS
  <1>2. g[k] = JoinStep(q, order, f, k)
    OBVIOUS
  <1>3. k - 1 \in 0 .. k - 1 /\ k # 0
    OBVIOUS
  <1>4. \A n \in 0 .. k - 1 : n = 0 \/ n - 1 \in 0 .. k - 1
    OBVIOUS
  <1>5. \A n \in 0 .. k : n = k \/ n \in 0 .. k - 1
    OBVIOUS
  <1> HIDE DEF g
  <1>6. ASSUME NEW n \in 0 .. k - 1 PROVE g[n] = JoinStep(q, order, g, n)
    <2>1. f[n] = JoinStep(q, order, f, n)
      BY DEF Joins
    <2>2. n = 0 \/ g[n - 1] = f[n - 1]
      BY <1>1, <1>4
    <2> QED BY <1>1, <2>1, <2>2 DEF JoinStep
  <1>7. g[k] = JoinStep(q, order, g, k)
    BY <1>1, <1>2, <1>3 DEF JoinStep
  <1> QED BY <1>5, <1>6, <1>7 DEF Joins

LEMMA JoinUnfolds ==
  ASSUME NEW q, NEW order, Len(order) \in Nat
  PROVE  \E f : Join(q, order) = f[Len(order)] /\ Joins(q, order, f, Len(order))
  <1> DEFINE N == Len(order)
             Defined == {k \in 0 .. N : \E f : Joins(q, order, f, k)}
             IsJoin(f) == f = [n \in 0 .. N |-> JoinStep(q, order, f, n)]
             upTo == CHOOSE f : IsJoin(f)
  <1>1. Join(q, order) = upTo[N]
    BY DEF Join, JoinStep, Separator
  <1>2. ASSUME NEW k \in 0 .. N, \A m \in 0 .. k - 1 : m \in Defined
        PROVE  k \in Defined
    <2>1. CASE k = 0
      <3>1. Joins(q, order, [n \in {0} |-> <<>>], 0)
        BY DEF Joins, JoinStep
      <3> QED BY <2>1, <3>1
    <2>2. CASE k > 0
      <3>1. k - 1 \in 0 .. k - 1 /\ k \in Nat
        BY <2>2
      <3>2. PICK f : Joins(q, order, f, k - 1)
        BY <1>2, <3>1
      <3> QED BY <2>2, <3>1, <3>2, JoinsExtend
    <2> QED BY <2>1, <2>2
  <1>3. \A k \in 0 .. N : k \in Defined
    <2> HIDE DEF Defined
    <2> QED BY <1>2, UpInduction
  <1>4. PICK g : Joins(q, order, g, N)
    <2>1. N \in 0 .. N
      OBVIOUS
    <2> QED BY <1>3, <2>1
  <1> DEFINE h == [n \in 0 .. N |-> g[n]]
  <1>5. ASSUME NEW n \in 0 .. N PROVE h[n] = JoinStep(q, order, h, n)
    <2>1. g[n] = JoinStep(q, order, g, n)
      BY <1>4 DEF Joins
    <2>2. n = 0 \/ n - 1 \in 0 .. N
      OBVIOUS
    <2>3. n = 0 \/ h[n - 1] = g[n - 1]
      BY <2>2
    <2>4. h[n] = g[n]
      OBVIOUS
    <2> HIDE DEF h
    <2> QED BY <2>1, <2>3, <2>4 DEF JoinStep
  <1>6. h = [n \in 0 .. N |-> h[n]]
    OBVIOUS
  <1> HIDE DEF h
  <1>7. IsJoin(h)
    BY <1>5, <1>6
  <1>8. IsJoin(upTo)
    <2> HIDE DEF IsJoin
    <2> QED BY <1>7
  <1> HIDE DEF upTo
  <1>9. Joins(q, order, upTo, N)
    BY <1>8 DEF Joins
  <1> QED BY <1>1, <1>9

-----------------------------------------------------------------------------
(* Where items begin and end *)

\* Two strings and a character between them.
LEMMA Between ==
  ASSUME NEW a \in Seq(Characters), NEW c \in Characters, NEW b \in Seq(Characters),
         NEW t, t = a \o <<c>> \o b
  PROVE  /\ t \in Seq(Characters) /\ Len(t) = Len(a) + 1 + Len(b)
         /\ \A i \in 1 .. Len(a) : t[i] = a[i]
         /\ t[Len(a) + 1] = c
         /\ \A i \in 1 .. Len(b) : t[Len(a) + 1 + i] = b[i]
  <1>1. Len(a) \in Nat /\ Len(b) \in Nat
    BY StringAt
  <1>2. PICK m \in Seq(Characters) : m = <<c>> /\ Len(m) = 1 /\ m[1] = c
    <2>1. <<c>> \in Seq(Characters) /\ Len(<<c>>) = 1 /\ <<c>>[1] = c
      OBVIOUS
    <2> QED BY <2>1
  <1>3. PICK p : p = a \o m
    OBVIOUS
  <1>4. /\ p \in Seq(Characters) /\ Len(p) = Len(a) + Len(m)
        /\ \A i \in 1 .. Len(a) + Len(m) : p[i] = IF i <= Len(a) THEN a[i] ELSE m[i - Len(a)]
    BY ONLY <1>2, <1>3, a \in Seq(Characters), ConcatProperties
  <1>5. /\ t \in Seq(Characters) /\ Len(t) = Len(p) + Len(b)
        /\ \A i \in 1 .. Len(p) + Len(b) : t[i] = IF i <= Len(p) THEN p[i] ELSE b[i - Len(p)]
    <2>1. PICK r \in Seq(Characters) : r = p
      BY <1>4
    <2>2. t = r \o b
      BY <1>2, <1>3, <2>1
    <2>3. /\ r \o b \in Seq(Characters) /\ Len(r \o b) = Len(r) + Len(b)
          /\ \A i \in 1 .. Len(r) + Len(b) :
               (r \o b)[i] = IF i <= Len(r) THEN r[i] ELSE b[i - Len(r)]
      BY ConcatProperties
    <2> QED BY <2>1, <2>2, <2>3
  <1>6. Len(p) = Len(a) + 1 /\ Len(t) = Len(a) + 1 + Len(b)
    BY <1>1, <1>2, <1>4, <1>5
  <1>7. ASSUME NEW i \in 1 .. Len(a) PROVE t[i] = a[i]
    <2>1. i <= Len(p) /\ i \in 1 .. Len(p) + Len(b) /\ i \in 1 .. Len(a) + Len(m) /\ i <= Len(a)
      BY <1>1, <1>2, <1>6
    <2> QED BY <1>4, <1>5, <2>1
  <1>8. t[Len(a) + 1] = c
    <2>1. PICK n \in Nat : n = Len(a) + 1
      BY <1>1
    <2>2. n <= Len(p) /\ n \in 1 .. Len(p) + Len(b) /\ n \in 1 .. Len(a) + Len(m)
          /\ ~ (n <= Len(a)) /\ n - Len(a) = 1
      BY <1>1, <1>2, <1>6, <2>1
    <2> QED BY <1>2, <1>4, <1>5, <2>1, <2>2
  <1>9. ASSUME NEW i \in 1 .. Len(b) PROVE t[Len(a) + 1 + i] = b[i]
    <2>1. PICK n \in Nat : n = Len(a) + 1 + i
      BY <1>1
    <2>2. ~ (n <= Len(p)) /\ n \in 1 .. Len(p) + Len(b) /\ n - Len(p) = i
      BY <1>1, <1>6, <2>1
    <2> QED BY <1>5, <2>1, <2>2
  <1> QED BY <1>5, <1>6, <1>7, <1>8, <1>9

LEMMA MinIs ==
  ASSUME NEW U, U \subseteq Int, NEW x \in U, \A y \in U : x <= y
  PROVE  Min(U) = x
  <1>1. Min(U) \in U /\ \A y \in U : Min(U) <= y
    BY DEF Min
  <1>2. PICK m \in U : m = Min(U) /\ \A y \in U : m <= y
    BY <1>1
  <1>3. m <= x /\ x <= m /\ m \in Int /\ x \in Int
    BY <1>2
  <1> QED BY <1>2, <1>3

LEMMA MinIn ==
  ASSUME NEW U, U \subseteq Nat, U # {}
  PROVE  Min(U) \in U /\ \A y \in U : Min(U) <= y
  <1>1. PICK x \in U : \A y \in U : x <= y
    BY Least
  <1>2. U \subseteq Int
    OBVIOUS
  <1>3. Min(U) = x
    BY <1>1, <1>2, MinIs
  <1> QED BY <1>1, <1>3

(* x is what is between i and the next "&", or the end.                         *)
IsItem(s, i, x) ==
  \E e \in i .. Len(s) + 1 : /\ e = Len(s) + 1 \/ s[e] = "&"
                             /\ \A j \in i .. e - 1 : s[j] # "&"
                             /\ x = SubSeq(s, i, e - 1)

LEMMA ItemIs ==
  ASSUME NEW s \in Seq(Characters), NEW i \in 1 .. Len(s) + 1
  PROVE  /\ \A x : IsItem(s, i, x) => Item(s, i) = x
         /\ IsItem(s, i, Item(s, i))
  <1> DEFINE ends == {j \in i .. Len(s) + 1 : j = Len(s) + 1 \/ s[j] = "&"}
  <1>1. Len(s) \in Nat /\ i \in Nat
    BY StringAt
  <1>2. ends \subseteq Nat /\ ends \subseteq Int /\ Len(s) + 1 \in ends
    BY <1>1
  <1>3. \A j \in i .. Len(s) : s[j] = "&" => j \in ends
    BY <1>1
  <1>4. \A e \in ends : e \in i .. Len(s) + 1 /\ (e = Len(s) + 1 \/ s[e] = "&")
    OBVIOUS
  <1>5. Item(s, i) = SubSeq(s, i, Min(ends) - 1)
    BY DEF Item
  <1>6. \A e \in i .. Len(s) + 1 : e = Len(s) + 1 \/ s[e] = "&" => e \in ends
    OBVIOUS
  <1> HIDE DEF ends
  <1>7. ASSUME NEW x, IsItem(s, i, x) PROVE Item(s, i) = x
    <2>1. PICK e \in i .. Len(s) + 1 : /\ e = Len(s) + 1 \/ s[e] = "&"
                                       /\ \A j \in i .. e - 1 : s[j] # "&"
                                       /\ x = SubSeq(s, i, e - 1)
      BY <1>7 DEF IsItem
    <2>2. e \in ends
      BY <1>6, <2>1
    <2>3. ASSUME NEW y \in ends PROVE e <= y
      <3>1. y \in i .. Len(s) + 1 /\ (y = Len(s) + 1 \/ s[y] = "&")
        BY <1>4
      <3>2. ~ (y \in i .. e - 1)
        <4> SUFFICES ASSUME y \in i .. e - 1 PROVE FALSE
          OBVIOUS
        <4>1. s[y] # "&"
          BY <2>1
        <4>2. y # Len(s) + 1
          BY <1>1
        <4> QED BY <3>1, <4>1, <4>2
      <3> QED BY <1>1, <3>1, <3>2
    <2>4. Min(ends) = e
      BY <1>2, <2>2, <2>3, MinIs
    <2> QED BY <1>5, <2>1, <2>4
  <1>8. IsItem(s, i, Item(s, i))
    <2>1. Min(ends) \in ends /\ \A y \in ends : Min(ends) <= y
      BY <1>2, MinIn
    <2>2. PICK e \in ends : e = Min(ends) /\ \A y \in ends : e <= y
      BY <2>1
    <2>3. e \in i .. Len(s) + 1 /\ (e = Len(s) + 1 \/ s[e] = "&")
      BY <1>4
    <2>4. ASSUME NEW j \in i .. e - 1 PROVE s[j] # "&"
      <3>1. j \in i .. Len(s) /\ ~ (e <= j)
        BY <1>1, <2>3
      <3> QED BY <1>3, <2>2, <3>1
    <2> QED BY <1>5, <2>2, <2>3, <2>4 DEF IsItem
  <1> QED BY <1>7, <1>8

\* A string without "&" is one item.
LEMMA OneItem ==
  ASSUME NEW w \in Seq(Characters), Len(w) > 0, ~ Has(w, "&")
  PROVE  /\ Starts(w) = {1} /\ IsItem(w, 1, w)
         /\ w[Len(w)] # "&"
  <1>1. Len(w) \in Nat /\ DOMAIN w = 1 .. Len(w)
    BY StringAt
  <1>2. \A j \in 1 .. Len(w) : w[j] # "&"
    BY <1>1 DEF Has
  <1>3. ASSUME NEW i \in Starts(w) PROVE i = 1
    <2>1. i \in 1 .. Len(w) + 1 /\ (i = 1 \/ w[i - 1] = "&")
      BY DEF Starts
    <2>2. i # 1 => i - 1 \in 1 .. Len(w)
      BY <1>1, <2>1
    <2> QED BY <1>2, <2>1, <2>2
  <1>4. 1 \in Starts(w)
    <2>1. 1 \in 1 .. Len(w) + 1
      BY <1>1
    <2> QED BY <2>1 DEF Starts
  <1>5. IsItem(w, 1, w)
    <2>1. SubSeq(w, 1, Len(w)) = w
      BY SubSeqFull
    <2>2. PICK e \in 1 .. Len(w) + 1 : e = Len(w) + 1 /\ e - 1 = Len(w)
      BY <1>1
    <2> QED BY <1>2, <2>1, <2>2 DEF IsItem
  <1>6. Len(w) \in 1 .. Len(w)
    BY <1>1
  <1> QED BY <1>2, <1>3, <1>4, <1>5, <1>6

-----------------------------------------------------------------------------
(* One more item, and what an item is made of *)

LEMMA SameSlice ==
  ASSUME NEW U, NEW s \in Seq(U), NEW t \in Seq(U), NEW a \in Nat, NEW e \in Nat, NEW off \in Nat,
         a > 0, e <= Len(s), off + e <= Len(t),
         \A i \in a .. e : t[off + i] = s[i]
  PROVE  SubSeq(t, off + a, off + e) = SubSeq(s, a, e)
  <1>0. Len(s) \in Nat /\ Len(t) \in Nat
    BY StringAt
  <1>1. a .. e \subseteq 1 .. Len(s)
    BY <1>0
  <1>2. PICK b \in Nat, f \in Nat : b = off + a /\ f = off + e
    OBVIOUS
  <1>3. b .. f \subseteq 1 .. Len(t) /\ a \in Int /\ e \in Int /\ b \in Int /\ f \in Int
    BY <1>0, <1>2
  <1> DEFINE p == SubSeq(s, a, e)
             r == SubSeq(t, b, f)
  <1>4. /\ p \in Seq(U) /\ Len(p) = (IF a <= e THEN e - a + 1 ELSE 0)
        /\ \A i \in 1 .. e - a + 1 : p[i] = s[a + i - 1]
    BY <1>0, <1>1, <1>3, SubSeqProperties
  <1>5. /\ r \in Seq(U) /\ Len(r) = (IF b <= f THEN f - b + 1 ELSE 0)
        /\ \A i \in 1 .. f - b + 1 : r[i] = t[b + i - 1]
    BY <1>0, <1>2, <1>3, SubSeqProperties
  <1> HIDE DEF p, r
  <1>6. f - b + 1 = e - a + 1 /\ (b <= f) = (a <= e)
    BY <1>2
  <1>7. Len(p) = Len(r)
    BY <1>4, <1>5, <1>6
  <1>8. ASSUME NEW i \in 1 .. Len(p) PROVE p[i] = r[i]
    <2>1. i \in 1 .. e - a + 1 /\ i \in 1 .. f - b + 1
      BY <1>4, <1>6
    <2>2. PICK j \in a .. e : j = a + i - 1
      BY <2>1
    <2>3. b + i - 1 = off + j
      BY <1>2, <2>1, <2>2
    <2> QED BY <1>4, <1>5, <2>1, <2>2, <2>3
  <1>9. p = r
    BY <1>4, <1>5, <1>7, <1>8
  <1> QED BY <1>2, <1>9 DEF p, r

(* t has the items of s and one more, w.                                        *)
Grown(s, w, t) ==
  /\ t \in Seq(Characters) /\ Len(t) > 0 /\ t[Len(t)] # "&"
  /\ Starts(t) = Starts(s) \cup {Len(s) + 2}
  /\ \A x : \A i \in Starts(s) : IsItem(s, i, x) => IsItem(t, i, x)
  /\ IsItem(t, Len(s) + 2, w)

\* A string without "&" appended behind a "&": the items there were, and it.
LEMMA NextItem ==
  ASSUME NEW s \in Seq(Characters), Len(s) > 0, s[Len(s)] # "&",
         NEW w \in Seq(Characters), Len(w) > 0, ~ Has(w, "&"),
         NEW t, t = s \o <<"&">> \o w
  PROVE  Grown(s, w, t)
  <1> DEFINE L == Len(s)
             M == Len(w)
  <1>1. L \in Nat /\ M \in Nat /\ L > 0 /\ M > 0 /\ DOMAIN w = 1 .. M
    BY StringAt
  <1>2. \A j \in 1 .. M : w[j] # "&"
    BY <1>1 DEF Has
  <1>3. /\ t \in Seq(Characters) /\ Len(t) = L + 1 + M
        /\ \A i \in 1 .. L : t[i] = s[i]
        /\ t[L + 1] = "&"
        /\ \A i \in 1 .. M : t[L + 1 + i] = w[i]
    <2>1. "&" \in Characters
      BY DEF Characters
    <2> QED BY <2>1, Between
  <1>4. s[L] # "&"
    OBVIOUS
  <1> HIDE DEF L, M
  <1>5. ASSUME NEW i \in Starts(t) PROVE i \in Starts(s) \cup {L + 2}
    <2>1. i \in 1 .. L + M + 2 /\ (i = 1 \/ t[i - 1] = "&") /\ (i = 1 \/ i = L + M + 2 \/ t[i] # "&")
      BY <1>1, <1>3 DEF Starts
    <2>2. CASE i = 1
      <3>1. i \in 1 .. L + 1
        BY <1>1, <2>2
      <3> QED BY <2>2, <3>1 DEF Starts, L
    <2>3. CASE i # 1 /\ i <= L
      <3>1. i \in 1 .. L /\ i - 1 \in 1 .. L /\ i \in 1 .. L + 1 /\ i # L + M + 2
        BY <1>1, <2>1, <2>3
      <3>2. s[i - 1] = "&" /\ s[i] # "&"
        BY <1>3, <2>1, <2>3, <3>1
      <3> QED BY <3>1, <3>2 DEF Starts, L
    <2>4. CASE i = L + 1
      <3>1. i # 1 /\ i - 1 = L /\ L \in 1 .. L
        BY <1>1, <2>4
      <3> QED BY <1>3, <1>4, <2>1, <3>1
    <2>5. CASE i > L + 2
      <3>1. PICK j \in 1 .. M : j = i - L - 2
        BY <1>1, <2>1, <2>5
      <3>2. i # 1 /\ i - 1 = L + 1 + j
        BY <1>1, <2>1, <3>1
      <3> QED BY <1>2, <1>3, <2>1, <3>2
    <2>6. i = 1 \/ (i # 1 /\ i <= L) \/ i = L + 1 \/ i = L + 2 \/ i > L + 2
      BY <1>1, <2>1
    <2> QED BY <2>2, <2>3, <2>4, <2>5, <2>6
  <1>6. ASSUME NEW i \in Starts(s) PROVE i \in Starts(t) /\ i \in 1 .. L
    <2>1. i \in 1 .. L + 1 /\ (i = 1 \/ s[i - 1] = "&") /\ (i = 1 \/ i = L + 1 \/ s[i] # "&")
      BY DEF Starts, L
    <2>2. i \in 1 .. L + M + 2 /\ i # L + 1
      <3>1. i = L + 1 => i # 1 /\ i - 1 = L
        BY <1>1
      <3> QED BY <1>1, <1>4, <2>1, <3>1
    <2>3. i \in 1 .. L /\ (i = 1 \/ i - 1 \in 1 .. L)
      BY <1>1, <2>1, <2>2
    <2>4. (i = 1 \/ t[i - 1] = "&") /\ (i = 1 \/ t[i] # "&")
      BY <1>3, <2>1, <2>2, <2>3
    <2>5. i \in 1 .. Len(t) + 1
      BY <1>1, <1>3, <2>2
    <2> QED BY <2>3, <2>4, <2>5 DEF Starts
  <1>7. L + 2 \in Starts(t)
    <2>1. PICK n \in Nat : n = L + 2
      BY <1>1
    <2>2. n \in 1 .. Len(t) + 1 /\ n - 1 = L + 1 /\ n = L + 1 + 1 /\ 1 \in 1 .. M
      BY <1>1, <1>3, <2>1
    <2>3. t[n - 1] = "&" /\ t[n] # "&"
      BY <1>2, <1>3, <2>2
    <2>4. n \in Starts(t)
      BY <2>2, <2>3 DEF Starts
    <2> QED BY <2>1, <2>4
  <1>8. ASSUME NEW i \in Starts(s), NEW x, IsItem(s, i, x) PROVE IsItem(t, i, x)
    <2>1. PICK e \in i .. L + 1 : /\ e = L + 1 \/ s[e] = "&"
                                  /\ \A j \in i .. e - 1 : s[j] # "&"
                                  /\ x = SubSeq(s, i, e - 1)
      BY <1>8 DEF IsItem, L
    <2>2. i \in 1 .. L
      BY <1>6
    <2>3. e \in 1 .. L + 1 /\ e \in i .. Len(t) + 1 /\ (e = L + 1 \/ e \in 1 .. L)
      BY <1>1, <1>3, <2>1, <2>2
    <2>4. t[e] = "&"
      BY <1>3, <2>1, <2>3
    <2>5. \A j \in i .. e - 1 : j \in 1 .. L
      BY <1>1, <2>2, <2>3
    <2>6. \A j \in i .. e - 1 : t[j] = s[j]
      BY <1>3, <2>5
    <2>7. SubSeq(t, i, e - 1) = SubSeq(s, i, e - 1)
      <3>1. PICK f \in Nat : f = e - 1 /\ f <= L
        BY <1>1, <2>3
      <3>2. 0 \in Nat /\ i \in Nat /\ i > 0 /\ 0 + f <= Len(t) /\ 0 + f = f /\ 0 + i = i
        BY <1>1, <1>3, <2>2, <3>1
      <3>3. ASSUME NEW j \in i .. f PROVE t[0 + j] = s[j]
        <4>1. j \in i .. e - 1 /\ 0 + j = j
          BY <2>2, <3>1
        <4> QED BY <2>6, <4>1
      <3>4. f <= Len(s)
        BY <3>1 DEF L
      <3>5. SubSeq(t, 0 + i, 0 + f) = SubSeq(s, i, f)
        BY <1>3, <3>2, <3>3, <3>4, SameSlice
      <3> QED BY <3>1, <3>2, <3>5
    <2> QED BY <2>1, <2>3, <2>4, <2>5, <2>6, <2>7 DEF IsItem
  <1>9. IsItem(t, L + 2, w)
    <2>1. PICK n \in Nat, e \in Nat : n = L + 2 /\ e = L + M + 2
      BY <1>1
    <2>2. e \in n .. Len(t) + 1 /\ e = Len(t) + 1
      <3>1. PICK T \in Nat : T = Len(t) /\ T = L + 1 + M
        BY <1>1, <1>3
      <3>2. PICK l \in Nat, m \in Nat : l = L /\ m = M /\ m > 0
        BY <1>1
      <3>3. n = l + 2 /\ e = l + m + 2 /\ T = l + 1 + m
        BY <2>1, <3>1, <3>2
      <3>4. e = T + 1 /\ n <= e
        BY ONLY <3>2, <3>3, l \in Nat, m \in Nat, n \in Nat, e \in Nat, T \in Nat
      <3>5. e \in n .. T + 1
        BY <3>4
      <3> QED BY <3>1, <3>4, <3>5
    <2>3. ASSUME NEW j \in n .. e - 1 PROVE t[j] # "&"
      <3>1. PICK k \in 1 .. M : k = j - L - 1
        BY <1>1, <2>1
      <3>2. j = L + 1 + k
        BY <1>1, <3>1
      <3> QED BY <1>2, <1>3, <3>2
    <2>4. SubSeq(t, n, e - 1) = SubSeq(w, 1, M)
      <3>1. PICK o \in Nat : o = L + 1
        BY <1>1
      <3>2. o + 1 = n /\ o + M = e - 1 /\ o + M <= Len(t)
        BY <1>1, <1>3, <2>1, <3>1
      <3>3. \A i \in 1 .. M : t[o + i] = w[i]
        BY <1>3, <3>1
      <3>4. M <= Len(w)
        BY <1>1 DEF M
      <3>5. PICK m \in Nat : m = M
        BY <1>1
      <3>6. SubSeq(t, o + 1, o + m) = SubSeq(w, 1, m)
        <4>1. t \in Seq(Characters) /\ w \in Seq(Characters) /\ o \in Nat /\ m \in Nat /\ 1 \in Nat
              /\ 1 > 0 /\ m <= Len(w) /\ o + m <= Len(t) /\ \A i \in 1 .. m : t[o + i] = w[i]
          BY <1>3, <3>2, <3>3, <3>4, <3>5
        <4> QED BY ONLY <4>1, SameSlice
      <3> QED BY <3>2, <3>5, <3>6
    <2>5. SubSeq(w, 1, M) = w
      BY SubSeqFull DEF M
    <2>6. IsItem(t, n, w)
      BY <2>2, <2>3, <2>4, <2>5 DEF IsItem
    <2> QED BY <2>1, <2>6
  <1>10. Len(t) > 0 /\ t[Len(t)] # "&"
    <2>1. Len(t) = L + 1 + M /\ M \in 1 .. M
      BY <1>1, <1>3
    <2> QED BY <1>1, <1>2, <1>3, <2>1
  <1>11. Starts(t) = Starts(s) \cup {L + 2}
    BY <1>5, <1>6, <1>7
  <1> QED BY <1>3, <1>8, <1>9, <1>10, <1>11 DEF L, Grown

\* "key=value" is taken apart at its first "=".
LEMMA KeyAndValue ==
  ASSUME NEW k \in Seq(Characters), NEW v \in Seq(Characters), ~ Has(k, "="),
         NEW w, w = k \o <<"=">> \o v
  PROVE  Key(w) = k /\ Value(w) = v
  <1> DEFINE K == Len(k)
             V == Len(v)
  <1>1. K \in Nat /\ V \in Nat /\ DOMAIN k = 1 .. K
    BY StringAt
  <1>2. \A j \in 1 .. K : k[j] # "="
    BY <1>1 DEF Has
  <1>3. /\ w \in Seq(Characters) /\ Len(w) = K + 1 + V
        /\ \A i \in 1 .. K : w[i] = k[i]
        /\ w[K + 1] = "="
        /\ \A i \in 1 .. V : w[K + 1 + i] = v[i]
    <2>1. "=" \in Characters
      BY DEF Characters
    <2> QED BY <2>1, Between
  <1>4. DOMAIN w = 1 .. Len(w)
    BY <1>3, StringAt
  <1>5. K <= Len(k) /\ V <= Len(v) /\ SubSeq(k, 1, K) = k /\ SubSeq(v, 1, V) = v
    BY <1>1, SubSeqFull
  <1> HIDE DEF K, V
  <1>6. PICK n \in Nat : n = K + 1
    BY <1>1
  <1>7. n \in FindEquals(w)
    <2>1. n \in 1 .. Len(w)
      BY <1>1, <1>3, <1>6
    <2> QED BY <1>3, <1>4, <1>6, <2>1 DEF FindEquals
  <1>8. ASSUME NEW i \in FindEquals(w) PROVE n <= i
    <2>1. i \in 1 .. Len(w) /\ w[i] = "="
      BY <1>4 DEF FindEquals
    <2>2. ~ (i \in 1 .. K)
      BY <1>2, <1>3, <2>1
    <2> QED BY <1>1, <1>3, <1>6, <2>1, <2>2
  <1>9. Min(FindEquals(w)) = n
    <2>1. FindEquals(w) \subseteq Int
      BY <1>1, <1>3, <1>4 DEF FindEquals
    <2> QED BY <1>7, <1>8, <2>1, MinIs
  <1>10. Key(w) = SubSeq(w, 1, n - 1) /\ Value(w) = SubSeq(w, n + 1, Len(w))
    BY <1>7, <1>9 DEF Key, Value
  <1>11. SubSeq(w, 1, n - 1) = SubSeq(k, 1, K)
    <2>1. 0 \in Nat /\ 0 + 1 = 1 /\ 0 + K = K /\ n - 1 = K /\ 0 + K <= Len(w) /\ 1 \in Nat /\ 1 > 0
      BY <1>1, <1>3, <1>6
    <2>2. \A j \in 1 .. K : w[0 + j] = k[j]
      BY <1>1, <1>3
    <2>3. SubSeq(w, 0 + 1, 0 + K) = SubSeq(k, 1, K)
      BY <1>1, <1>3, <1>5, <2>1, <2>2, SameSlice
    <2> QED BY <2>1, <2>3
  <1>12. SubSeq(w, n + 1, Len(w)) = SubSeq(v, 1, V)
    <2>1. n + V = Len(w) /\ n + V <= Len(w) /\ 1 \in Nat /\ 1 > 0
      BY <1>1, <1>3, <1>6
    <2>2. \A j \in 1 .. V : w[n + j] = v[j]
      BY <1>3, <1>6
    <2>3. PICK m \in Nat : m = V
      BY <1>1
    <2>4. SubSeq(w, n + 1, n + m) = SubSeq(v, 1, m)
      <3>1. w \in Seq(Characters) /\ v \in Seq(Characters) /\ n \in Nat /\ m \in Nat /\ 1 \in Nat
            /\ 1 > 0 /\ m <= Len(v) /\ n + m <= Len(w) /\ \A i \in 1 .. m : w[n + i] = v[i]
        BY <1>3, <1>5, <2>1, <2>2, <2>3
      <3> QED BY ONLY <3>1, SameSlice
    <2> QED BY <2>1, <2>3, <2>4
  <1> QED BY <1>5, <1>10, <1>11, <1>12

-----------------------------------------------------------------------------
(* What to_string() builds has the pairs of the query as its items. *)

(* The items of s are the first n of W.                                         *)
Lists(s, W, n) ==
  /\ s \in Seq(Characters) /\ Len(s) > 0 /\ s[Len(s)] # "&"
  /\ \A i \in 1 .. n : \E j \in Starts(s) : IsItem(s, j, W[i])
  /\ \A j \in Starts(s) : \E i \in 1 .. n : IsItem(s, j, W[i])

LEMMA ListsOne ==
  ASSUME NEW W, W[1] \in Seq(Characters), Len(W[1]) > 0, ~ Has(W[1], "&")
  PROVE  Lists(W[1], W, 1)
  <1>1. PICK w \in Seq(Characters) : w = W[1]
    OBVIOUS
  <1>2. Starts(w) = {1} /\ IsItem(w, 1, w) /\ w[Len(w)] # "&"
    BY <1>1, OneItem
  <1>3. 1 \in 1 .. 1 /\ \A i \in 1 .. 1 : i = 1
    OBVIOUS
  <1>4. Len(w) > 0
    BY <1>1
  <1>5. Lists(w, W, 1)
    BY <1>1, <1>2, <1>3, <1>4 DEF Lists
  <1> QED BY <1>1, <1>5

LEMMA ListsNext ==
  ASSUME NEW W, NEW n \in Nat, NEW s, Lists(s, W, n),
         NEW w \in Seq(Characters), w = W[n + 1], Len(w) > 0, ~ Has(w, "&")
  PROVE  Lists(s \o <<"&">> \o w, W, n + 1)
  <1>1. /\ s \in Seq(Characters) /\ Len(s) > 0 /\ s[Len(s)] # "&"
        /\ \A i \in 1 .. n : \E j \in Starts(s) : IsItem(s, j, W[i])
        /\ \A j \in Starts(s) : \E i \in 1 .. n : IsItem(s, j, W[i])
    BY DEF Lists
  <1>2. PICK t : t = s \o <<"&">> \o w
    OBVIOUS
  <1>3. /\ t \in Seq(Characters) /\ Len(t) > 0 /\ t[Len(t)] # "&"
        /\ Starts(t) = Starts(s) \cup {Len(s) + 2}
        /\ \A x : \A i \in Starts(s) : IsItem(s, i, x) => IsItem(t, i, x)
        /\ IsItem(t, Len(s) + 2, w)
    <2>1. PICK z \in Seq(Characters) : z = s
      BY <1>1
    <2>2. z \in Seq(Characters) /\ Len(z) > 0 /\ z[Len(z)] # "&"
      BY <1>1, <2>1
    <2>3. w \in Seq(Characters) /\ Len(w) > 0 /\ ~ Has(w, "&")
      OBVIOUS
    <2>4. t = z \o <<"&">> \o w
      BY <1>2, <2>1
    <2>5. Grown(z, w, t)
      BY <2>2, <2>3, <2>4, NextItem
    <2> QED BY <2>1, <2>5 DEF Grown
  <1>4. PICK m \in Nat : m = n + 1
    OBVIOUS
  <1>5. \A i \in 1 .. m : i \in 1 .. n \/ i = m
    BY <1>4
  <1>6. m \in 1 .. m /\ \A i \in 1 .. n : i \in 1 .. m
    BY <1>4
  <1>7. W[m] = w
    BY <1>4
  <1>8. ASSUME NEW i \in 1 .. m PROVE \E j \in Starts(t) : IsItem(t, j, W[i])
    <2>1. CASE i = m
      BY <1>3, <1>7, <2>1
    <2>2. CASE i \in 1 .. n
      <3>1. PICK j \in Starts(s) : IsItem(s, j, W[i])
        BY <1>1, <2>2
      <3> QED BY <1>3, <3>1
    <2> QED BY <1>5, <2>1, <2>2
  <1>9. ASSUME NEW j \in Starts(t) PROVE \E i \in 1 .. m : IsItem(t, j, W[i])
    <2>1. CASE j = Len(s) + 2
      BY <1>3, <1>6, <1>7, <2>1
    <2>2. CASE j \in Starts(s)
      <3>1. PICK i \in 1 .. n : IsItem(s, j, W[i])
        BY <1>1, <2>2
      <3> QED BY <1>3, <1>6, <2>2, <3>1
    <2> QED BY <1>3, <2>1, <2>2
  <1>10. Lists(t, W, m)
    BY <1>3, <1>8, <1>9 DEF Lists
  <1> QED BY <1>2, <1>4, <1>10

(* The pairs, as they are before they are encoded.                              *)
Pair(q, order, i) == order[i] \o <<"=">> \o q[order[i]]

LEMMA PairIs ==
  ASSUME NEW k \in Seq(Characters), NEW v \in Seq(Characters),
         ~ Has(k, "&"), ~ Has(v, "&"), NEW w, w = k \o <<"=">> \o v
  PROVE  w \in Seq(Characters) /\ Len(w) > 0 /\ ~ Has(w, "&")
  <1>1. Len(k) \in Nat /\ Len(v) \in Nat /\ DOMAIN k = 1 .. Len(k) /\ DOMAIN v = 1 .. Len(v)
    BY StringAt
  <1>2. /\ w \in Seq(Characters) /\ Len(w) = Len(k) + 1 + Len(v)
        /\ \A i \in 1 .. Len(k) : w[i] = k[i]
        /\ w[Len(k) + 1] = "="
        /\ \A i \in 1 .. Len(v) : w[Len(k) + 1 + i] = v[i]
    <2>1. "=" \in Characters
      BY DEF Characters
    <2> QED BY <2>1, Between
  <1>3. DOMAIN w = 1 .. Len(w)
    BY <1>2, StringAt
  <1>4. ASSUME NEW i \in 1 .. Len(w) PROVE w[i] # "&"
    <2>1. CASE i \in 1 .. Len(k)
      BY <1>1, <1>2, <2>1 DEF Has
    <2>2. CASE i = Len(k) + 1
      BY <1>2, <2>2
    <2>3. CASE i > Len(k) + 1
      <3>1. PICK j \in 1 .. Len(v) : j = i - Len(k) - 1
        BY <1>1, <1>2, <2>3
      <3>2. i = Len(k) + 1 + j
        BY <1>1, <3>1
      <3>3. v[j] # "&"
        BY <1>1 DEF Has
      <3> QED BY <1>2, <3>2, <3>3
    <2> QED BY <1>1, <1>2, <2>1, <2>2, <2>3
  <1>5. Len(w) > 0
    BY <1>1, <1>2
  <1> QED BY <1>2, <1>3, <1>4, <1>5 DEF Has

LEMMA OrderIs ==
  ASSUME NEW q, IsQuery(q), NEW order \in Orders(DOMAIN q)
  PROVE  /\ Len(order) \in Nat /\ DOMAIN order = 1 .. Len(order)
         /\ \A i \in 1 .. Len(order) : order[i] \in DOMAIN q
         /\ \A k \in DOMAIN q : \E i \in 1 .. Len(order) : order[i] = k
  <1>1. IsFiniteSet(DOMAIN q)
    BY DEF IsQuery
  <1>2. PICK N \in Nat : N = Cardinality(DOMAIN q)
    BY <1>1, FS_CardinalityType
  <1>3. /\ order \in [1 .. N -> DOMAIN q]
        /\ \A k \in DOMAIN q : \E i \in DOMAIN order : order[i] = k
    BY <1>2 DEF Orders
  <1>4. order \in Seq(DOMAIN q) /\ Len(order) = N
    BY <1>3
  <1> QED BY <1>3, <1>4

LEMMA PairsAre ==
  ASSUME NEW q, IsQuery(q), Representable(q), NEW order \in Orders(DOMAIN q),
         NEW i \in 1 .. Len(order)
  PROVE  /\ Pair(q, order, i) \in Seq(Characters) /\ Len(Pair(q, order, i)) > 0
         /\ ~ Has(Pair(q, order, i), "&")
         /\ Key(Pair(q, order, i)) = order[i] /\ Value(Pair(q, order, i)) = q[order[i]]
  <1>1. order[i] \in DOMAIN q
    BY OrderIs
  <1>2. PICK k \in Seq(Characters), v \in Seq(Characters) : k = order[i] /\ v = q[order[i]]
    BY <1>1 DEF IsQuery
  <1>3. ~ Has(k, "&") /\ ~ Has(k, "=") /\ ~ Has(v, "&")
    BY <1>1, <1>2 DEF Representable
  <1>4. PICK w : w = k \o <<"=">> \o v
    OBVIOUS
  <1>5. w = Pair(q, order, i)
    BY <1>2, <1>4 DEF Pair
  <1>6. w \in Seq(Characters) /\ Len(w) > 0 /\ ~ Has(w, "&")
    BY <1>3, <1>4, PairIs
  <1>7. Key(w) = k /\ Value(w) = v
    BY <1>3, <1>4, KeyAndValue
  <1> QED BY <1>2, <1>5, <1>6, <1>7

LEMMA OneDecodes ==
  ASSUME NEW c \in {"&", "/"}
  PROVE  <<c>> \in Seq(Tokens) /\ Decode(<<c>>) = <<c>>
  <1>1. <<c>> \in Seq(Tokens) /\ Len(<<c>>) = 1 /\ <<c>>[1] = c
    BY DEF Tokens, Characters
  <1>2. PICK x \in Seq(Tokens) : x = <<c>> /\ Len(x) = 1 /\ x[1] = c
    BY <1>1
  <1>3. DecodeToken(c) = c
    BY DEF DecodeToken
  <1>4. PICK d : d = Decode(x)
    OBVIOUS
  <1>5. d \in Seq(Characters) /\ Len(d) = 1 /\ d[1] = c
    <2>1. /\ d \in Seq(Characters) /\ Len(d) = Len(x)
          /\ \A i \in 1 .. Len(x) : d[i] = DecodeToken(x[i])
      BY <1>4, DecodeType
    <2>2. 1 \in 1 .. Len(x)
      BY <1>2
    <2> QED BY <1>2, <1>3, <2>1, <2>2
  <1>6. d = <<c>>
    BY <1>5
  <1> QED BY <1>1, <1>2, <1>4, <1>6

LEMMA JoinLists ==
  ASSUME NEW q, IsQuery(q), Representable(q), NEW order \in Orders(DOMAIN q)
  PROVE  LET W == [i \in 1 .. Len(order) |-> Pair(q, order, i)]
         IN  /\ Len(order) > 0 => Lists(Decode(Join(q, order)), W, Len(order))
             /\ Len(order) = 0 => Join(q, order) = <<>>
  <1> DEFINE N == Len(order)
             W == [i \in 1 .. N |-> Pair(q, order, i)]
  <1>1. N \in Nat
    BY OrderIs
  <1>2. PICK f : Join(q, order) = f[N] /\ Joins(q, order, f, N)
    BY <1>1, JoinUnfolds
  <1>3. ASSUME NEW i \in 1 .. N
        PROVE  W[i] \in Seq(Characters) /\ Len(W[i]) > 0 /\ ~ Has(W[i], "&")
    <2>1. W[i] = Pair(q, order, i)
      OBVIOUS
    <2> HIDE DEF W
    <2> QED BY <2>1, PairsAre
  <1>4. ASSUME NEW i \in 1 .. N
        PROVE  /\ Piece(order[i], q[order[i]]) \in Seq(Tokens)
               /\ Decode(Piece(order[i], q[order[i]])) = W[i]
    <2>1. Pair(q, order, i) \in Seq(Characters)
      BY PairsAre
    <2>2. Piece(order[i], q[order[i]]) = EncodePiece(Pair(q, order, i))
      BY DEF Piece, Pair
    <2>3. W[i] = Pair(q, order, i)
      OBVIOUS
    <2> HIDE DEF W
    <2> QED BY <2>1, <2>2, <2>3, PieceDecodes
  <1> DEFINE Fine == {n \in 0 .. N : /\ f[n] \in Seq(Tokens)
                                     /\ n > 0 => Lists(Decode(f[n]), W, n)}
  <1> HIDE DEF W
  <1>5. f[0] = <<>>
    <2>1. 0 \in 0 .. N
      BY <1>1
    <2>2. f[0] = JoinStep(q, order, f, 0)
      BY <1>2, <2>1 DEF Joins
    <2> QED BY <2>2 DEF JoinStep
  <1>6. ASSUME NEW n \in 0 .. N, \A m \in 0 .. n - 1 : m \in Fine
        PROVE  n \in Fine
    <2>1. f[n] = JoinStep(q, order, f, n)
      BY <1>2 DEF Joins
    <2>2. CASE n = 0
      <3>1. <<>> \in Seq(Tokens)
        OBVIOUS
      <3>2. f[n] \in Seq(Tokens) /\ ~ (n > 0)
        <4>1. f[n] = <<>>
          BY <1>5, <2>2
        <4>2. ~ (n > 0)
          BY <2>2
        <4> QED BY <3>1, <4>1, <4>2
      <3> QED BY <3>2
    <2>3. CASE n = 1
      <3>1. PICK p \in Seq(Tokens) : p = Piece(order[n], q[order[n]]) /\ Decode(p) = W[n]
        <4>1. n \in 1 .. N
          BY <2>3
        <4> QED BY <1>4, <4>1
      <3>2. f[n] = <<>> \o <<>> \o p
        <4>1. f[n - 1] = <<>> /\ n # 0
          BY <1>5, <2>3
        <4>2. Separator(n) = <<>>
          BY <2>3 DEF Separator
        <4> QED BY <2>1, <3>1, <4>1, <4>2 DEF JoinStep
      <3>3. <<>> \o <<>> \o p = p
        BY ConcatEmptySeq
      <3>4. Lists(W[1], W, 1)
        BY <1>3, <2>3, ListsOne
      <3> QED BY <2>3, <3>1, <3>2, <3>3, <3>4
    <2>4. CASE n > 1
      <3>1. PICK m \in Nat : m = n - 1 /\ m > 0 /\ m + 1 = n
        BY <2>4
      <3>2. f[m] \in Seq(Tokens) /\ Lists(Decode(f[m]), W, m)
        <4>1. m \in 0 .. n - 1
          BY <3>1
        <4> QED BY <1>6, <3>1, <4>1
      <3>3. PICK a \in Seq(Tokens) : a = f[m]
        BY <3>2
      <3>4. PICK p \in Seq(Tokens) : p = Piece(order[n], q[order[n]]) /\ Decode(p) = W[n]
        <4>1. n \in 1 .. N
          BY <2>4
        <4> QED BY <1>4, <4>1
      <3>5. PICK c \in Seq(Tokens) : c = <<"&">> /\ Decode(c) = <<"&">>
        BY OneDecodes
      <3>6. f[n] = a \o c \o p
        <4>1. f[n - 1] = a /\ n # 0 /\ n # 1
          BY <2>4, <3>1, <3>3
        <4>2. Separator(n) = c
          BY <3>5, <4>1 DEF Separator
        <4> QED BY <2>1, <3>4, <4>1, <4>2 DEF JoinStep
      <3>7. PICK b \in Seq(Tokens) : b = a \o c /\ Decode(b) = Decode(a) \o <<"&">>
        <4>1. a \o c \in Seq(Tokens)
          BY ConcatProperties
        <4>2. Decode(a \o c) = Decode(a) \o Decode(c)
          BY DecodeConcat
        <4> QED BY <3>5, <4>1, <4>2
      <3>8. f[n] \in Seq(Tokens) /\ Decode(f[n]) = Decode(a) \o <<"&">> \o W[n]
        <4>1. b \o p \in Seq(Tokens)
          BY ConcatProperties
        <4>2. Decode(b \o p) = Decode(b) \o Decode(p)
          BY DecodeConcat
        <4> QED BY <3>4, <3>6, <3>7, <4>1, <4>2
      <3>9. PICK s, w \in Seq(Characters) : s = Decode(a) /\ w = W[n] /\ Len(w) > 0 /\ ~ Has(w, "&")
        <4>1. n \in 1 .. N
          BY <2>4
        <4>2. W[n] \in Seq(Characters) /\ Len(W[n]) > 0 /\ ~ Has(W[n], "&")
          BY <1>3, <4>1
        <4>3. Decode(a) \in Seq(Characters)
          BY DecodeType
        <4> QED BY <4>2, <4>3
      <3>10. Lists(s, W, m) /\ w = W[m + 1]
        BY <3>1, <3>2, <3>3, <3>9
      <3>11. Lists(s \o <<"&">> \o w, W, m + 1)
        BY <3>1, <3>9, <3>10, ListsNext
      <3> QED BY <3>1, <3>8, <3>9, <3>11
    <2> QED BY <2>2, <2>3, <2>4
  <1>7. \A n \in 0 .. N : n \in Fine
    <2> HIDE DEF Fine
    <2> QED BY <1>1, <1>6, UpInduction
  <1>8. N > 0 => Lists(Decode(f[N]), W, N)
    <2>1. N \in 0 .. N
      BY <1>1
    <2> QED BY <1>7, <2>1
  <1> QED BY <1>2, <1>5, <1>8 DEF W

-----------------------------------------------------------------------------
(* URL() finds the pairs again. *)

LEMMA ParseUnfolds ==
  ASSUME NEW s, s # <<>>
  PROVE  /\ DOMAIN ParseQuery(s) = {Key(Item(s, i)) : i \in Starts(s)}
         /\ \A k \in DOMAIN ParseQuery(s) :
              ParseQuery(s)[k] = Value(Item(s, Min({i \in Starts(s) : Key(Item(s, i)) = k})))
         /\ ParseQuery(s) = [k \in DOMAIN ParseQuery(s) |-> ParseQuery(s)[k]]
  <1> QED BY DEF ParseQuery

LEMMA FirstIs ==
  ASSUME NEW s \in Seq(Characters), NEW j \in Starts(s), NEW k, k = Key(Item(s, j))
  PROVE  LET first == Min({i \in Starts(s) : Key(Item(s, i)) = k})
         IN  first \in Starts(s) /\ Key(Item(s, first)) = k
  <1> DEFINE F == {i \in Starts(s) : Key(Item(s, i)) = k}
  <1>1. Starts(s) \subseteq Nat
    <2>1. Len(s) \in Nat
      BY StringAt
    <2> QED BY <2>1 DEF Starts
  <1>2. F \subseteq Nat /\ F # {}
    BY <1>1
  <1>3. \A i \in F : i \in Starts(s) /\ Key(Item(s, i)) = k
    OBVIOUS
  <1> HIDE DEF F
  <1>4. Min(F) \in F
    BY <1>2, MinIn
  <1>5. Min(F) \in Starts(s) /\ Key(Item(s, Min(F))) = k
    BY <1>3, <1>4
  <1> QED BY <1>5 DEF F

LEMMA StartsAre ==
  ASSUME NEW s, NEW j \in Starts(s)
  PROVE  j \in 1 .. Len(s) + 1
  <1> QED BY DEF Starts

LEMMA ListsParse ==
  ASSUME NEW q, IsQuery(q), Representable(q), NEW order \in Orders(DOMAIN q),
         NEW W, W = [i \in 1 .. Len(order) |-> Pair(q, order, i)],
         NEW s, Lists(s, W, Len(order))
  PROVE  ParseQuery(s) = q
  <1> DEFINE N == Len(order)
             p == ParseQuery(s)
  <1>1. /\ s \in Seq(Characters) /\ Len(s) > 0
        /\ \A i \in 1 .. N : \E j \in Starts(s) : IsItem(s, j, W[i])
        /\ \A j \in Starts(s) : \E i \in 1 .. N : IsItem(s, j, W[i])
    BY DEF Lists
  <1>2. s # <<>>
    BY <1>1
  <1>3. /\ DOMAIN p = {Key(Item(s, i)) : i \in Starts(s)}
        /\ \A k \in DOMAIN p :
             p[k] = Value(Item(s, Min({i \in Starts(s) : Key(Item(s, i)) = k})))
        /\ p = [k \in DOMAIN p |-> p[k]]
    BY <1>2, ParseUnfolds
  <1>4. ASSUME NEW i \in 1 .. N
        PROVE  Key(W[i]) = order[i] /\ Value(W[i]) = q[order[i]] /\ order[i] \in DOMAIN q
    <2>1. W[i] = Pair(q, order, i)
      OBVIOUS
    <2>2. Key(Pair(q, order, i)) = order[i] /\ Value(Pair(q, order, i)) = q[order[i]]
      BY PairsAre
    <2> QED BY <2>1, <2>2, OrderIs
  <1>5. \A k \in DOMAIN q : \E i \in 1 .. N : order[i] = k
    BY OrderIs
  <1>6. ASSUME NEW j \in Starts(s), NEW x, IsItem(s, j, x) PROVE Item(s, j) = x
    <2>1. j \in 1 .. Len(s) + 1
      BY StartsAre
    <2> QED BY <1>1, <1>6, <2>1, ItemIs
  <1> HIDE DEF p, N
  <1>7. ASSUME NEW j \in Starts(s)
        PROVE  \E k \in DOMAIN q : Key(Item(s, j)) = k /\ Value(Item(s, j)) = q[k]
    <2>1. PICK i \in 1 .. N : IsItem(s, j, W[i])
      BY <1>1
    <2>2. Item(s, j) = W[i]
      BY <1>6, <2>1
    <2> QED BY <1>4, <2>2
  <1>8. DOMAIN p = DOMAIN q
    <2>1. ASSUME NEW k \in DOMAIN q PROVE k \in DOMAIN p
      <3>1. PICK i \in 1 .. N : order[i] = k
        BY <1>5
      <3>2. PICK j \in Starts(s) : IsItem(s, j, W[i])
        BY <1>1
      <3>3. Key(Item(s, j)) = k
        BY <1>4, <1>6, <3>1, <3>2
      <3> QED BY <1>3, <3>3
    <2>2. ASSUME NEW k \in DOMAIN p PROVE k \in DOMAIN q
      <3>1. PICK j \in Starts(s) : k = Key(Item(s, j))
        BY <1>3
      <3> QED BY <1>7, <3>1
    <2> QED BY <2>1, <2>2
  <1>9. ASSUME NEW k \in DOMAIN p PROVE p[k] = q[k]
    <2>1. PICK j \in Starts(s) : k = Key(Item(s, j))
      BY <1>3
    <2> DEFINE first == Min({i \in Starts(s) : Key(Item(s, i)) = k})
    <2>2. first \in Starts(s) /\ Key(Item(s, first)) = k
      BY <1>1, <2>1, FirstIs
    <2>3. p[k] = Value(Item(s, first))
      BY <1>3
    <2> HIDE DEF first
    <2>4. PICK h \in DOMAIN q : Key(Item(s, first)) = h /\ Value(Item(s, first)) = q[h]
      BY <1>7, <2>2
    <2> QED BY <2>2, <2>3, <2>4
  <1>10. q = [k \in DOMAIN q |-> q[k]]
    BY DEF IsQuery
  <1>11. p = q
    BY <1>3, <1>8, <1>9, <1>10
  <1> QED BY <1>11 DEF p

\* A representable query is found again in what to_string() builds of it, in
\* whatever order the pairs of the hash map come (url.cpp: URL::URL, to_string).
THEOREM QueryRoundTrip ==
  ASSUME NEW q, IsQuery(q), Representable(q), NEW order \in Orders(DOMAIN q)
  PROVE  ParseQuery(Decode(Join(q, order))) = q
  <1> DEFINE N == Len(order)
             W == [i \in 1 .. N |-> Pair(q, order, i)]
  <1>1. /\ N > 0 => Lists(Decode(Join(q, order)), W, N)
        /\ N = 0 => Join(q, order) = <<>>
    BY JoinLists
  <1>2. N \in Nat
    BY OrderIs
  <1>3. CASE N > 0
    <2>1. PICK w, s : w = W /\ s = Decode(Join(q, order))
      OBVIOUS
    <2>2. Lists(s, w, Len(order)) /\ w = [i \in 1 .. Len(order) |-> Pair(q, order, i)]
      BY <1>1, <1>3, <2>1
    <2>3. ParseQuery(s) = q
      BY <2>2, ListsParse
    <2> QED BY <2>1, <2>3
  <1>4. CASE N = 0
    <2>1. \A k \in DOMAIN q : \E i \in 1 .. N : order[i] = k
      BY OrderIs
    <2>2. DOMAIN q = {}
      BY <1>4, <2>1
    <2>3. q = <<>>
      BY <2>2 DEF IsQuery
    <2>4. Decode(Join(q, order)) = <<>>
      <3>1. Decode(<<>>) \in Seq(Characters) /\ Len(Decode(<<>>)) = 0
        <4>1. <<>> \in Seq(Tokens) /\ Len(<<>>) = 0
          OBVIOUS
        <4> QED BY <4>1, DecodeType
      <3>2. PICK d \in Seq(Characters) : d = Decode(<<>>) /\ Len(d) = 0
        BY <3>1
      <3>3. d = <<>>
        BY <3>2
      <3> QED BY <1>1, <1>4, <3>2, <3>3
    <2>5. ParseQuery(<<>>) = <<>>
      BY DEF ParseQuery
    <2> QED BY <2>3, <2>4, <2>5
  <1> QED BY <1>2, <1>3, <1>4

-----------------------------------------------------------------------------
(* Every query URL() parses is representable. *)

LEMMA Slice ==
  ASSUME NEW x \in Seq(Characters), NEW a \in Nat, NEW b \in Int, a > 0, b <= Len(x)
  PROVE  /\ SubSeq(x, a, b) \in Seq(Characters)
         /\ \A c : (\A j \in a .. b : x[j] # c) => ~ Has(SubSeq(x, a, b), c)
  <1>0. Len(x) \in Nat /\ \A j \in 1 .. Len(x) : x[j] \in Characters
    BY StringAt
  <1>1. a \in Int /\ \A j \in a .. b : x[j] \in Characters
    BY <1>0
  <1>2. /\ SubSeq(x, a, b) \in Seq(Characters)
        /\ Len(SubSeq(x, a, b)) = (IF a <= b THEN b - a + 1 ELSE 0)
        /\ \A i \in 1 .. b - a + 1 : SubSeq(x, a, b)[i] = x[a + i - 1]
    BY <1>1, SubSeqProperties
  <1>3. PICK s \in Seq(Characters) : s = SubSeq(x, a, b)
    BY <1>2
  <1>4. DOMAIN s = 1 .. Len(s)
    BY StringAt
  <1>5. ASSUME NEW i \in DOMAIN s PROVE \E j \in a .. b : s[i] = x[j]
    <2>1. i \in 1 .. b - a + 1
      BY <1>2, <1>3, <1>4
    <2>2. PICK j \in a .. b : j = a + i - 1
      BY <2>1
    <2> QED BY <1>2, <1>3, <2>1, <2>2
  <1>6. ASSUME NEW c, \A j \in a .. b : x[j] # c PROVE ~ Has(s, c)
    BY <1>5, <1>6 DEF Has
  <1> QED BY <1>3, <1>6

LEMMA ItemsHold ==
  ASSUME NEW s \in Seq(Characters), NEW j \in Starts(s)
  PROVE  Item(s, j) \in Seq(Characters) /\ ~ Has(Item(s, j), "&")
  <1>1. j \in 1 .. Len(s) + 1 /\ Len(s) \in Nat
    BY StartsAre, StringAt
  <1>2. PICK e \in j .. Len(s) + 1 : /\ \A i \in j .. e - 1 : s[i] # "&"
                                     /\ Item(s, j) = SubSeq(s, j, e - 1)
    BY <1>1, ItemIs DEF IsItem
  <1>3. PICK b \in Int : b = e - 1 /\ b <= Len(s)
    BY <1>1
  <1>4. j \in Nat /\ j > 0 /\ \A i \in j .. b : s[i] # "&"
    BY <1>1, <1>2, <1>3
  <1>5. SubSeq(s, j, b) \in Seq(Characters) /\ ~ Has(SubSeq(s, j, b), "&")
    BY <1>3, <1>4, Slice
  <1> QED BY <1>2, <1>3, <1>5

LEMMA SplitHolds ==
  ASSUME NEW x \in Seq(Characters), ~ Has(x, "&")
  PROVE  /\ Key(x) \in Seq(Characters) /\ ~ Has(Key(x), "&") /\ ~ Has(Key(x), "=")
         /\ Value(x) \in Seq(Characters) /\ ~ Has(Value(x), "&")
  <1>1. Len(x) \in Nat /\ DOMAIN x = 1 .. Len(x)
    BY StringAt
  <1>2. \A j \in 1 .. Len(x) : x[j] # "&"
    BY <1>1 DEF Has
  <1>3. CASE FindEquals(x) = {}
    <2>1. Key(x) = x /\ Value(x) = x
      BY <1>3 DEF Key, Value
    <2>2. ~ Has(x, "=")
      BY <1>3 DEF Has, FindEquals
    <2> QED BY <2>1, <2>2
  <1>4. CASE FindEquals(x) # {}
    <2>1. FindEquals(x) \subseteq Nat
      BY <1>1 DEF FindEquals
    <2>2. Min(FindEquals(x)) \in FindEquals(x) /\ \A j \in FindEquals(x) : Min(FindEquals(x)) <= j
      BY <1>4, <2>1, MinIn
    <2>3. PICK n \in 1 .. Len(x) : n = Min(FindEquals(x)) /\ \A j \in FindEquals(x) : n <= j
      BY <1>1, <2>2 DEF FindEquals
    <2>4. Key(x) = SubSeq(x, 1, n - 1) /\ Value(x) = SubSeq(x, n + 1, Len(x))
      BY <1>4, <2>3 DEF Key, Value
    <2>5. PICK b \in Int, a \in Nat, l \in Int : b = n - 1 /\ a = n + 1 /\ l = Len(x) /\ a > 0
      <3>1. n - 1 \in Int /\ n + 1 \in Nat /\ n + 1 > 0 /\ Len(x) \in Int
        BY <1>1
      <3> QED BY <3>1
    <2>6. /\ SubSeq(x, 1, b) \in Seq(Characters)
          /\ \A c : (\A j \in 1 .. b : x[j] # c) => ~ Has(SubSeq(x, 1, b), c)
      <3>1. 1 \in Nat /\ 1 > 0 /\ b <= Len(x)
        BY <1>1, <2>5
      <3> QED BY <3>1, Slice
    <2>7. /\ SubSeq(x, a, l) \in Seq(Characters)
          /\ \A c : (\A j \in a .. l : x[j] # c) => ~ Has(SubSeq(x, a, l), c)
      <3>1. l <= Len(x)
        BY <1>1, <2>5
      <3> QED BY <2>5, <3>1, Slice
    <2>8. ASSUME NEW j \in 1 .. b PROVE x[j] # "&" /\ x[j] # "="
      <3>1. j \in 1 .. Len(x) /\ ~ (n <= j)
        BY <1>1, <2>5
      <3>2. j \notin FindEquals(x)
        BY <2>3, <3>1
      <3> QED BY <1>1, <1>2, <3>1, <3>2 DEF FindEquals
    <2>9. ASSUME NEW j \in a .. l PROVE x[j] # "&"
      <3>1. j \in 1 .. Len(x)
        BY <1>1, <2>5
      <3> QED BY <1>2, <3>1
    <2> QED BY <2>4, <2>5, <2>6, <2>7, <2>8, <2>9
  <1> QED BY <1>3, <1>4

\* Whatever was parsed, no key has a "&" or a "=" and no value a "&": empty
\* items, repeated keys and decoded escapes do not matter (url.cpp: URL::URL).
THEOREM ParsedRepresentable ==
  ASSUME NEW s \in Seq(Characters)
  PROVE  IsQuery(ParseQuery(s)) /\ Representable(ParseQuery(s))
  <1> DEFINE p == ParseQuery(s)
  <1>1. CASE s = <<>>
    <2>1. p = <<>>
      BY <1>1 DEF ParseQuery
    <2> HIDE DEF p
    <2>2. DOMAIN p = {}
      BY <2>1
    <2>3. IsFiniteSet(DOMAIN p)
      BY <2>2, FS_EmptySet
    <2>4. p \in [DOMAIN p -> Seq(Characters)]
      BY <2>1, <2>2
    <2>5. IsQuery(p) /\ Representable(p)
      BY <2>2, <2>3, <2>4 DEF IsQuery, Representable
    <2> QED BY <2>5 DEF p
  <1>2. CASE s # <<>>
    <2>1. /\ DOMAIN p = {Key(Item(s, i)) : i \in Starts(s)}
          /\ \A k \in DOMAIN p :
               p[k] = Value(Item(s, Min({i \in Starts(s) : Key(Item(s, i)) = k})))
          /\ p = [k \in DOMAIN p |-> p[k]]
      BY <1>2, ParseUnfolds
    <2> HIDE DEF p
    <2>2. ASSUME NEW j \in Starts(s)
          PROVE  LET x == Item(s, j)
                 IN  /\ Key(x) \in Seq(Characters) /\ ~ Has(Key(x), "&") /\ ~ Has(Key(x), "=")
                     /\ Value(x) \in Seq(Characters) /\ ~ Has(Value(x), "&")
      BY ItemsHold, SplitHolds
    <2>3. ASSUME NEW k \in DOMAIN p
          PROVE  /\ k \in Seq(Characters) /\ ~ Has(k, "&") /\ ~ Has(k, "=")
                 /\ p[k] \in Seq(Characters) /\ ~ Has(p[k], "&")
      <3>1. PICK j \in Starts(s) : k = Key(Item(s, j))
        BY <2>1
      <3> DEFINE first == Min({i \in Starts(s) : Key(Item(s, i)) = k})
      <3>2. first \in Starts(s) /\ Key(Item(s, first)) = k
        BY <3>1, FirstIs
      <3>3. p[k] = Value(Item(s, first))
        BY <2>1
      <3> HIDE DEF first
      <3> QED BY <2>2, <3>2, <3>3
    <2>4. IsFiniteSet(DOMAIN p)
      <3>1. IsFiniteSet(Starts(s))
        <4>1. Len(s) + 1 \in Int /\ 1 \in Int
          BY StringAt
        <4>2. IsFiniteSet(1 .. Len(s) + 1)
          BY <4>1, FS_Interval
        <4>3. Starts(s) \in SUBSET (1 .. Len(s) + 1)
          BY StartsAre
        <4> QED BY <4>2, <4>3, FS_Subset
      <3> DEFINE f == [i \in Starts(s) |-> Key(Item(s, i))]
      <3>2. f \in Surjection(Starts(s), DOMAIN p)
        BY <2>1 DEF Surjection
      <3> HIDE DEF f
      <3> QED BY <3>1, <3>2, FS_Surjection
    <2>5. IsQuery(p)
      <3>1. p \in [DOMAIN p -> Seq(Characters)]
        BY <2>1, <2>3
      <3> QED BY <2>3, <2>4, <3>1 DEF IsQuery
    <2>6. Representable(p)
      BY <2>3 DEF Representable
    <2> QED BY <2>5, <2>6 DEF p
  <1> QED BY <1>1, <1>2

-----------------------------------------------------------------------------
(* The specification *)

IsUrl(u) ==
  /\ u = [path |-> u.path, query |-> u.query, parts |-> u.parts]
  /\ u.path \in Seq(Characters) /\ IsQuery(u.query) /\ u.parts \in SomeParts

\* There is a text to parse until there is an object, and what was built was
\* built of this object.
UrlInv ==
  /\ url = NoUrl \/ IsUrl(url)
  /\ url = NoUrl => /\ text \in [path : PathTexts, query : QueryTexts, parts : SomeParts]
                    /\ built = NoText
  /\ built # NoText => url # NoUrl /\ built \in Build(url)

LEMMA UrlIsThere ==
  ASSUME NEW u, IsUrl(u)
  PROVE  u # NoUrl
  <1>1. u.parts["schema"] = "https"
    <2>1. \E host, optional : u.parts = PartsOf(host, optional)
      BY DEF IsUrl, SomeParts
    <2>2. "schema" \in Parts
      BY DEF Parts
    <2>3. \A host, optional : PartsOf(host, optional)["schema"] = "https"
      BY <2>2 DEF PartsOf
    <2> QED BY <2>1, <2>3
  <1>2. NoUrl.parts["schema"] = "no url"
    BY DEF NoUrl, Parts
  <1> QED BY <1>1, <1>2

\* A URL object survives being built and parsed again, when its query is
\* representable; an empty path comes back as "/".
THEOREM UrlRoundTrip ==
  ASSUME NEW u, IsUrl(u), Representable(u.query), NEW b \in Build(u)
  PROVE  Parse(b) = Normal(u)
  <1>1. PICK order \in Orders(DOMAIN u.query) :
          b = [path |-> IF u.path = <<>> THEN <<"/">> ELSE EncodePath(u.path),
               query |-> Join(u.query, order), parts |-> u.parts]
    BY DEF Build
  <1>2. ParseQuery(Decode(Join(u.query, order))) = u.query
    BY QueryRoundTrip DEF IsUrl
  <1>3. Decode(b.path) = IF u.path = <<>> THEN <<"/">> ELSE u.path
    <2>1. Decode(<<"/">>) = <<"/">>
      BY OneDecodes
    <2>2. Decode(EncodePath(u.path)) = u.path
      BY PathDecodes DEF IsUrl
    <2>3. b.path = IF u.path = <<>> THEN <<"/">> ELSE EncodePath(u.path)
      BY <1>1
    <2> QED BY <2>1, <2>2, <2>3
  <1>4. b.query = Join(u.query, order) /\ b.parts = u.parts
    BY <1>1
  <1>5. Parse(b) = [path |-> IF u.path = <<>> THEN <<"/">> ELSE u.path,
                    query |-> u.query, parts |-> u.parts]
    BY <1>2, <1>3, <1>4 DEF Parse
  <1>6. u = [path |-> u.path, query |-> u.query, parts |-> u.parts]
    BY DEF IsUrl
  <1>7. PICK p, q, r : p = u.path /\ q = u.query /\ r = u.parts
    OBVIOUS
  <1>8. [[path |-> p, query |-> q, parts |-> r] EXCEPT !.path = IF @ = <<>> THEN <<"/">> ELSE @]
        = [path |-> IF p = <<>> THEN <<"/">> ELSE p, query |-> q, parts |-> r]
    OBVIOUS
  <1>9. Normal(u) = [path |-> IF u.path = <<>> THEN <<"/">> ELSE u.path,
                     query |-> u.query, parts |-> u.parts]
    BY <1>6, <1>7, <1>8 DEF Normal
  <1> QED BY <1>5, <1>9

LEMMA ParsedIsUrl ==
  ASSUME NEW t \in [path : PathTexts, query : QueryTexts, parts : SomeParts]
  PROVE  IsUrl(Parse(t)) /\ Representable(Parse(t).query)
  <1>1. t.path \in Seq(Tokens) /\ t.query \in Seq(Tokens) /\ t.parts \in SomeParts
    BY UrlAssumption
  <1>2. Decode(t.path) \in Seq(Characters) /\ Decode(t.query) \in Seq(Characters)
    BY <1>1, DecodeType
  <1>3. IsQuery(ParseQuery(Decode(t.query))) /\ Representable(ParseQuery(Decode(t.query)))
    BY <1>2, ParsedRepresentable
  <1>4. Parse(t) = [path |-> Decode(t.path), query |-> ParseQuery(Decode(t.query)),
                    parts |-> t.parts]
    BY DEF Parse
  <1> QED BY <1>1, <1>2, <1>3, <1>4 DEF IsUrl

LEMMA UrlInitial == Init => UrlInv
  BY DEF Init, UrlInv

LEMMA UrlStep ==
  ASSUME UrlInv, [Next]_vars
  PROVE  UrlInv'
  <1>1. CASE Construct
    <2>1. IsUrl(url')
      BY <1>1, ParsedIsUrl DEF Construct, UrlInv
    <2>2. url' # NoUrl
      BY <2>1, UrlIsThere
    <2>3. built' = NoText
      BY <1>1 DEF Construct, UrlInv
    <2> QED BY <2>1, <2>2, <2>3 DEF UrlInv
  <1>2. CASE ConstructDefault
    <2>1. IsUrl(url')
      <3>1. url' = [path |-> <<>>, query |-> <<>>, parts |-> PartsOf("", "")]
        BY <1>2 DEF ConstructDefault
      <3>2. url'.path = <<>> /\ url'.query = <<>> /\ url'.parts = PartsOf("", "")
        BY <3>1
      <3>3. <<>> \in Seq(Characters)
        OBVIOUS
      <3>4. IsQuery(<<>>)
        <4>1. PICK p : p = <<>>
          OBVIOUS
        <4>2. DOMAIN p = {} /\ p \in [{} -> Seq(Characters)]
          BY <4>1
        <4>3. IsFiniteSet({})
          BY FS_EmptySet
        <4>4. IsQuery(p)
          BY <4>2, <4>3 DEF IsQuery
        <4> QED BY <4>1, <4>4
      <3>5. PartsOf("", "") \in SomeParts
        BY DEF SomeParts
      <3> QED BY <3>1, <3>2, <3>3, <3>4, <3>5 DEF IsUrl
    <2>2. url' # NoUrl
      BY <2>1, UrlIsThere
    <2>3. built' = NoText
      BY <1>2 DEF ConstructDefault, UrlInv
    <2> QED BY <2>1, <2>2, <2>3 DEF UrlInv
  <1>3. CASE Set
    <2>1. IsUrl(url) /\ built' = NoText
      BY <1>3 DEF Set, UrlInv
    <2>2. PICK p, q, r : /\ url = [path |-> p, query |-> q, parts |-> r]
                         /\ p \in Seq(Characters) /\ IsQuery(q) /\ r \in SomeParts
      BY <2>1 DEF IsUrl
    <2>3. \E x, y, z : /\ url' = [path |-> x, query |-> y, parts |-> z]
                       /\ x \in Seq(Characters) /\ IsQuery(y) /\ z \in SomeParts
      <3>1. CASE \E y \in Queries : set_query(y)
        <4>1. PICK y \in Queries : url' = [url EXCEPT !.query = y]
          BY <3>1 DEF set_query
        <4>2. url' = [path |-> p, query |-> y, parts |-> r]
          BY <2>2, <4>1
        <4> QED BY <2>2, <4>2, UrlAssumption
      <3>2. CASE \E x \in Paths : set_path(x)
        <4>1. PICK x \in Paths : url' = [url EXCEPT !.path = x]
          BY <3>2 DEF set_path
        <4>2. url' = [path |-> x, query |-> q, parts |-> r]
          BY <2>2, <4>1
        <4>3. x \in Seq(Characters)
          BY UrlAssumption
        <4> QED BY <2>2, <4>2, <4>3
      <3>3. CASE \E z \in SomeParts : set_parts(z)
        <4>1. PICK z \in SomeParts : url' = [url EXCEPT !.parts = z]
          BY <3>3 DEF set_parts
        <4>2. url' = [path |-> p, query |-> q, parts |-> z]
          BY <2>2, <4>1
        <4> QED BY <2>2, <4>2
      <3> QED BY <1>3, <3>1, <3>2, <3>3 DEF Set
    <2>4. IsUrl(url')
      BY <2>3 DEF IsUrl
    <2>5. url' # NoUrl
      BY <2>4, UrlIsThere
    <2> QED BY <2>1, <2>4, <2>5 DEF UrlInv
  <1>4. CASE to_string
    BY <1>4 DEF to_string, UrlInv, Build
  <1>5. CASE UNCHANGED vars
    BY <1>5 DEF vars, UrlInv, IsUrl, IsQuery, Build
  <1> QED BY <1>1, <1>2, <1>3, <1>4, <1>5 DEF Next

\* The inductive invariant of a URL object, from its constructor or the text to
\* parse to what to_string() made of it.
THEOREM UrlInvariant == Spec => []UrlInv
  <1>1. UrlInv /\ [Next]_vars => UrlInv'
    BY UrlStep
  <1> QED BY <1>1, UrlInitial, PTL DEF Spec

\* What to_string() makes of a representable URL, in whatever order the hash map
\* has its pairs, parses to that URL again, for strings of any length.
THEOREM RepresentableParses == Spec => []BuiltParses
  <1>1. UrlInv => BuiltParses
    BY UrlRoundTrip DEF UrlInv, BuiltParses
  <1> QED BY <1>1, UrlInvariant, PTL

\* A URL that was parsed survives being built and parsed again, whatever the text.
THEOREM ParsingSettles == Spec => ParsedSurvives
  <1>1. UrlInv /\ [Next]_vars
        => [Construct => \A b \in Build(url') : Parse(b) = Normal(url')]_vars
    <2> SUFFICES ASSUME UrlInv, Construct
                 PROVE  \A b \in Build(url') : Parse(b) = Normal(url')
      OBVIOUS
    <2>1. IsUrl(url') /\ Representable(url'.query)
      BY ParsedIsUrl DEF Construct, UrlInv
    <2>2. PICK u : u = url'
      OBVIOUS
    <2>3. \A b \in Build(u) : Parse(b) = Normal(u)
      BY <2>1, <2>2, UrlRoundTrip
    <2> QED BY <2>2, <2>3
  <1> QED BY <1>1, UrlInvariant, PTL DEF Spec, ParsedSurvives
=============================================================================
