---------------------------- MODULE HelpersProofs ----------------------------
(* Proofs about the helpers of MCHelpers, for texts, archives and files of any  *)
(* size and any number of threads: what each does by itself, and that it is     *)
(* what it does beside the others.                                              *)
EXTENDS MCHelpers, SequenceTheorems, FiniteSetTheorems, WellFoundedInduction, TLAPS

-----------------------------------------------------------------------------
(* A step of the helpers is a step of one of them, and none of the others.      *)

LEMMA OneMoves ==
  ASSUME [HelpersNext]_helpersVars
  PROVE  /\ [T!Next]_(T!vars)
         /\ [O!Next]_(O!vars)
         /\ [H!Next]_(H!vars)
         /\ [F!Next]_(F!vars)
         /\ [S!Next]_(S!vars)
         /\ [Next]_vars
  <1> USE DEF helpersVars, textVars, folderVars, tidyVars, fileVars, hashVars,
              T!vars, O!vars, H!vars, F!vars, S!vars
  <1> QED BY DEF HelpersNext

\* Beside the others, each helper does what it does by itself.
THEOREM SideBySide ==
  HelpersSpec => T!Spec /\ O!Spec /\ H!Spec /\ F!Spec /\ S!Spec /\ Spec
  <1>1. HelpersInit => T!Init /\ O!Init /\ H!Init /\ F!Init /\ S!Init /\ Init
    BY DEF HelpersInit
  <1>2. [HelpersNext]_helpersVars =>
          /\ [T!Next]_(T!vars)
          /\ [O!Next]_(O!vars)
          /\ [H!Next]_(H!vars)
          /\ [F!Next]_(F!vars)
          /\ [S!Next]_(S!vars)
          /\ [Next]_vars
    BY OneMoves
  <1> QED
    BY <1>1, <1>2, PTL
    DEF HelpersSpec, T!Spec, O!Spec, H!Spec, F!Spec, S!Spec, Spec

-----------------------------------------------------------------------------
(* Induction by least counterexample *)

\* A set of natural numbers that is not empty has a least element.
LEMMA Least ==
  ASSUME NEW W, W \subseteq Nat, W # {}
  PROVE  \E n \in W : \A m \in W : n <= m
  <1> DEFINE R == OpToRel(<, Nat)
  <1>1. IsWellFoundedOn(R, Nat)
    BY NatLessThanWellFounded
  <1> HIDE DEF R
  <1>2. PICK n \in W : \A m \in W : ~ (<<m, n>> \in R)
    BY <1>1, WFMin
  <1>3. \A m \in Nat : m < n => <<m, n>> \in R
    BY DEF R, OpToRel
  <1>4. ASSUME NEW m \in W PROVE n <= m
    <2>1. m \in Nat /\ n \in Nat
      OBVIOUS
    <2>2. ~ (<<m, n>> \in R)
      BY <1>2
    <2>3. ~ (m < n)
      BY <1>3, <2>1, <2>2
    <2> QED BY <2>1, <2>3
  <1> QED BY <1>4
\* Course-of-values induction, of a set instead of a predicate.
LEMMA UpInduction ==
  ASSUME NEW N \in Nat, NEW W,
         \A n \in 0 .. N : (\A m \in 0 .. n - 1 : m \in W) => n \in W
  PROVE  \A n \in 0 .. N : n \in W
  <1> DEFINE Bad == {n \in 0 .. N : n \notin W}
  <1>1. Bad \subseteq Nat
    OBVIOUS
  <1>2. \A n \in 0 .. N : n \in W \/ n \in Bad
    OBVIOUS
  <1>3. \A n \in Bad : n \in 0 .. N /\ n \notin W
    OBVIOUS
  <1> HIDE DEF Bad
  <1>4. ASSUME Bad # {} PROVE FALSE
    <2>1. PICK n \in Bad : \A m \in Bad : n <= m
      BY <1>1, <1>4, Least
    <2>2. n \in 0 .. N /\ n \notin W
      BY <1>3, <2>1
    <2>3. ASSUME NEW m \in 0 .. n - 1 PROVE m \in W
      <3>1. m \in 0 .. N /\ ~ (n <= m)
        BY <2>2
      <3>2. m \notin Bad
        BY <2>1, <3>1
      <3> QED BY <1>2, <3>1, <3>2
    <2> QED BY <2>2, <2>3
  <1> QED BY <1>2, <1>4

\* The same from the other end.
LEMMA DownInduction ==
  ASSUME NEW N \in Nat, NEW W,
         \A n \in 0 .. N : (\A m \in n + 1 .. N : m \in W) => n \in W
  PROVE  \A n \in 0 .. N : n \in W
  <1> DEFINE U == {n \in 0 .. N : N - n \in W}
  <1>1. ASSUME NEW n \in 0 .. N, \A m \in 0 .. n - 1 : m \in U
        PROVE  n \in U
    <2>1. N - n \in 0 .. N
      OBVIOUS
    <2>2. ASSUME NEW m \in (N - n) + 1 .. N PROVE m \in W
      <3>1. N - m \in 0 .. n - 1
        BY <2>1
      <3>2. N - m \in U
        BY <1>1, <3>1
      <3>3. N - (N - m) = m
        BY <2>1
      <3> QED BY <3>2, <3>3
    <2>3. N - n \in W
      BY <2>1, <2>2
    <2> QED BY <2>3
  <1> HIDE DEF U
  <1>2. \A n \in 0 .. N : n \in U
    BY <1>1, UpInduction
  <1>3. ASSUME NEW n \in 0 .. N PROVE n \in W
    <2>1. N - n \in 0 .. N /\ N - (N - n) = n
      OBVIOUS
    <2>2. N - n \in U
      BY <1>2, <2>1
    <2> QED BY <2>1, <2>2 DEF U
  <1> QED BY <1>3

\* A set of numbers with a bound has a greatest element.
LEMMA Greatest ==
  ASSUME NEW N \in Nat, NEW W, W \subseteq 0 .. N, W # {}
  PROVE  \E n \in W : \A m \in W : n >= m
  <1> DEFINE U == {x \in 0 .. N : N - x \in W}
  <1>1. U \subseteq Nat
    OBVIOUS
  <1>2. PICK t : t \in W
    OBVIOUS
  <1>3. t \in 0 .. N
    BY <1>2
  <1>4. N - t \in 0 .. N /\ N - (N - t) = t
    BY <1>3
  <1>5. U # {}
    BY <1>2, <1>4
  <1>6. \A x \in U : x \in 0 .. N /\ N - x \in W
    OBVIOUS
  <1>7. ASSUME NEW m \in W PROVE N - m \in U /\ m \in 0 .. N
    <2>1. m \in 0 .. N
      OBVIOUS
    <2>2. N - m \in 0 .. N /\ N - (N - m) = m
      BY <2>1
    <2> QED BY <2>1, <2>2
  <1> HIDE DEF U
  <1>8. PICK x \in U : \A y \in U : x <= y
    BY <1>1, <1>5, Least
  <1>9. N - x \in W /\ x \in 0 .. N
    BY <1>6, <1>8
  <1>10. ASSUME NEW m \in W PROVE N - x >= m
    <2>1. x <= N - m
      BY <1>7, <1>8
    <2> QED BY <1>7, <1>9, <2>1
  <1> QED BY <1>9, <1>10

(* A function on 0 .. N that jumps to a smaller argument or stops.               *)
Jumps(f, N, jump, stop) ==
  /\ f = [n \in 0 .. N |-> f[n]]
  /\ \A n \in 0 .. N : f[n] = IF jump[n] \in 0 .. n - 1 THEN f[jump[n]] ELSE stop[n]

\* There is such a function, whatever the jumps are.
LEMMA JumpsDefine ==
  ASSUME NEW N \in Nat, NEW jump, NEW stop
  PROVE  \E f : Jumps(f, N, jump, stop)
  <1> DEFINE Value(f, n) == IF jump[n] \in 0 .. n - 1 THEN f[jump[n]] ELSE stop[n]
             Upto(k) == \E f : \A n \in 0 .. k : f[n] = Value(f, n)
             Defined == {k \in 0 .. N : Upto(k)}
  <1>1. ASSUME NEW k \in 0 .. N, \A m \in 0 .. k - 1 : m \in Defined
        PROVE  k \in Defined
    <2>1. \E f : \A n \in 0 .. k - 1 : f[n] = Value(f, n)
      <3>1. CASE k = 0
        BY <3>1
      <3>2. CASE k > 0
        <4>1. k - 1 \in 0 .. k - 1
          BY <3>2
        <4>2. k - 1 \in Defined
          BY <1>1, <4>1
        <4> QED BY <4>2
      <3> QED BY <3>1, <3>2
    <2>2. PICK f : \A n \in 0 .. k - 1 : f[n] = Value(f, n)
      BY <2>1
    <2> DEFINE g == [n \in 0 .. k |-> IF n = k THEN Value(f, k) ELSE f[n]]
    <2>3. ASSUME NEW n \in 0 .. k PROVE g[n] = Value(g, n)
      <3>1. n \in Nat /\ k \in Nat
        OBVIOUS
      <3>2. ASSUME jump[n] \in 0 .. n - 1 PROVE g[jump[n]] = f[jump[n]]
        <4>1. jump[n] \in 0 .. k /\ jump[n] # k
          BY <3>1, <3>2
        <4> QED BY <4>1
      <3>3. Value(g, n) = Value(f, n)
        BY <3>2
      <3>4. CASE n = k
        BY <3>3, <3>4
      <3>5. CASE n # k
        <4>1. n \in 0 .. k - 1
          BY <3>1, <3>5
        <4>2. g[n] = f[n]
          BY <3>5
        <4>3. f[n] = Value(f, n)
          BY <2>2, <4>1
        <4> HIDE DEF g, Value
        <4> QED BY <3>3, <4>2, <4>3
      <3> QED BY <3>4, <3>5
    <2>4. Upto(k)
      <3> HIDE DEF g, Value
      <3> QED BY <2>3
    <2> QED BY <2>4
  <1>2. \A k \in 0 .. N : k \in Defined
    <2> HIDE DEF Defined
    <2> QED BY <1>1, UpInduction
  <1>3. PICK f : \A n \in 0 .. N : f[n] = Value(f, n)
    <2>1. N \in 0 .. N
      OBVIOUS
    <2>2. N \in Defined
      BY <1>2, <2>1
    <2> QED BY <2>2
  <1> DEFINE g == [n \in 0 .. N |-> f[n]]
  <1>4. ASSUME NEW n \in 0 .. N PROVE g[n] = Value(g, n)
    <2>1. g[n] = f[n] /\ f[n] = Value(f, n)
      BY <1>3
    <2>2. ASSUME jump[n] \in 0 .. n - 1 PROVE g[jump[n]] = f[jump[n]]
      <3>1. jump[n] \in 0 .. N
        BY <2>2
      <3> QED BY <3>1
    <2>3. Value(g, n) = Value(f, n)
      BY <2>2
    <2> HIDE DEF g, Value
    <2> QED BY <2>1, <2>3
  <1>5. g = [n \in 0 .. N |-> g[n]]
    OBVIOUS
  <1>6. Jumps(g, N, jump, stop)
    <2> HIDE DEF g
    <2> QED BY <1>4, <1>5 DEF Jumps
  <1> QED BY <1>6

-----------------------------------------------------------------------------
(* SharedHash *)

(* A call that no other overlaps is the only one there is, and the state has    *)
(* the data of that call as far as it has come.                                 *)
HashAlone(t) ==
  /\ S!InCall(t) => \A u \in Threads \ {t} : ~ S!InCall(u)
  /\ hashing[t] = "update" => state = <<>>
  /\ hashing[t] = "digest" => state = data[t]

HashOwn == \A t \in Threads : own[t] => HashAlone(t)

(* A call in progress has no result yet. *)
NothingHashedYet == \A t \in Threads : S!InCall(t) => hashed[t] = <<>>

HashInv == S!TypeOK /\ HashOwn /\ NothingHashedYet /\ S!HashOfOwnData

-----------------------------------------------------------------------------

LEMMA HashInit == S!Init => HashInv
  <1> SUFFICES ASSUME S!Init PROVE HashInv
    OBVIOUS
  <1>1. S!TypeOK
    BY DEF S!Init, S!TypeOK
  <1>2. HashOwn /\ NothingHashedYet /\ S!HashOfOwnData
    BY DEF S!Init, HashOwn, NothingHashedYet, S!HashOfOwnData
  <1> QED BY <1>1, <1>2 DEF HashInv

\* A second call takes the first one's claim to be alone.
LEMMA BeginKeeps ==
  ASSUME HashInv, NEW t \in Threads, NEW d \in Data, S!Begin(t, d)
  PROVE  HashInv'
  <1>1. /\ ~ S!InCall(t)
        /\ made' \in {"yes", "failed", made}
        /\ data' = [data EXCEPT ![t] = <<d>>]
        /\ hashed' = [hashed EXCEPT ![t] = <<>>]
        /\ hashing' = [hashing EXCEPT ![t] = "reset"]
        /\ own' = [u \in Threads |->
                     IF u = t THEN \A v \in Threads \ {t} : ~ S!InCall(v)
                              ELSE own[u] /\ ~ S!InCall(u)]
        /\ state' = state
    BY DEF S!Begin
  <1>2. S!TypeOK'
    <2>1. data' \in [Threads -> {<<>>} \cup {<<e>> : e \in Data}]
      BY <1>1 DEF HashInv, S!TypeOK
    <2>2. hashed' \in [Threads -> Seq(Data) \cup {S!Garbage}]
      <3>1. <<>> \in Seq(Data)
        OBVIOUS
      <3> QED BY <1>1, <3>1 DEF HashInv, S!TypeOK
    <2>3. own' \in [Threads -> BOOLEAN]
      BY <1>1, Zenon DEF HashInv, S!TypeOK
    <2> QED BY <1>1, <2>1, <2>2, <2>3 DEF HashInv, S!TypeOK
  <1>3. \A u \in Threads : u # t => S!InCall(u)' = S!InCall(u)
    BY <1>1 DEF HashInv, S!TypeOK, S!InCall
  <1>4. HashOwn'
    <2> SUFFICES ASSUME NEW u \in Threads, own'[u] PROVE HashAlone(u)'
      BY DEF HashOwn
    <2>1. CASE u = t
      BY <1>1, <1>3, <2>1 DEF HashInv, S!TypeOK, HashAlone
    <2>2. CASE u # t
      BY <1>1, <1>3, <2>2 DEF HashInv, S!TypeOK, HashAlone, S!InCall
    <2> QED BY <2>1, <2>2
  <1>5. NothingHashedYet'
    BY <1>1, <1>3 DEF HashInv, S!TypeOK, NothingHashedYet
  <1>6. S!HashOfOwnData'
    BY <1>1 DEF HashInv, S!TypeOK, S!HashOfOwnData
  <1> QED BY <1>2, <1>4, <1>5, <1>6 DEF HashInv

\* What one thread does is no concern of the others: none of them is in a call of
\* its own that this one does not overlap.
LEMMA OthersOwn ==
  ASSUME HashInv, NEW t \in Threads, S!InCall(t), NEW u \in Threads, u # t, own[u]
  PROVE  hashing[u] = "idle"
BY DEF HashInv, HashOwn, HashAlone, S!InCall

\* The calls of xxHash: the state changes, and the thread goes on or throws.
LEMMA CallKeeps ==
  ASSUME HashInv, NEW t \in Threads, S!InCall(t),
         state' \in Seq(Data) \cup {S!Garbage},
         NEW next \in {"idle", "update", "digest"}, hashing' = [hashing EXCEPT ![t] = next],
         own[t] /\ next = "update" => state' = <<>>,
         own[t] /\ next = "digest" => state' = data[t],
         UNCHANGED <<made, data, hashed, own>>
  PROVE  HashInv'
  <1>1. S!TypeOK'
    BY DEF HashInv, S!TypeOK
  <1>2. \A u \in Threads : S!InCall(u)' => S!InCall(u)
    BY DEF HashInv, S!TypeOK, S!InCall
  <1>3. HashOwn'
    <2> SUFFICES ASSUME NEW u \in Threads, own[u] PROVE HashAlone(u)'
      BY DEF HashOwn
    <2>1. CASE u = t
      <3>1. hashing'[t] = next
        BY DEF HashInv, S!TypeOK
      <3> QED BY <1>2, <2>1, <3>1 DEF HashInv, HashOwn, HashAlone, S!InCall
    <2>2. CASE u # t
      <3>1. hashing'[u] = "idle"
        BY <2>2, OthersOwn DEF HashInv, S!TypeOK
      <3> QED BY <3>1 DEF HashAlone, S!InCall
    <2> QED BY <2>1, <2>2
  <1>4. NothingHashedYet' /\ S!HashOfOwnData'
    BY <1>2 DEF HashInv, NothingHashedYet, S!HashOfOwnData
  <1> QED BY <1>1, <1>3, <1>4 DEF HashInv

LEMMA UpdateKeeps ==
  ASSUME HashInv, NEW t \in Threads, S!Update(t)
  PROVE  HashInv'
  <1>1. /\ hashing[t] = "update"
        /\ state' = IF state = S!Garbage THEN S!Garbage ELSE state \o data[t]
        /\ hashing' = [hashing EXCEPT ![t] = "digest"]
        /\ UNCHANGED <<made, data, hashed, own>>
    BY DEF S!Update
  <1>2. data[t] \in Seq(Data) /\ state \in Seq(Data) \cup {S!Garbage}
    <2>1. data[t] = <<>> \/ \E d \in Data : data[t] = <<d>>
      BY DEF HashInv, S!TypeOK
    <2>2. state \in Seq(Data) \cup {S!Garbage}
      BY DEF HashInv, S!TypeOK
    <2>3. <<>> \in Seq(Data) /\ \A d \in Data : <<d>> \in Seq(Data)
      OBVIOUS
    <2>4. data[t] \in Seq(Data)
      BY <2>1, <2>3
    <2> QED BY <2>2, <2>4
  <1>3. state' \in Seq(Data) \cup {S!Garbage}
    BY <1>1, <1>2
  <1>4. ASSUME own[t] PROVE state' = data[t]
    <2>1. state = <<>>
      BY <1>1, <1>4 DEF HashInv, HashOwn, HashAlone
    <2> QED BY <1>1, <1>2, <2>1 DEF S!Garbage
  <1>5. S!InCall(t)
    BY <1>1 DEF S!InCall
  <1> QED BY <1>1, <1>3, <1>4, <1>5, CallKeeps

LEMMA DigestKeeps ==
  ASSUME HashInv, NEW t \in Threads, S!Digest(t)
  PROVE  HashInv'
  <1>1. /\ hashing[t] = "digest"
        /\ hashed' = [hashed EXCEPT ![t] = state]
        /\ hashing' = [hashing EXCEPT ![t] = "idle"]
        /\ UNCHANGED <<made, state, data, own>>
    BY DEF S!Digest
  <1>2. S!TypeOK'
    BY <1>1 DEF HashInv, S!TypeOK
  <1>3. \A u \in Threads : S!InCall(u)' <=> u # t /\ S!InCall(u)
    BY <1>1 DEF HashInv, S!TypeOK, S!InCall
  <1>4. HashOwn'
    <2> SUFFICES ASSUME NEW u \in Threads, own[u] PROVE HashAlone(u)'
      BY <1>1 DEF HashOwn
    <2>1. hashing'[u] = "idle"
      BY <1>1, OthersOwn DEF HashInv, S!TypeOK, S!InCall
    <2> QED BY <2>1 DEF HashAlone, S!InCall
  <1>5. NothingHashedYet'
    BY <1>1, <1>3 DEF HashInv, S!TypeOK, NothingHashedYet
  <1>6. own[t] => state = data[t]
    BY <1>1 DEF HashInv, HashOwn, HashAlone
  <1>7. S!HashOfOwnData'
    BY <1>1, <1>6 DEF HashInv, S!TypeOK, S!HashOfOwnData
  <1> QED BY <1>2, <1>4, <1>5, <1>7 DEF HashInv

\* Two calls that race are not alone.
LEMMA RaceKeeps ==
  ASSUME HashInv, NEW t \in Threads, NEW u \in Threads, S!Race(t, u)
  PROVE  HashInv'
  <1>1. /\ t # u /\ S!InCall(t) /\ S!InCall(u) /\ state' = S!Garbage
        /\ UNCHANGED <<made, hashing, data, hashed, own>>
    BY DEF S!Race
  <1>2. \A v \in Threads : own[v] => hashing[v] = "idle"
    BY <1>1, OthersOwn DEF HashInv, HashOwn, HashAlone
  <1>3. S!TypeOK'
    BY <1>1 DEF HashInv, S!TypeOK
  <1>4. HashOwn'
    BY <1>1, <1>2 DEF HashOwn, HashAlone, S!InCall
  <1>5. NothingHashedYet' /\ S!HashOfOwnData'
    BY <1>1 DEF HashInv, NothingHashedYet, S!HashOfOwnData, S!InCall
  <1> QED BY <1>3, <1>4, <1>5 DEF HashInv

LEMMA HashStep == HashInv /\ [S!Next]_(S!vars) => HashInv'
  <1> SUFFICES ASSUME HashInv, [S!Next]_(S!vars) PROVE HashInv'
    OBVIOUS
  <1>1. ASSUME NEW t \in Threads, S!Reset(t) PROVE HashInv'
    <2>1. S!InCall(t) /\ <<>> \in Seq(Data)
      BY <1>1 DEF S!Reset, S!InCall
    <2> QED BY <1>1, <2>1, CallKeeps DEF S!Reset
  <1>2. ASSUME NEW t \in Threads, S!ResetThrows(t) PROVE HashInv'
    <2>1. S!InCall(t) /\ state \in Seq(Data) \cup {S!Garbage}
      BY <1>2 DEF S!ResetThrows, S!InCall, HashInv, S!TypeOK
    <2> QED BY <1>2, <2>1, CallKeeps DEF S!ResetThrows
  <1>3. CASE UNCHANGED S!vars
    BY <1>3 DEF S!vars, HashInv, S!TypeOK, HashOwn, HashAlone, S!InCall, NothingHashedYet, S!HashOfOwnData
  <1> QED
    BY <1>1, <1>2, <1>3, BeginKeeps, UpdateKeeps, DigestKeeps, RaceKeeps DEF S!Next

\* The inductive invariant of SharedHash: a call that is alone finds in the state
\* what it put there.
THEOREM HashInvariant == S!Spec => []HashInv
  <1> QED BY HashInit, HashStep, PTL DEF S!Spec

\* For any number of threads, a fast_hash() that no other overlaps hashes its own
\* data, whatever the calls before it have left in the static state.
THEOREM OwnDataHashed == S!Spec => []S!HashOfOwnData
  <1>1. HashInv => S!HashOfOwnData
    BY DEF HashInv
  <1> QED BY <1>1, HashInvariant, PTL
-----------------------------------------------------------------------------
(* Files *)

Byte == Threads \cup {F!Zero}

FileTyped ==
  /\ file \in Seq(Byte)
  /\ doing \in [Threads -> {"idle", "writing", "reading"}]
  /\ size \in [Threads -> Nat]
  /\ content \in [Threads -> Seq(Byte)]
  /\ undisturbed \in [Threads -> BOOLEAN]

NobodyWrites == \A u \in Threads : doing[u] # "writing"

(* A read that no write overlaps has the size of the file as it is.             *)
SizeHolds ==
  \A t \in Threads : doing[t] = "reading" /\ undisturbed[t] =>
    size[t] = Len(file) /\ NobodyWrites

(* A write that no other overlaps has emptied the file, and it still is.        *)
StillEmpty ==
  \A t \in Threads : doing[t] = "writing" /\ undisturbed[t] => file = <<>> /\ F!NoWriterBut(t)

WholeIsThere == whole # <<>> => file = whole[1]

(* The bytes of a file are no more than a thread writes at a time.              *)
FileBounded ==
  /\ Len(file) <= MaxSize
  /\ \A t \in Threads : size[t] <= MaxSize /\ Len(content[t]) <= MaxSize
  /\ whole \in {<<d>> : d \in F!Contents} \cup {<<>>}

FileInv == FileTyped /\ FileBounded /\ SizeHolds /\ StillEmpty /\ WholeIsThere

-----------------------------------------------------------------------------

LEMMA BytesType ==
  ASSUME NEW b \in Byte, NEW n \in Nat
  PROVE  F!Bytes(b, n) \in Seq(Byte) /\ Len(F!Bytes(b, n)) = n
BY DEF F!Bytes

LEMMA ContentsType ==
  ASSUME NEW c
  PROVE  c \in F!Contents <=> c \in Seq(Byte) /\ Len(c) <= MaxSize
  <1>1. ASSUME c \in Seq(Byte), Len(c) <= MaxSize PROVE c \in F!Contents
    <2>1. Len(c) \in 0 .. MaxSize /\ c \in [1 .. Len(c) -> Byte]
      BY <1>1, HelpersAssumption
    <2> QED BY <2>1 DEF F!Contents, Byte, F!Zero
  <1>2. ASSUME c \in F!Contents PROVE c \in Seq(Byte) /\ Len(c) <= MaxSize
    <2>1. PICK n \in 0 .. MaxSize : c \in [1 .. n -> Byte]
      BY <1>2 DEF F!Contents, Byte, F!Zero
    <2>2. n \in Nat /\ n <= MaxSize
      BY HelpersAssumption
    <2> QED BY <2>1, <2>2
  <1> QED BY <1>1, <1>2

LEMMA FileInit == F!Init => FileInv
  <1> SUFFICES ASSUME F!Init PROVE FileInv
    OBVIOUS
  <1>1. <<>> \in Seq(Byte) /\ (<<<<>>>>)[1] = <<>>
    OBVIOUS
  <1>2. FileTyped
    BY <1>1 DEF F!Init, FileTyped
  <1>4. FileBounded
    <2>1. <<>> \in F!Contents
      <3>1. <<>> \in Seq(Byte) /\ Len(<<>>) <= MaxSize
        BY <1>1, HelpersAssumption
      <3> QED BY ONLY <3>1, ContentsType
    <2> QED BY <2>1, HelpersAssumption DEF F!Init, FileBounded
  <1>3. SizeHolds /\ StillEmpty /\ WholeIsThere
    BY <1>1 DEF F!Init, SizeHolds, StillEmpty, WholeIsThere
  <1> QED BY <1>2, <1>3, <1>4 DEF FileInv

LEMMA OpenToWriteKeeps ==
  ASSUME FileInv, NEW t \in Threads, NEW n \in 0 .. MaxSize, F!OpenToWrite(t, n)
  PROVE  FileInv'
  <1>1. /\ file' = <<>> /\ whole' = <<>> /\ content' = content
        /\ size' = [size EXCEPT ![t] = n]
        /\ doing' = [doing EXCEPT ![t] = "writing"]
        /\ undisturbed' = [F!DisturbAllBut(t) EXCEPT ![t] = F!NoWriterBut(t)]
    BY DEF F!OpenToWrite, F!Truncated
  <1>2. F!NoWriterBut(t) \in BOOLEAN
    BY DEF F!NoWriterBut
  <1>3. /\ undisturbed' \in [Threads -> BOOLEAN]
        /\ undisturbed'[t] = F!NoWriterBut(t)
        /\ \A u \in Threads \ {t} : undisturbed'[u] = FALSE
    BY <1>1, <1>2 DEF F!DisturbAllBut
  <1>4. FileTyped'
    BY <1>1, <1>3 DEF FileInv, FileTyped
  <1>7. FileBounded'
    BY <1>1, HelpersAssumption DEF FileInv, FileTyped, FileBounded
  <1>5. SizeHolds' /\ WholeIsThere'
    BY <1>1, <1>3 DEF FileInv, FileTyped, SizeHolds, WholeIsThere
  <1>6. StillEmpty'
    BY <1>1, <1>3 DEF FileInv, FileTyped, StillEmpty, F!NoWriterBut
  <1> QED BY <1>4, <1>5, <1>6, <1>7 DEF FileInv

\* What a write that was alone puts into the file is the file.
LEMMA FlushKeeps ==
  ASSUME FileInv, NEW t \in Threads, NEW n \in 0 .. MaxSize, F!Flush(t, n)
  PROVE  FileInv'
  <1>1. /\ doing[t] = "writing" /\ n <= size[t] /\ content' = content
        /\ file' = F!Bytes(t, n) \o SubSeq(file, n + 1, Len(file))
        /\ doing' = [doing EXCEPT ![t] = "idle"]
        /\ whole' = IF n = size[t] /\ undisturbed[t] THEN <<F!Bytes(t, n)>> ELSE <<>>
        /\ size' = [size EXCEPT ![t] = 0]
        /\ undisturbed' = F!DisturbAllBut(t)
    BY DEF F!Flush
  <1>2. F!Bytes(t, n) \in Seq(Byte)
    BY BytesType DEF Byte
  <1>3. file' \in Seq(Byte) /\ Len(file') <= MaxSize
    <2>1. /\ file \in Seq(Byte) /\ SubSeq(file, n + 1, Len(file)) \in Seq(Byte)
          /\ Len(file) <= MaxSize /\ n \in Nat /\ n <= MaxSize
      BY HelpersAssumption DEF FileInv, FileTyped, FileBounded
    <2>2. Len(SubSeq(file, n + 1, Len(file))) = IF n <= Len(file) THEN Len(file) - n ELSE 0
      BY <2>1
    <2>3. Len(F!Bytes(t, n)) = n
      BY BytesType DEF Byte
    <2>4. file' \in Seq(Byte)
      BY <1>1, <1>2, <2>1
    <2>5. Len(file') = n + Len(SubSeq(file, n + 1, Len(file)))
      <3>1. \A a, b \in Seq(Byte) : Len(a \o b) = Len(a) + Len(b)
        OBVIOUS
      <3> QED BY <1>1, <1>2, <2>1, <2>3, <3>1
    <2> QED BY <2>1, <2>2, <2>4, <2>5, HelpersAssumption
  <1>8. FileBounded'
    <2>1. n \in Nat /\ n <= MaxSize /\ Len(F!Bytes(t, n)) = n
      BY BytesType, HelpersAssumption DEF Byte
    <2>2. F!Bytes(t, n) \in F!Contents
      BY <1>2, <2>1, ContentsType
    <2>3. whole' \in {<<d>> : d \in F!Contents} \cup {<<>>}
      BY <1>1, <2>2
    <2> QED BY <1>1, <1>3, <2>3, HelpersAssumption DEF FileInv, FileTyped, FileBounded
  <1>4. undisturbed' \in [Threads -> BOOLEAN] /\ \A u \in Threads \ {t} : ~ undisturbed'[u]
    BY <1>1 DEF F!DisturbAllBut, FileInv, FileTyped
  <1>5. FileTyped'
    BY <1>1, <1>3, <1>4 DEF FileInv, FileTyped
  <1>6. SizeHolds' /\ StillEmpty'
    BY <1>1, <1>4 DEF FileInv, FileTyped, SizeHolds, StillEmpty
  <1>7. WholeIsThere'
    <2> SUFFICES ASSUME whole' # <<>> PROVE file' = whole'[1]
      BY DEF WholeIsThere
    <2>1. undisturbed[t] /\ whole' = <<F!Bytes(t, n)>>
      BY <1>1
    <2>2. file = <<>>
      BY <1>1, <2>1 DEF FileInv, StillEmpty
    <2>3. SubSeq(file, n + 1, Len(file)) = <<>>
      BY <2>2
    <2>4. F!Bytes(t, n) \o <<>> = F!Bytes(t, n)
      BY <1>2
    <2>5. file' = F!Bytes(t, n)
      BY <1>1, <2>3, <2>4
    <2> QED BY <2>1, <2>5
  <1> QED BY <1>5, <1>6, <1>7, <1>8 DEF FileInv

LEMMA OpenToReadKeeps ==
  ASSUME FileInv, NEW t \in Threads, F!OpenToRead(t)
  PROVE  FileInv'
  <1>1. /\ doing[t] = "idle"
        /\ size' = [size EXCEPT ![t] = Len(file)]
        /\ doing' = [doing EXCEPT ![t] = "reading"]
        /\ undisturbed' = [undisturbed EXCEPT ![t] = F!NoWriterBut(t)]
        /\ UNCHANGED <<file, content, whole>>
    BY DEF F!OpenToRead
  <1>2. F!NoWriterBut(t) \in BOOLEAN /\ Len(file) \in Nat
    BY DEF F!NoWriterBut, FileInv, FileTyped
  <1>3. FileTyped'
    BY <1>1, <1>2 DEF FileInv, FileTyped
  <1>8. FileBounded'
    BY <1>1, <1>2 DEF FileInv, FileTyped, FileBounded
  <1>4. undisturbed'[t] = F!NoWriterBut(t) /\ (F!NoWriterBut(t) => NobodyWrites')
    BY <1>1 DEF FileInv, FileTyped, F!NoWriterBut, NobodyWrites
  <1>5. SizeHolds'
    <2> SUFFICES ASSUME NEW u \in Threads, doing'[u] = "reading", undisturbed'[u]
                 PROVE  size'[u] = Len(file') /\ NobodyWrites'
      BY DEF SizeHolds
    <2>1. CASE u = t
      BY <1>1, <1>4, <2>1 DEF FileInv, FileTyped
    <2>2. CASE u # t
      BY <1>1, <2>2 DEF FileInv, FileTyped, SizeHolds, NobodyWrites
    <2> QED BY <2>1, <2>2
  <1>6. StillEmpty'
    BY <1>1 DEF FileInv, FileTyped, StillEmpty, F!NoWriterBut
  <1>7. WholeIsThere'
    BY <1>1 DEF FileInv, WholeIsThere
  <1> QED BY <1>3, <1>5, <1>6, <1>7, <1>8 DEF FileInv

LEMMA ReadType ==
  ASSUME FileInv, NEW n \in Nat
  PROVE  F!ReadBytes(n) \in Seq(Byte) /\ Len(F!ReadBytes(n)) = n
  <1>1. /\ file \in Seq(Byte) /\ F!Shorter(n, Len(file)) \in Nat
        /\ F!Shorter(n, Len(file)) <= Len(file) /\ n - F!Shorter(n, Len(file)) \in Nat
    BY DEF FileInv, FileTyped, F!Shorter
  <1>2. SubSeq(file, 1, F!Shorter(n, Len(file))) \in Seq(Byte)
    BY <1>1
  <1>3. LET zeros == F!Bytes(F!Zero, n - F!Shorter(n, Len(file)))
        IN  zeros \in Seq(Byte) /\ Len(zeros) = n - F!Shorter(n, Len(file))
    BY <1>1, BytesType DEF Byte
  <1>4. Len(SubSeq(file, 1, F!Shorter(n, Len(file)))) = F!Shorter(n, Len(file))
    BY <1>1
  <1> QED BY <1>1, <1>2, <1>3, <1>4 DEF F!ReadBytes

LEMMA ReadKeeps ==
  ASSUME FileInv, NEW t \in Threads, F!Read(t)
  PROVE  FileInv'
  <1>1. /\ content' = [content EXCEPT ![t] = F!ReadBytes(size[t])]
        /\ doing[t] = "reading" /\ doing' = [doing EXCEPT ![t] = "idle"]
        /\ size' = [size EXCEPT ![t] = 0]
        /\ UNCHANGED <<file, whole, undisturbed>>
    BY DEF F!Read
  <1>2. size[t] \in Nat
    BY DEF FileInv, FileTyped
  <1>3. F!ReadBytes(size[t]) \in Seq(Byte) /\ Len(F!ReadBytes(size[t])) = size[t]
    BY <1>2, ReadType
  <1>4. FileTyped'
    BY <1>1, <1>3 DEF FileInv, FileTyped
  <1>6. FileBounded'
    BY <1>1, <1>3, HelpersAssumption DEF FileInv, FileTyped, FileBounded
  <1>5. SizeHolds' /\ StillEmpty' /\ WholeIsThere'
    BY <1>1 DEF FileInv, FileTyped, SizeHolds, StillEmpty, WholeIsThere, NobodyWrites, F!NoWriterBut
  <1> QED BY <1>4, <1>5, <1>6 DEF FileInv

LEMMA FileStep ==
  ASSUME FileInv, [F!Next]_(F!vars)
  PROVE  FileInv'
  <1>1. CASE UNCHANGED F!vars
    BY <1>1 DEF F!vars, FileInv, FileTyped, FileBounded, SizeHolds, StillEmpty, WholeIsThere, NobodyWrites,
                F!NoWriterBut
  <1> QED
    BY <1>1, OpenToWriteKeeps, FlushKeeps, OpenToReadKeeps, ReadKeeps DEF F!Next

\* A read of exactly the bytes that are there returns them and nothing more.
LEMMA ReadAll ==
  ASSUME FileInv
  PROVE  F!ReadBytes(Len(file)) = file
  <1>1. file \in Seq(Byte) /\ Len(file) \in Nat
    BY DEF FileInv, FileTyped
  <1>2. F!Shorter(Len(file), Len(file)) = Len(file)
    BY <1>1 DEF F!Shorter
  <1>3. SubSeq(file, 1, Len(file)) = file
    BY <1>1
  <1>4. F!Bytes(F!Zero, 0) = <<>>
    BY DEF F!Bytes
  <1>5. Len(file) - Len(file) = 0
    BY <1>1
  <1> QED BY <1>1, <1>2, <1>3, <1>4, <1>5 DEF F!ReadBytes

LEMMA ReadsRight ==
  ASSUME FileInv, [F!Next]_(F!vars), NEW t \in Threads,
         doing[t] = "reading", doing'[t] = "idle", undisturbed[t]
  PROVE  content'[t] = file /\ (whole # <<>> => file = whole[1])
  <1>1. F!Read(t)
    <2>1. ASSUME NEW u \in Threads, NEW n \in 0 .. MaxSize, F!OpenToWrite(u, n) \/ F!Flush(u, n)
          PROVE  FALSE
      BY <2>1 DEF F!OpenToWrite, F!Flush, FileInv, FileTyped
    <2>2. ASSUME NEW u \in Threads, F!OpenToRead(u) PROVE FALSE
      BY <2>2 DEF F!OpenToRead, FileInv, FileTyped
    <2>3. ASSUME NEW u \in Threads, u # t, F!Read(u) PROVE FALSE
      BY <2>3 DEF F!Read, FileInv, FileTyped
    <2>4. ASSUME UNCHANGED F!vars PROVE FALSE
      BY <2>4 DEF F!vars
    <2> QED BY <2>1, <2>2, <2>3, <2>4 DEF F!Next
  <1>2. size[t] = Len(file)
    BY DEF FileInv, SizeHolds
  <1>3. content'[t] = F!ReadBytes(Len(file))
    BY <1>1, <1>2 DEF F!Read, FileInv, FileTyped
  <1> QED BY <1>3, ReadAll DEF FileInv, WholeIsThere

LEMMA FileTypeOK == FileInv => F!TypeOK
  <1> SUFFICES ASSUME FileInv PROVE F!TypeOK
    OBVIOUS
  <1>1. file \in F!Contents /\ \A t \in Threads : content[t] \in F!Contents
    BY ContentsType DEF FileInv, FileTyped, FileBounded
  <1>2. \A t \in Threads : size[t] \in 0 .. MaxSize
    BY HelpersAssumption DEF FileInv, FileTyped, FileBounded
  <1> QED BY <1>1, <1>2 DEF FileInv, FileTyped, FileBounded, F!TypeOK

\* The inductive invariant of Files: what a read or a write that no other write
\* overlaps knows of the file.
THEOREM FileInvariant == F!Spec => []FileInv
  <1>1. FileInv /\ [F!Next]_(F!vars) => FileInv'
    BY FileStep
  <1> QED BY <1>1, FileInit, PTL DEF F!Spec

\* For files of any size, a read that no write overlaps returns the file, which is
\* what the last write was given if that one was alone and complete.
THEOREM ReadIsWritten == F!Spec => F!ReadsWhatWasWritten
  <1>1. FileInv /\ [F!Next]_(F!vars) =>
          \A t \in Threads : doing[t] = "reading" /\ doing'[t] = "idle" /\ undisturbed[t] =>
            /\ content'[t] = file
            /\ whole # <<>> => file = whole[1]
    BY ReadsRight
  <1> QED BY <1>1, FileInvariant, PTL DEF F!Spec, F!ReadsWhatWasWritten
-----------------------------------------------------------------------------
(* HtmlTidy *)

(* Until a call fails, the status is that of the document, and the output is to *)
(* be forced exactly for one with errors.                                       *)
TidyInv ==
  /\ H!TypeOK
  /\ call \in H!Calls \cup {"start"} => failed = {}
  /\ call \in {"force", "save"} => "save" \notin failed
  /\ call \in H!Calls \cup {"start", "force"} /\ failed = {} => (rc > 1 <=> errors)
  /\ call = "save" /\ failed = {} => (force <=> errors)
  /\ H!TidyReturnsDocument

LEMMA TidyInit == H!Init => TidyInv
  <1> SUFFICES ASSUME H!Init PROVE TidyInv
    OBVIOUS
  <1>1. /\ call = "start" /\ rc = 0 /\ failed = {}
        /\ ignore = FALSE /\ errors = FALSE /\ force = FALSE /\ output = FALSE
    BY DEF H!Init
  <1>2. {ignore, errors, force, output} \subseteq BOOLEAN
    BY <1>1
  <1>3. H!TypeOK
    BY <1>1, <1>2 DEF H!TypeOK
  <1>4. rc > 1 <=> errors
    BY <1>1
  <1> QED BY <1>1, <1>3, <1>4 DEF TidyInv, H!Calls, H!TidyReturnsDocument

LEMMA TidyStartKeeps ==
  ASSUME TidyInv, H!Start
  PROVE  TidyInv'
BY DEF H!Start, TidyInv, H!TypeOK, H!Calls, H!Ended, H!TidyReturnsDocument

\* A call that succeeds leaves the status of the document, one that fails is
\* remembered.
LEMMA TidyCallKeeps ==
  ASSUME TidyInv, NEW c \in H!Calls, H!Call(c)
  PROVE  TidyInv'
  <1>1. /\ call = c
        /\ UNCHANGED <<ignore, force, output>>
    BY DEF H!Call
  <1>2. CASE /\ errors' \in IF c = "error_buffer" THEN {FALSE} ELSE {errors, TRUE}
             /\ rc' \in IF c = "error_buffer" THEN {0} ELSE H!Status(errors')
             /\ call' = H!After(c)
             /\ failed' = failed
    <2>1. errors' \in BOOLEAN /\ errors \in BOOLEAN
      BY <1>2 DEF TidyInv, H!TypeOK
    <2>2. rc' \in 0 .. 2 /\ (rc' > 1 <=> errors')
      <3>1. CASE errors' = TRUE
        BY <1>2, <3>1 DEF H!Status
      <3>2. CASE errors' = FALSE
        BY <1>2, <3>2 DEF H!Status
      <3> QED BY <2>1, <3>1, <3>2
    <2>3. call' \in {"parse", "repair", "diagnose", "force"}
      BY <1>2 DEF H!After, H!Calls
    <2>4. failed' = {}
      BY <1>1, <1>2 DEF TidyInv
    <2>5. H!TypeOK'
      BY <1>1, <2>1, <2>2, <2>3, <2>4 DEF TidyInv, H!TypeOK, H!Calls
    <2> QED BY <2>2, <2>3, <2>4, <2>5 DEF TidyInv, H!Calls, H!TidyReturnsDocument
  <1>3. CASE rc' = -1 /\ failed' = failed \cup {c} /\ call' = "force" /\ errors' = errors
    BY <1>1, <1>3 DEF TidyInv, H!TypeOK, H!Calls, H!Ended, H!TidyReturnsDocument
  <1> QED BY <1>2, <1>3 DEF H!Call

LEMMA TidyForceKeeps ==
  ASSUME TidyInv, H!Force
  PROVE  TidyInv'
  <1>1. /\ call = "force" /\ UNCHANGED <<ignore, rc, errors, output, failed>>
        /\ \/ call' = "save" /\ force' = (rc > 1)
           \/ call' = "threw" /\ force' = force
    BY DEF H!Force
  <1>2. rc \in -1 .. 2 /\ force \in BOOLEAN /\ force' \in BOOLEAN
    <2>1. (rc > 1) \in BOOLEAN
      OBVIOUS
    <2> QED BY <1>1, <2>1 DEF TidyInv, H!TypeOK
  <1>3. H!TypeOK'
    <2>1. {ignore', errors', force', output'} \subseteq BOOLEAN
      BY <1>1, <1>2 DEF TidyInv, H!TypeOK
    <2>2. call' \in H!Ended \cup {"save"}
      BY <1>1 DEF H!Ended
    <2> QED BY <1>1, <2>1, <2>2 DEF TidyInv, H!TypeOK
  <1>4. call' = "save" /\ failed' = {} => (force' <=> errors')
    BY <1>1 DEF TidyInv
  <1> QED BY <1>1, <1>3, <1>4 DEF TidyInv, H!Calls, H!TidyReturnsDocument

\* The document is written if it has no errors or the output is forced; a document
\* with errors is returned only if they are ignored.
LEMMA TidySaveKeeps ==
  ASSUME TidyInv, H!Save
  PROVE  TidyInv'
  <1>1. /\ call = "save" /\ UNCHANGED <<ignore, errors, force>>
        /\ call' = IF H!Returns(rc') THEN "returned" ELSE "threw"
    BY DEF H!Save
  <1>2. CASE /\ rc' \in H!Status(errors)
             /\ output' = (force \/ ~ errors)
             /\ failed' = failed
    <2>1. rc' \in 0 .. 2 /\ (errors => rc' > 1)
      BY <1>2 DEF H!Status
    <2>2. output' \in BOOLEAN
      BY <1>2
    <2>3. H!TypeOK'
      BY <1>1, <1>2, <2>1, <2>2 DEF TidyInv, H!TypeOK, H!Ended
    <2>4. failed = {} => output'
      BY <1>1, <1>2 DEF TidyInv
    <2>5. call' = "returned" => (errors => ignore)
      BY <1>1, <2>1 DEF H!Returns
    <2>6. call' = "returned" => "save" \notin failed
      BY <1>1 DEF TidyInv
    <2> QED BY <1>1, <1>2, <2>3, <2>4, <2>5, <2>6 DEF TidyInv, H!Calls, H!TidyReturnsDocument
  <1>3. CASE rc' = -1 /\ failed' = failed \cup {"save"} /\ output' \in BOOLEAN
    <2>1. call' = "threw"
      BY <1>1, <1>3 DEF H!Returns
    <2> QED BY <1>1, <1>3, <2>1 DEF TidyInv, H!TypeOK, H!Calls, H!Ended, H!TidyReturnsDocument
  <1> QED BY <1>2, <1>3 DEF H!Save

LEMMA TidyStep == TidyInv /\ [H!Next]_(H!vars) => TidyInv'
  <1>1. ASSUME TidyInv, UNCHANGED H!vars PROVE TidyInv'
    BY <1>1 DEF H!vars, TidyInv, H!TypeOK, H!TidyReturnsDocument
  <1> QED
    BY <1>1, TidyStartKeeps, TidyCallKeeps, TidyForceKeeps, TidySaveKeeps DEF H!Next

\* The inductive invariant of HtmlTidy: what the status, the errors and the option
\* say of each other before each call.
THEOREM TidyInvariant == H!Spec => []TidyInv
BY TidyInit, TidyStep, PTL DEF H!Spec
-----------------------------------------------------------------------------
(* OutermostFolder *)

\* Up from the last name of a path, one name at a time, is its first name.
LEMMA UpToFirst ==
  ASSUME NEW N \in Nat, N > 0, NEW path, NEW top,
         top = [n \in 1 .. N |-> IF n > 1 THEN top[n - 1] ELSE path[n]]
  PROVE  top[N] = path[1]
  <1> DEFINE Right == {n \in 0 .. N : n > 0 => top[n] = path[1]}
  <1>1. ASSUME NEW n \in 0 .. N, \A m \in 0 .. n - 1 : m \in Right
        PROVE  n \in Right
    <2>1. CASE n > 1
      <3>1. n - 1 \in 0 .. n - 1 /\ n \in 1 .. N
        BY <2>1
      <3>2. top[n] = top[n - 1]
        BY <2>1, <3>1
      <3>3. n - 1 \in Right
        BY <1>1, <3>1
      <3> QED BY <2>1, <3>2, <3>3
    <2>2. CASE n = 1
      BY <2>2
    <2> QED BY <2>1, <2>2
  <1>2. \A n \in 0 .. N : n \in Right
    <2> HIDE DEF Right
    <2> QED BY <1>1, UpInduction
  <1> QED
    <2>1. N \in 0 .. N
      OBVIOUS
    <2> QED BY <1>2, <2>1

\* The recursion up the parents ends at the first name of the path, however long.
LEMMA TopLevel ==
  ASSUME NEW E, NEW path \in Seq(E), Len(path) > 0
  PROVE  O!get_top_level_dir(path) = path[1]
  <1>1. Len(path) \in Nat /\ Len(path) > 0
    BY LenProperties
  <1>2. ASSUME NEW n \in 1 .. Len(path) PROVE O!HasParent(SubSeq(path, 1, n)) <=> n > 1
    <2>1. n \in Nat /\ n <= Len(path)
      BY <1>1
    <2>2. Len(SubSeq(path, 1, n)) = n
      BY <2>1, SubSeqProperties
    <2> QED BY <2>2 DEF O!HasParent
  <1> DEFINE Step(f, n) == IF n > 1 THEN f[n - 1] ELSE path[n]
             IsTop(f) == f = [n \in 1 .. Len(path) |->
                           IF O!HasParent(SubSeq(path, 1, n)) THEN f[n - 1] ELSE path[n]]
             top == CHOOSE f : IsTop(f)
  <1>3. O!get_top_level_dir(path) = top[Len(path)]
    BY DEF O!get_top_level_dir
  <1>4. ASSUME NEW f
        PROVE  IsTop(f) <=> f = [n \in 1 .. Len(path) |-> Step(f, n)]
    <2>1. \A n \in 1 .. Len(path) :
            Step(f, n) = IF O!HasParent(SubSeq(path, 1, n)) THEN f[n - 1] ELSE path[n]
      BY <1>2
    <2> HIDE DEF Step
    <2> QED BY <2>1
  <1> HIDE DEF IsTop
  <1>5. IsTop([n \in 1 .. Len(path) |-> path[1]])
    <2> DEFINE up == [n \in 1 .. Len(path) |-> path[1]]
    <2>1. ASSUME NEW n \in 1 .. Len(path) PROVE up[n] = Step(up, n)
      <3>1. up[n] = path[1]
        OBVIOUS
      <3>2. CASE n > 1
        <4>1. n - 1 \in 1 .. Len(path)
          BY <1>1, <3>2
        <4>2. up[n - 1] = path[1]
          BY <4>1
        <4> QED BY <3>1, <3>2, <4>2
      <3>3. CASE ~ (n > 1)
        <4>1. n = 1
          BY <1>1, <3>3
        <4> QED BY <3>1, <4>1
      <3> QED BY <3>2, <3>3
    <2>2. up = [n \in 1 .. Len(path) |-> up[n]]
      OBVIOUS
    <2> HIDE DEF up, Step
    <2>3. up = [n \in 1 .. Len(path) |-> Step(up, n)]
      BY <2>1, <2>2
    <2>4. IsTop(up)
      BY <1>4, <2>3
    <2> QED BY <2>4 DEF up
  <1>6. IsTop(top)
    BY <1>5
  <1> HIDE DEF top
  <1> QED BY <1>1, <1>3, <1>4, <1>6, UpToFirst

(* What IsFolder() says of a header, without the recursion.                      *)
Folder(h) == Len(h.path) > 1 \/ h.dir

LEMMA OnePath ==
  ASSUME NEW n
  PROVE  /\ Len(<<n>>) = 1 /\ <<n>>[1] = n
         /\ O!get_top_level_dir(<<n>>) = n
  <1>1. <<n>> \in Seq({n}) /\ Len(<<n>>) = 1 /\ <<n>>[1] = n
    OBVIOUS
  <1>2. Len(<<n>>) > 0
    BY <1>1
  <1>3. O!get_top_level_dir(<<n>>) = <<n>>[1]
    BY <1>1, <1>2, TopLevel
  <1> QED BY <1>1, <1>3

LEMMA TwoPath ==
  ASSUME NEW n, NEW m
  PROVE  /\ Len(<<n, m>>) = 2 /\ <<n, m>>[1] = n
         /\ O!get_top_level_dir(<<n, m>>) = n
         /\ <<n, m>> # <<n>>
  <1>1. <<n, m>> \in Seq({n, m}) /\ Len(<<n, m>>) = 2 /\ <<n, m>>[1] = n
    OBVIOUS
  <1>2. Len(<<n, m>>) > 0
    BY <1>1
  <1>3. O!get_top_level_dir(<<n, m>>) = <<n, m>>[1]
    BY <1>1, <1>2, TopLevel
  <1> QED BY <1>1, <1>3, OnePath

LEMMA PathForm ==
  ASSUME NEW path \in O!Paths
  PROVE  /\ path[1] \in Names
         /\ Len(path) \in {1, 2}
         /\ Len(path) = 1 => path = <<path[1]>>
         /\ Len(path) = 2 => path # <<path[1]>>
         /\ O!get_top_level_dir(path) = path[1]
  <1>1. (\E n \in Names : path = <<n>>) \/ (\E n \in Names : \E m : path = <<n, m>>)
    BY DEF O!Paths
  <1>2. ASSUME NEW n \in Names, path = <<n>>
        PROVE  Len(path) = 1 /\ path[1] = n /\ O!get_top_level_dir(path) = n
    BY <1>2, OnePath
  <1>3. ASSUME NEW n \in Names, NEW m, path = <<n, m>>
        PROVE  Len(path) = 2 /\ path[1] = n /\ path # <<n>> /\ O!get_top_level_dir(path) = n
    BY <1>3, TwoPath
  <1>4. CASE \E n \in Names : path = <<n>>
    BY <1>2, <1>4
  <1>5. CASE \E n \in Names : \E m : path = <<n, m>>
    <2>1. PICK n \in Names : \E m : path = <<n, m>>
      BY <1>5
    <2>2. Len(path) = 2 /\ path[1] = n /\ path # <<n>> /\ O!get_top_level_dir(path) = n
      BY <1>3, <2>1
    <2> QED BY <2>2
  <1> QED BY <1>1, <1>4, <1>5

LEMMA HeaderOfPath ==
  ASSUME NEW h \in O!Headers
  PROVE  /\ h.path[1] \in Names
         /\ Len(h.path) \in {1, 2}
         /\ Len(h.path) = 1 => h.path = <<h.path[1]>>
         /\ O!get_top_level_dir(h.path) = h.path[1]
         /\ O!IsFolder(h) <=> Folder(h)
  <1>1. h.dir \in BOOLEAN /\ h.path \in O!Paths
    BY DEF O!Headers
  <1>2. /\ h.path[1] \in Names
        /\ Len(h.path) \in {1, 2}
        /\ Len(h.path) = 1 => h.path = <<h.path[1]>>
        /\ Len(h.path) = 2 => h.path # <<h.path[1]>>
        /\ O!get_top_level_dir(h.path) = h.path[1]
    BY <1>1, PathForm
  <1>3. Len(h.path) > 1 <=> Len(h.path) = 2
    <2>1. \A k \in {1, 2} : k > 1 <=> k = 2
      OBVIOUS
    <2> QED BY <1>2, <2>1
  <1> QED BY <1>2, <1>3 DEF O!IsFolder, Folder

\* The headers of one top level name agree on whether it is a folder, so that it
\* does not matter which of them comes first.
LEMMA HeadersAgree ==
  ASSUME NEW a \in O!Archives, NEW h \in a, NEW g \in a, h.path[1] = g.path[1], Folder(h)
  PROVE  Folder(g)
  <1>1. a \subseteq O!Headers
    BY DEF O!Archives
  <1>2. h.path = g.path => h = g
    BY DEF O!Archives
  <1>3. Len(g.path) = 1 /\ O!InFolder(h, g.path[1]) => g.dir
    BY DEF O!Archives
  <1>4. /\ Len(h.path) \in {1, 2} /\ (Len(h.path) = 1 => h.path = <<h.path[1]>>)
        /\ Len(g.path) \in {1, 2} /\ (Len(g.path) = 1 => g.path = <<g.path[1]>>)
    BY <1>1, HeaderOfPath
  <1>5. CASE Len(g.path) > 1
    BY <1>5 DEF Folder
  <1>6. CASE Len(g.path) = 1 /\ Len(h.path) > 1
    BY <1>3, <1>6 DEF O!InFolder, Folder
  <1>7. CASE Len(g.path) = 1 /\ Len(h.path) = 1
    BY <1>2, <1>4, <1>7
  <1> QED BY <1>4, <1>5, <1>6, <1>7

LEMMA AtMostOne ==
  ASSUME NEW X, X = {} \/ \E n : X = {n}
  PROVE  O!Cardinality(X) <= 1
  <1>1. O!Cardinality(X) = Cardinality(X)
    BY DEF O!Cardinality, Cardinality
  <1>2. Cardinality({}) = 0
    BY FS_EmptySet
  <1>3. \A n : Cardinality({n}) = 1
    BY FS_Singleton
  <1>4. Cardinality(X) = 0 \/ Cardinality(X) = 1
    BY <1>2, <1>3
  <1> QED BY <1>1, <1>4

(* The map has the top level names of what was read, and of each what any of    *)
(* its headers says.                                                            *)
FolderInv ==
  /\ O!TypeOK
  /\ todo \cup read \in O!Archives
  /\ reading = "none" => read = {}
  /\ DOMAIN map = {h.path[1] : h \in read}
  /\ \A h \in read : map[h.path[1]] <=> Folder(h)
  /\ O!OutermostExact

LEMMA FolderInit == O!Init => FolderInv
  <1> SUFFICES ASSUME O!Init PROVE FolderInv
    OBVIOUS
  <1>1. /\ todo = {} /\ read = {} /\ folder = {} /\ map = <<>> /\ reading = "none"
        /\ DOMAIN map = {}
    BY DEF O!Init
  <1>2. O!TypeOK
    <2>1. O!Cardinality({}) <= 1
      BY AtMostOne
    <2> QED BY <1>1, <2>1 DEF O!TypeOK
  <1>3. {} \in O!Archives
    BY DEF O!Archives
  <1> QED BY <1>1, <1>2, <1>3 DEF FolderInv, O!OutermostExact

LEMMA OpenKeeps ==
  ASSUME FolderInv, O!Open
  PROVE  FolderInv'
  <1>1. /\ reading = "none" /\ reading' = "reading" /\ todo' \in O!Archives
        /\ UNCHANGED <<read, map, folder>>
    BY DEF O!Open
  <1>2. todo' \subseteq O!Headers /\ todo' \cup read' \in O!Archives
    BY <1>1 DEF FolderInv, O!Archives
  <1> QED BY <1>1, <1>2 DEF FolderInv, O!TypeOK, O!OutermostExact

\* The header of a name the map has says what the map says already.
LEMMA HeaderKeeps ==
  ASSUME FolderInv, NEW h \in todo, O!Header(h)
  PROVE  FolderInv'
  <1> DEFINE top == h.path[1]
  <1>1. h \in O!Headers /\ h \in todo \cup read /\ todo \cup read \in O!Archives
    BY DEF FolderInv, O!TypeOK
  <1>2. top \in Names /\ O!get_top_level_dir(h.path) = top /\ (O!IsFolder(h) <=> Folder(h))
    BY <1>1, HeaderOfPath
  <1>3. /\ reading = "reading" /\ todo' = todo \ {h} /\ read' = read \cup {h}
        /\ map' = IF top \in DOMAIN map THEN map
                  ELSE [n \in DOMAIN map \cup {top} |-> IF n = top THEN O!IsFolder(h) ELSE map[n]]
        /\ UNCHANGED <<reading, folder>>
    BY <1>2 DEF O!Header
  <1>4. O!IsFolder(h) \in BOOLEAN
    BY DEF O!IsFolder
  <1> HIDE DEF top
  <1>5. DOMAIN map' = DOMAIN map \cup {top}
    BY <1>3
  <1>6. DOMAIN map' = {g.path[1] : g \in read'}
    BY <1>3, <1>5 DEF FolderInv, top
  <1>7. O!TypeOK'
    <2>1. \A n \in DOMAIN map' : map'[n] \in BOOLEAN
      BY <1>3, <1>4 DEF FolderInv, O!TypeOK
    <2> QED BY <1>1, <1>2, <1>3, <1>5, <2>1 DEF FolderInv, O!TypeOK
  <1>8. (todo \cup read)' = todo \cup read
    BY <1>3
  <1>9. ASSUME NEW g \in read' PROVE map'[g.path[1]] <=> Folder(g)
    <2>1. CASE top \in DOMAIN map
      <3>1. map' = map
        BY <1>3, <2>1
      <3>2. PICK first \in read : first.path[1] = top
        BY <2>1 DEF FolderInv
      <3>3. CASE g = h
        <4>1. Folder(first) <=> Folder(h)
          BY <1>1, <3>2, HeadersAgree DEF top
        <4>2. map[top] <=> Folder(first)
          BY <3>2 DEF FolderInv
        <4> QED BY <3>1, <3>3, <4>1, <4>2 DEF top
      <3>4. CASE g \in read
        BY <3>1, <3>4 DEF FolderInv
      <3> QED BY <1>3, <3>3, <3>4
    <2>2. CASE top \notin DOMAIN map
      <3>1. CASE g = h
        <4>1. map'[top] = O!IsFolder(h)
          BY <1>3, <2>2
        <4> QED BY <1>2, <3>1, <4>1 DEF top
      <3>2. CASE g \in read
        <4>1. g.path[1] \in DOMAIN map
          BY <3>2 DEF FolderInv
        <4>2. map'[g.path[1]] = map[g.path[1]]
          BY <1>3, <2>2, <4>1
        <4> QED BY <3>2, <4>2 DEF FolderInv
      <3> QED BY <1>3, <3>1, <3>2
    <2> QED BY <2>1, <2>2
  <1> QED BY <1>1, <1>3, <1>6, <1>7, <1>8, <1>9 DEF FolderInv, O!OutermostExact

\* At the end of the archive the map tells whether there is one folder.
LEMMA EndKeeps ==
  ASSUME FolderInv, O!End
  PROVE  FolderInv'
  <1>1. /\ reading' = "done" /\ reading = "reading" /\ folder' = O!OnlyFolder(map)
        /\ UNCHANGED <<todo, read, map>>
    BY DEF O!End
  <1>2. O!TypeOK'
    <2>1. O!OnlyFolder(map) \subseteq Names
      BY DEF O!OnlyFolder, FolderInv, O!TypeOK
    <2>2. O!OnlyFolder(map) = {} \/ \E n : O!OnlyFolder(map) = {n}
      <3>1. \A n, m \in O!OnlyFolder(map) : n = m
        BY DEF O!OnlyFolder
      <3> QED BY <3>1
    <2>3. O!Cardinality(O!OnlyFolder(map)) <= 1
      BY <2>2, AtMostOne
    <2> QED BY <1>1, <2>1, <2>3 DEF FolderInv, O!TypeOK
  <1>3. O!OutermostExact'
    <2> DEFINE tops == {h.path[1] : h \in read}
    <2>1. ASSUME NEW n \in tops, tops = {n}
          PROVE  map[n] <=> \E h \in read : O!InFolder(h, n) \/ h.dir
      <3>1. \A h \in read : h.path[1] = n
        BY <2>1
      <3>2. \A h \in read : map[n] <=> Folder(h)
        BY <3>1 DEF FolderInv
      <3>3. \A h \in read : Folder(h) <=> O!InFolder(h, n) \/ h.dir
        BY <3>1 DEF Folder, O!InFolder
      <3>4. \E h \in read : TRUE
        BY <2>1
      <3> QED BY <3>2, <3>3, <3>4
    <2>2. O!OnlyFolder(map) = {n \in tops : tops = {n} /\ map[n]}
      BY DEF O!OnlyFolder, FolderInv
    <2>3. O!OnlyFolder(map) =
            {n \in tops : tops = {n} /\ \E h \in read : O!InFolder(h, n) \/ h.dir}
      BY <2>1, <2>2
    <2> QED BY <1>1, <2>3 DEF O!OutermostExact
  <1> QED BY <1>1, <1>2, <1>3 DEF FolderInv

LEMMA FolderStep == FolderInv /\ [O!Next]_(O!vars) => FolderInv'
  <1>1. ASSUME FolderInv, O!ReadFails PROVE FolderInv'
    BY <1>1 DEF O!ReadFails, FolderInv, O!TypeOK, O!OutermostExact
  <1>2. ASSUME FolderInv, UNCHANGED O!vars PROVE FolderInv'
    BY <1>2 DEF O!vars, FolderInv, O!TypeOK, O!OutermostExact
  <1> QED BY <1>1, <1>2, OpenKeeps, HeaderKeeps, EndKeeps DEF O!Next

\* The inductive invariant of OutermostFolder: the map says the same of a name
\* whichever of its headers comes first.
THEOREM FolderInvariant == O!Spec => []FolderInv
BY FolderInit, FolderStep, PTL DEF O!Spec
-----------------------------------------------------------------------------
(* Text *)

Text(s) == s \in Seq(T!Bytes)
White == {"space", "white"}
Leads == {"white", "lead"}
Blank == {"space", "white", "trail"}

(* A code point begins at i and ends within the first n bytes.                  *)
Whole(s, i, n) ==
  \/ s[i] \in T!Bytes \ {"white", "lead", "trail"}
  \/ s[i] \in Leads /\ i < n /\ s[i + 1] = "trail"

LEMMA TextAt ==
  ASSUME NEW s, Text(s)
  PROVE  /\ Len(s) \in Nat /\ DOMAIN s = 1 .. Len(s)
         /\ \A i \in 1 .. Len(s) : s[i] \in T!Bytes
  <1> QED BY LenProperties, ElementOfSeq DEF Text

\* The bytes a to b of a text are a text, each where it was less a - 1.
LEMMA Slice ==
  ASSUME NEW s, Text(s), NEW a \in Nat, a > 0, NEW b \in Nat, a <= b + 1, b <= Len(s)
  PROVE  /\ Text(SubSeq(s, a, b))
         /\ Len(SubSeq(s, a, b)) = (b - a) + 1
         /\ \A i \in 1 .. (b - a) + 1 : SubSeq(s, a, b)[i] = s[i + (a - 1)]
  <1>1. \A i \in a .. b : s[i] \in T!Bytes
    BY TextAt
  <1>2. /\ SubSeq(s, a, b) \in Seq(T!Bytes)
        /\ Len(SubSeq(s, a, b)) = IF a <= b THEN b - a + 1 ELSE 0
        /\ \A i \in 1 .. b - a + 1 : SubSeq(s, a, b)[i] = s[a + i - 1]
    BY <1>1, SubSeqProperties
  <1>3. Len(SubSeq(s, a, b)) = (b - a) + 1
    BY <1>2
  <1>4. ASSUME NEW i \in 1 .. (b - a) + 1 PROVE SubSeq(s, a, b)[i] = s[i + (a - 1)]
    <2>1. a + i - 1 = i + (a - 1) /\ i \in 1 .. b - a + 1
      OBVIOUS
    <2> QED BY <1>2, <2>1
  <1> QED BY <1>2, <1>3, <1>4 DEF Text

LEMMA NextSizeIs ==
  ASSUME NEW s, Text(s), NEW i \in 1 .. Len(s)
  PROVE  /\ T!NextSize(s, i) # 0 <=> Whole(s, i, Len(s))
         /\ T!NextSize(s, i) \in 0 .. 2
         /\ T!NextSize(s, i) = 2 <=> s[i] \in Leads /\ i < Len(s) /\ s[i + 1] = "trail"
  <1>1. s[i] \in T!Bytes
    BY TextAt
  <1> QED BY <1>1 DEF T!NextSize, Whole, T!Bytes, Leads

\* Back over the trail bytes to a byte that is none, from which a code point is
\* read: or utf8::prior() throws.
LEMMA PriorAtIs ==
  ASSUME NEW s, Text(s)
  PROVE  LET p == T!PriorAt(s)
         IN  \/ p = 0
             \/ /\ p \in 1 .. Len(s) /\ Whole(s, p, Len(s)) /\ s[p] # "trail"
                /\ \A k \in p + 1 .. Len(s) : s[k] = "trail"
  <1> DEFINE heads == {i \in DOMAIN s : s[i] # "trail"}
             p == T!PriorAt(s)
  <1>1. Len(s) \in Nat /\ DOMAIN s = 1 .. Len(s)
    BY TextAt
  <1>2. CASE heads = {}
    BY <1>2 DEF T!PriorAt
  <1>3. CASE heads # {}
    <2>1. heads \subseteq 0 .. Len(s)
      BY <1>1
    <2>2. \E i \in heads : \A j \in heads : i >= j
      <3> HIDE DEF heads
      <3> QED BY <1>1, <1>3, <2>1, Greatest
    <2>3. T!Max(heads) \in heads /\ \A j \in heads : T!Max(heads) >= j
      <3> HIDE DEF heads
      <3> QED BY <2>2 DEF T!Max
    <2>4. p = IF T!Max(heads) # 0 /\ T!NextSize(s, T!Max(heads)) # 0 THEN T!Max(heads) ELSE 0
      BY <1>3 DEF T!PriorAt
    <2>5. PICK i \in heads : i = T!Max(heads) /\ \A j \in heads : i >= j
      BY <2>3
    <2>6. i \in 1 .. Len(s) /\ s[i] # "trail"
      BY <1>1, <2>5
    <2>7. ASSUME NEW k \in i + 1 .. Len(s) PROVE s[k] = "trail"
      <3>1. k \in DOMAIN s /\ ~ (i >= k)
        BY <1>1, <2>6
      <3> QED BY <2>5, <3>1
    <2>8. p = 0 \/ (p = i /\ Whole(s, i, Len(s)))
      BY <2>4, <2>5, <2>6, NextSizeIs
    <2> HIDE DEF p, heads
    <2> QED BY <2>6, <2>7, <2>8 DEF p
  <1> QED BY <1>2, <1>3

\* It does not throw where a code point ends.
LEMMA PriorAtFinds ==
  ASSUME NEW s, Text(s), NEW p \in 1 .. Len(s), s[p] # "trail", Whole(s, p, Len(s)),
         \A k \in p + 1 .. Len(s) : s[k] = "trail"
  PROVE  T!PriorAt(s) = p
  <1> DEFINE heads == {i \in DOMAIN s : s[i] # "trail"}
  <1>1. Len(s) \in Nat /\ DOMAIN s = 1 .. Len(s)
    BY TextAt
  <1>2. p \in heads /\ p # 0
    BY <1>1
  <1>3. ASSUME NEW j \in heads PROVE p >= j
    <2>1. j \in 1 .. Len(s) /\ s[j] # "trail"
      BY <1>1
    <2> QED BY <2>1
  <1>4. \A j \in heads : j \in Int
    BY <1>1
  <1>5. T!Max(heads) = p
    <2> HIDE DEF heads
    <2>1. T!Max(heads) \in heads /\ \A j \in heads : T!Max(heads) >= j
      BY <1>2, <1>3 DEF T!Max
    <2>2. PICK m \in heads : m = T!Max(heads)
      BY <2>1
    <2>3. m >= p /\ p >= m /\ m \in Int /\ p \in Int
      BY <1>2, <1>3, <1>4, <2>1, <2>2
    <2> QED BY <2>2, <2>3
  <1>6. T!NextSize(s, p) # 0
    BY NextSizeIs
  <1> QED BY <1>2, <1>5, <1>6 DEF T!PriorAt

(* What utf8::prior() finds at the end of the first n bytes.                    *)
Prior(s, n) == T!PriorAt(SubSeq(s, 1, n))

LEMMA Prefix ==
  ASSUME NEW s, Text(s), NEW n \in 0 .. Len(s)
  PROVE  /\ Text(SubSeq(s, 1, n)) /\ Len(SubSeq(s, 1, n)) = n
         /\ \A i \in 1 .. n : SubSeq(s, 1, n)[i] = s[i]
         /\ \A i \in 1 .. n : Whole(SubSeq(s, 1, n), i, n) <=> Whole(s, i, n)
  <1> DEFINE p == SubSeq(s, 1, n)
  <1>1. Len(s) \in Nat /\ n \in Nat /\ n <= Len(s)
    BY TextAt
  <1>2. /\ Text(p) /\ Len(p) = (n - 1) + 1
        /\ \A i \in 1 .. (n - 1) + 1 : p[i] = s[i + (1 - 1)]
    BY <1>1, Slice
  <1>3. (n - 1) + 1 = n /\ \A i \in 1 .. n : i + (1 - 1) = i
    BY <1>1
  <1>4. \A i \in 1 .. n : p[i] = s[i]
    BY <1>2, <1>3
  <1>5. ASSUME NEW i \in 1 .. n PROVE Whole(p, i, n) <=> Whole(s, i, n)
    <2>1. i < n => i + 1 \in 1 .. n
      BY <1>1
    <2> HIDE DEF p
    <2>2. p[i] = s[i] /\ (i < n => p[i + 1] = s[i + 1])
      BY <1>4, <2>1
    <2> QED BY <2>2 DEF Whole
  <1> QED BY <1>2, <1>3, <1>4, <1>5

LEMMA PriorIs ==
  ASSUME NEW s, Text(s), NEW n \in 0 .. Len(s)
  PROVE  \/ Prior(s, n) = 0
         \/ /\ Prior(s, n) \in 1 .. n /\ Whole(s, Prior(s, n), n) /\ s[Prior(s, n)] # "trail"
            /\ \A k \in Prior(s, n) + 1 .. n : s[k] = "trail"
  <1>1. Len(s) \in Nat
    BY TextAt
  <1>2. /\ Text(SubSeq(s, 1, n)) /\ Len(SubSeq(s, 1, n)) = n
        /\ \A i \in 1 .. n : SubSeq(s, 1, n)[i] = s[i]
        /\ \A i \in 1 .. n : Whole(SubSeq(s, 1, n), i, n) <=> Whole(s, i, n)
    BY Prefix
  <1> DEFINE p == SubSeq(s, 1, n)
  <1>3. \/ Prior(s, n) = 0
        \/ /\ Prior(s, n) \in 1 .. n /\ Whole(p, Prior(s, n), n) /\ p[Prior(s, n)] # "trail"
           /\ \A k \in Prior(s, n) + 1 .. n : p[k] = "trail"
    BY <1>2, PriorAtIs DEF Prior
  <1> HIDE DEF p
  <1>4. CASE Prior(s, n) # 0
    <2>1. PICK i \in 1 .. n : /\ i = Prior(s, n) /\ Whole(p, i, n) /\ p[i] # "trail"
                              /\ \A k \in i + 1 .. n : p[k] = "trail"
      BY <1>3, <1>4
    <2>2. \A k \in i + 1 .. n : k \in 1 .. n
      BY <1>1
    <2>3. Whole(s, i, n) /\ s[i] # "trail"
      BY <1>2, <2>1 DEF p
    <2>4. \A k \in i + 1 .. n : s[k] = "trail"
      BY <1>2, <2>1, <2>2 DEF p
    <2> QED BY <2>1, <2>3, <2>4
  <1> QED BY <1>4

LEMMA PriorFinds ==
  ASSUME NEW s, Text(s), NEW n \in 0 .. Len(s), NEW p \in 1 .. n, s[p] # "trail",
         Whole(s, p, n), \A k \in p + 1 .. n : s[k] = "trail"
  PROVE  Prior(s, n) = p
  <1>1. Len(s) \in Nat
    BY TextAt
  <1>2. /\ Text(SubSeq(s, 1, n)) /\ Len(SubSeq(s, 1, n)) = n
        /\ \A i \in 1 .. n : SubSeq(s, 1, n)[i] = s[i]
        /\ \A i \in 1 .. n : Whole(SubSeq(s, 1, n), i, n) <=> Whole(s, i, n)
    BY Prefix
  <1>3. \A k \in p + 1 .. n : k \in 1 .. n
    BY <1>1
  <1> DEFINE q == SubSeq(s, 1, n)
  <1>4. q[p] # "trail" /\ Whole(q, p, Len(q)) /\ \A k \in p + 1 .. Len(q) : q[k] = "trail"
    BY <1>2, <1>3
  <1>5. Text(q) /\ p \in 1 .. Len(q)
    BY <1>2
  <1> HIDE DEF q
  <1> QED BY <1>4, <1>5, PriorAtFinds DEF q, Prior

(* trim_right_erase_num() as a step from the end of the first n bytes.          *)
RightStep(s, f, n) ==
  IF n = 0 THEN Len(s)
  ELSE IF Prior(s, n) = 0 THEN T!Thrown
  ELSE IF T!is_whitespace(s, Prior(s, n)) THEN f[Prior(s, n) - 1] ELSE Len(s) - n

LEMMA RightUnfolds ==
  ASSUME NEW s, Text(s)
  PROVE  \E to : /\ T!trim_right_erase_num(s) = to[Len(s)]
                 /\ \A n \in 0 .. Len(s) : to[n] = RightStep(s, to, n)
  <1> DEFINE jumps(n) == n > 0 /\ Prior(s, n) > 0 /\ T!is_whitespace(s, Prior(s, n))
             jump == [n \in 0 .. Len(s) |-> IF jumps(n) THEN Prior(s, n) - 1 ELSE n]
             stop == [n \in 0 .. Len(s) |->
                        IF n = 0 THEN Len(s)
                        ELSE IF Prior(s, n) = 0 THEN T!Thrown ELSE Len(s) - n]
             Step(f, n) == IF jump[n] \in 0 .. n - 1 THEN f[jump[n]] ELSE stop[n]
             IsTo(f) == f = [n \in 0 .. Len(s) |-> RightStep(s, f, n)]
             to == CHOOSE f : IsTo(f)
  <1>1. Len(s) \in Nat
    BY TextAt
  <1>2. ASSUME NEW n \in 0 .. Len(s) PROVE Prior(s, n) \in 0 .. n
    <2>1. n \in Nat
      BY <1>1
    <2> QED BY <2>1, PriorIs
  <1>3. ASSUME NEW f, NEW n \in 0 .. Len(s)
        PROVE  RightStep(s, f, n) = Step(f, n)
    <2>1. PICK i \in 0 .. n : i = Prior(s, n)
      BY <1>2
    <2>2. n \in Nat /\ i \in Nat /\ (n = 0 \/ n > 0) /\ (i = 0 \/ i > 0)
      BY <1>1
    <2>4. jump[n] = IF n > 0 /\ i > 0 /\ T!is_whitespace(s, i) THEN i - 1 ELSE n
      BY <2>1
    <2>5. jump[n] \in 0 .. n - 1 <=> n > 0 /\ i > 0 /\ T!is_whitespace(s, i)
      BY <2>2, <2>4
    <2>6. stop[n] = IF n = 0 THEN Len(s) ELSE IF i = 0 THEN T!Thrown ELSE Len(s) - n
      BY <2>1
    <2> HIDE DEF jump, stop
    <2> QED BY <2>1, <2>2, <2>4, <2>5, <2>6 DEF RightStep
  <1>4. T!trim_right_erase_num(s) = to[Len(s)]
    BY DEF T!trim_right_erase_num, RightStep, Prior
  <1>5. \E f : f = [n \in 0 .. Len(s) |-> Step(f, n)]
    <2> HIDE DEF jump, stop
    <2>1. PICK f : Jumps(f, Len(s), jump, stop)
      BY <1>1, JumpsDefine
    <2>2. f = [n \in 0 .. Len(s) |-> f[n]] /\ \A n \in 0 .. Len(s) : f[n] = Step(f, n)
      BY <2>1 DEF Jumps
    <2> HIDE DEF Step
    <2>3. f = [n \in 0 .. Len(s) |-> Step(f, n)]
      BY <2>2
    <2> QED BY <2>3
  <1>6. \E f : IsTo(f)
    <2> HIDE DEF Step
    <2> QED BY <1>3, <1>5
  <1>7. IsTo(to)
    <2> HIDE DEF IsTo
    <2> QED BY <1>6
  <1> HIDE DEF to
  <1>8. \A n \in 0 .. Len(s) : to[n] = RightStep(s, to, n)
    BY <1>7
  <1> QED BY <1>4, <1>8

(* The first e bytes are what is left of the first n when white space goes from *)
(* their end: they end with a code point that is none.                          *)
EndsBlack(s, e) ==
  \E p \in 1 .. e : /\ s[p] \notin Blank /\ Whole(s, p, e)
                    /\ \A k \in p + 1 .. e : s[k] = "trail"
RightEnd(s, n, e) ==
  /\ e \in 0 .. n
  /\ \A k \in e + 1 .. n : s[k] \in Blank
  /\ e = n \/ s[e + 1] # "trail"
  /\ e = 0 \/ EndsBlack(s, e)

\* One code point from the right: white space and on, or the end.
LEMMA RightStepIs ==
  ASSUME NEW s, Text(s), NEW n \in 1 .. Len(s), Prior(s, n) # 0
  PROVE  /\ Prior(s, n) - 1 \in 0 .. n - 1
         /\ s[Prior(s, n)] # "trail"
         /\ T!is_whitespace(s, Prior(s, n)) =>
              \A k \in Prior(s, n) .. n : s[k] \in Blank
         /\ ~ T!is_whitespace(s, Prior(s, n)) => EndsBlack(s, n)
  <1>1. Len(s) \in Nat /\ n \in Nat /\ n \in 0 .. Len(s)
    BY TextAt
  <1>2. PICK p \in 1 .. n : /\ p = Prior(s, n) /\ Whole(s, p, n) /\ s[p] # "trail"
                            /\ \A k \in p + 1 .. n : s[k] = "trail"
    BY <1>1, PriorIs
  <1>3. T!is_whitespace(s, p) <=> s[p] \in White
    BY DEF T!is_whitespace, White
  <1>4. ASSUME s[p] \in White, NEW k \in p .. n PROVE s[k] \in Blank
    <2>1. k = p \/ k \in p + 1 .. n
      BY <1>1
    <2> QED BY <1>2, <1>4, <2>1 DEF White, Blank
  <1>5. s[p] \notin White => EndsBlack(s, n)
    BY <1>2 DEF White, Blank, EndsBlack
  <1>6. p - 1 \in 0 .. n - 1
    BY <1>1
  <1> QED BY <1>2, <1>3, <1>4, <1>5, <1>6

LEMMA RightInduction ==
  ASSUME NEW s, Text(s), NEW to, \A n \in 0 .. Len(s) : to[n] = RightStep(s, to, n)
  PROVE  \A n \in 0 .. Len(s) :
           to[n] = T!Thrown \/ (to[n] \in 0 .. Len(s) /\ RightEnd(s, n, Len(s) - to[n]))
  <1> DEFINE Fine(n) == \/ to[n] = T!Thrown
                        \/ to[n] \in 0 .. Len(s) /\ RightEnd(s, n, Len(s) - to[n])
             Good == {n \in 0 .. Len(s) : Fine(n)}
  <1>1. Len(s) \in Nat
    BY TextAt
  <1>2. ASSUME NEW n \in 0 .. Len(s), \A m \in 0 .. n - 1 : m \in Good
        PROVE  n \in Good
    <2>1. to[n] = RightStep(s, to, n) /\ n \in Nat
      BY <1>1
    <2>2. CASE n = 0
      <3>1. to[n] = Len(s) /\ Len(s) - to[n] = 0
        BY <1>1, <2>1, <2>2 DEF RightStep
      <3>2. RightEnd(s, n, 0)
        BY <2>2 DEF RightEnd
      <3> QED BY <1>1, <3>1, <3>2
    <2>3. CASE n # 0 /\ Prior(s, n) = 0
      BY <2>1, <2>3 DEF RightStep
    <2>4. CASE n # 0 /\ Prior(s, n) # 0
      <3>1. n \in 1 .. Len(s)
        BY <1>1, <2>4
      <3>2. /\ Prior(s, n) - 1 \in 0 .. n - 1
            /\ s[Prior(s, n)] # "trail"
            /\ T!is_whitespace(s, Prior(s, n)) =>
                 \A k \in Prior(s, n) .. n : s[k] \in Blank
            /\ ~ T!is_whitespace(s, Prior(s, n)) => EndsBlack(s, n)
        BY <2>4, <3>1, RightStepIs
      <3>3. PICK p \in 1 .. n : p = Prior(s, n)
        BY <1>1, <2>4, PriorIs
      <3>4. CASE T!is_whitespace(s, p)
        <4>1. to[n] = to[p - 1]
          BY <2>1, <2>4, <3>3, <3>4 DEF RightStep
        <4>2. p - 1 \in Good
          BY <1>2, <3>2, <3>3
        <4>3. CASE to[p - 1] = T!Thrown
          BY <4>1, <4>3
        <4>4. CASE to[p - 1] \in 0 .. Len(s) /\ RightEnd(s, p - 1, Len(s) - to[p - 1])
          <5>1. PICK e \in 0 .. p - 1 : e = Len(s) - to[p - 1] /\ RightEnd(s, p - 1, e)
            BY <4>4 DEF RightEnd
          <5>2. e \in 0 .. n /\ p \in Nat
            BY <2>1
          <5>3. ASSUME NEW k \in e + 1 .. n PROVE s[k] \in Blank
            <6>1. k \in e + 1 .. p - 1 \/ k \in p .. n
              BY <5>2
            <6> QED BY <3>2, <3>3, <3>4, <5>1, <6>1 DEF RightEnd
          <5>4. s[e + 1] # "trail"
            <6>1. e = p - 1 => e + 1 = p
              BY <5>2
            <6> QED BY <3>2, <3>3, <5>1, <6>1 DEF RightEnd
          <5>5. RightEnd(s, n, e)
            BY <5>1, <5>2, <5>3, <5>4 DEF RightEnd
          <5> QED BY <4>1, <4>4, <5>1, <5>5
        <4> QED BY <4>2, <4>3, <4>4
      <3>5. CASE ~ T!is_whitespace(s, p)
        <4>1. to[n] = Len(s) - n
          BY <2>1, <2>4, <3>3, <3>5 DEF RightStep
        <4>2. RightEnd(s, n, n)
          BY <3>2, <3>3, <3>5 DEF RightEnd
        <4>3. to[n] \in 0 .. Len(s) /\ Len(s) - to[n] = n
          BY <1>1, <2>1, <4>1
        <4> QED BY <4>2, <4>3
      <3> QED BY <3>4, <3>5
    <2> QED BY <2>2, <2>3, <2>4
  <1>3. \A n \in 0 .. Len(s) : n \in Good
    <2> HIDE DEF Good
    <2> QED BY <1>1, <1>2, UpInduction
  <1> QED BY <1>3

\* What trim_right_erase_num() counts, if it does not throw.
LEMMA RightIs ==
  ASSUME NEW s, Text(s), T!trim_right_erase_num(s) # T!Thrown
  PROVE  /\ T!trim_right_erase_num(s) \in 0 .. Len(s)
         /\ RightEnd(s, Len(s), Len(s) - T!trim_right_erase_num(s))
  <1>1. PICK to : /\ T!trim_right_erase_num(s) = to[Len(s)]
                  /\ \A n \in 0 .. Len(s) : to[n] = RightStep(s, to, n)
    BY RightUnfolds
  <1>2. Len(s) \in 0 .. Len(s)
    BY TextAt
  <1> QED BY <1>1, <1>2, RightInduction

\* It is nothing if the text ends with a code point that is not white space.
LEMMA RightZero ==
  ASSUME NEW s, Text(s), Len(s) = 0 \/ EndsBlack(s, Len(s))
  PROVE  T!trim_right_erase_num(s) = 0
  <1>1. PICK to : /\ T!trim_right_erase_num(s) = to[Len(s)]
                  /\ \A n \in 0 .. Len(s) : to[n] = RightStep(s, to, n)
    BY RightUnfolds
  <1>2. Len(s) \in Nat /\ Len(s) \in 0 .. Len(s)
    BY TextAt
  <1>3. to[Len(s)] = RightStep(s, to, Len(s))
    BY <1>1, <1>2
  <1>4. CASE Len(s) = 0
    BY <1>1, <1>3, <1>4 DEF RightStep
  <1>5. CASE Len(s) # 0
    <2>1. PICK p \in 1 .. Len(s) :
            /\ s[p] \notin Blank /\ Whole(s, p, Len(s))
            /\ \A k \in p + 1 .. Len(s) : s[k] = "trail"
      BY <1>5 DEF EndsBlack
    <2>2. s[p] # "trail" /\ ~ T!is_whitespace(s, p)
      BY <2>1 DEF Blank, T!is_whitespace
    <2>3. Prior(s, Len(s)) = p
      BY <1>2, <2>1, <2>2, PriorFinds
    <2>4. RightStep(s, to, Len(s)) = Len(s) - Len(s)
      BY <1>2, <1>5, <2>2, <2>3 DEF RightStep
    <2> QED BY <1>1, <1>2, <1>3, <2>4
  <1> QED BY <1>4, <1>5

(* trim_left_erase_num() as a step from the byte i on.                          *)
LeftStep(s, f, i) ==
  IF i = Len(s) + 1 THEN i - 1
  ELSE IF T!NextSize(s, i) = 0 THEN T!Thrown
  ELSE IF T!is_whitespace(s, i) THEN f[i + T!NextSize(s, i)] ELSE i - 1

\* A code point ends within the text.
LEMMA NextWithin ==
  ASSUME NEW s, Text(s), NEW i \in 1 .. Len(s), T!NextSize(s, i) # 0
  PROVE  /\ i + T!NextSize(s, i) \in i + 1 .. Len(s) + 1
         /\ T!NextSize(s, i) = 1 \/ (T!NextSize(s, i) = 2 /\ i + 1 <= Len(s) /\ s[i + 1] = "trail")
  <1>1. Len(s) \in Nat /\ i \in Nat
    BY TextAt
  <1>2. PICK z \in 0 .. 2 : z = T!NextSize(s, i)
    BY NextSizeIs
  <1>3. z = 2 => i < Len(s) /\ s[i + 1] = "trail"
    BY <1>2, NextSizeIs
  <1>4. i + z \in i + 1 .. Len(s) + 1
    BY <1>1, <1>2, <1>3
  <1> QED BY <1>1, <1>2, <1>3, <1>4

LEMMA LeftUnfolds ==
  ASSUME NEW s, Text(s)
  PROVE  \E from : /\ T!trim_left_erase_num(s) = from[1]
                   /\ \A i \in 1 .. Len(s) + 1 : from[i] = LeftStep(s, from, i)
  <1> DEFINE N == Len(s)
             on(n) == n > 0 /\ T!NextSize(s, N + 1 - n) # 0 /\ T!is_whitespace(s, N + 1 - n)
             jump == [n \in 0 .. N |-> IF on(n) THEN n - T!NextSize(s, N + 1 - n) ELSE n]
             stop == [n \in 0 .. N |->
                        IF n = 0 THEN N
                        ELSE IF T!NextSize(s, N + 1 - n) = 0 THEN T!Thrown ELSE N - n]
             IsFrom(f) == f = [i \in 1 .. Len(s) + 1 |-> LeftStep(s, f, i)]
             from == CHOOSE f : IsFrom(f)
  <1>1. N \in Nat
    BY TextAt
  <1>3. T!trim_left_erase_num(s) = from[1]
    BY DEF T!trim_left_erase_num, LeftStep
  <1>4. PICK g : Jumps(g, N, jump, stop)
    <2> HIDE DEF jump, stop
    <2> QED BY <1>1, JumpsDefine
  <1>5. \A n \in 0 .. N : g[n] = IF jump[n] \in 0 .. n - 1 THEN g[jump[n]] ELSE stop[n]
    BY <1>4 DEF Jumps
  <1> DEFINE back == [i \in 1 .. N + 1 |-> g[N + 1 - i]]
  <1>6. ASSUME NEW i \in 1 .. N + 1 PROVE back[i] = LeftStep(s, back, i)
    <2> DEFINE n == N + 1 - i
    <2>1. n \in 0 .. N /\ N + 1 - n = i /\ back[i] = g[n] /\ i \in Nat
      BY <1>1
    <2>2. g[n] = IF jump[n] \in 0 .. n - 1 THEN g[jump[n]] ELSE stop[n]
      BY <1>5, <2>1
    <2>3. jump[n] = IF n > 0 /\ T!NextSize(s, i) # 0 /\ T!is_whitespace(s, i)
                      THEN n - T!NextSize(s, i) ELSE n
      <3>1. jump[n] = IF n > 0 /\ T!NextSize(s, N + 1 - n) # 0 /\ T!is_whitespace(s, N + 1 - n)
                      THEN n - T!NextSize(s, N + 1 - n) ELSE n
        BY <2>1
      <3> HIDE DEF n, jump
      <3> QED BY <2>1, <3>1
    <2>4. stop[n] = IF n = 0 THEN N ELSE IF T!NextSize(s, i) = 0 THEN T!Thrown ELSE N - n
      <3>1. stop[n] = IF n = 0 THEN N
                      ELSE IF T!NextSize(s, N + 1 - n) = 0 THEN T!Thrown ELSE N - n
        BY <2>1
      <3> HIDE DEF n, stop
      <3> QED BY <2>1, <3>1
    <2>5. n + i = N + 1
      BY <1>1
    <2> HIDE DEF n, jump, stop, back
    <2>6. CASE n = 0
      <3>1. i = N + 1 /\ ~ (jump[n] \in 0 .. n - 1)
        BY <1>1, <2>1, <2>3, <2>5, <2>6
      <3>2. LeftStep(s, back, i) = N
        BY <1>1, <3>1 DEF LeftStep
      <3> QED BY <2>1, <2>2, <2>4, <2>6, <3>1, <3>2
    <2>7. CASE n # 0 /\ T!NextSize(s, i) = 0
      <3>1. i # N + 1 /\ ~ (jump[n] \in 0 .. n - 1)
        BY <1>1, <2>1, <2>3, <2>5, <2>7
      <3>2. LeftStep(s, back, i) = T!Thrown
        BY <2>7, <3>1 DEF LeftStep
      <3> QED BY <2>1, <2>2, <2>4, <2>7, <3>1, <3>2
    <2>8. CASE n # 0 /\ T!NextSize(s, i) # 0 /\ ~ T!is_whitespace(s, i)
      <3>1. i # N + 1 /\ ~ (jump[n] \in 0 .. n - 1)
        BY <1>1, <2>1, <2>3, <2>5, <2>8
      <3>2. LeftStep(s, back, i) = i - 1
        BY <2>8, <3>1 DEF LeftStep
      <3>3. i - 1 = N - n
        BY <1>1, <2>1, <2>5
      <3> QED BY <2>1, <2>2, <2>4, <2>8, <3>1, <3>2, <3>3
    <2>9. CASE n # 0 /\ T!NextSize(s, i) # 0 /\ T!is_whitespace(s, i)
      <3>1. i \in 1 .. N
        BY <1>1, <2>1, <2>5, <2>9
      <3>2. i + T!NextSize(s, i) \in i + 1 .. N + 1
        BY <2>9, <3>1, NextWithin
      <3>3. PICK z \in 0 .. 2 : z = T!NextSize(s, i)
        BY <3>1, NextSizeIs
      <3>4. jump[n] = n - z /\ n - z \in 0 .. n - 1
        BY <1>1, <2>1, <2>3, <2>5, <2>9, <3>2, <3>3
      <3>5. back[i + z] = g[N + 1 - (i + z)] /\ N + 1 - (i + z) = n - z
        BY <1>1, <2>1, <2>5, <3>2, <3>3 DEF back
      <3>6. LeftStep(s, back, i) = back[i + z]
        BY <1>1, <2>9, <3>1, <3>3 DEF LeftStep
      <3> QED BY <2>1, <2>2, <3>4, <3>5, <3>6
    <2> QED BY <2>6, <2>7, <2>8, <2>9
  <1>7. back = [i \in 1 .. N + 1 |-> back[i]]
    OBVIOUS
  <1> HIDE DEF back
  <1>8. IsFrom(back)
    BY <1>6, <1>7
  <1>9. IsFrom(from)
    <2> HIDE DEF IsFrom
    <2> QED BY <1>8
  <1> HIDE DEF from
  <1>10. \A i \in 1 .. N + 1 : from[i] = LeftStep(s, from, i)
    BY <1>9
  <1> QED BY <1>3, <1>10

(* From the byte i on, white space goes up to the byte m, and the next byte     *)
(* begins a code point that is none.                                            *)
BeginsBlack(s, i) == s[i] \notin Blank /\ Whole(s, i, Len(s))
LeftEnd(s, i, m) ==
  /\ m \in i - 1 .. Len(s)
  /\ \A k \in i .. m : s[k] \in Blank
  /\ m = Len(s) \/ BeginsBlack(s, m + 1)

LEMMA LeftInduction ==
  ASSUME NEW s, Text(s), NEW from, \A i \in 1 .. Len(s) + 1 : from[i] = LeftStep(s, from, i)
  PROVE  \A n \in 0 .. Len(s) : from[n + 1] = T!Thrown \/ LeftEnd(s, n + 1, from[n + 1])
  <1> DEFINE Fine(i) == from[i] = T!Thrown \/ LeftEnd(s, i, from[i])
             Good == {n \in 0 .. Len(s) : Fine(n + 1)}
  <1>1. Len(s) \in Nat
    BY TextAt
  <1>2. ASSUME NEW n \in 0 .. Len(s), \A m \in n + 1 .. Len(s) : m \in Good
        PROVE  n \in Good
    <2> DEFINE i == n + 1
    <2>1. i \in 1 .. Len(s) + 1 /\ i \in Nat /\ i - 1 = n
      BY <1>1
    <2>2. from[i] = LeftStep(s, from, i)
      BY <2>1
    <2> HIDE DEF i
    <2>3. CASE i = Len(s) + 1
      <3>1. from[i] = Len(s)
        BY <1>1, <2>2, <2>3 DEF LeftStep
      <3>2. LeftEnd(s, i, Len(s))
        BY <1>1, <2>3 DEF LeftEnd
      <3> QED BY <3>1, <3>2 DEF i
    <2>4. CASE i # Len(s) + 1 /\ T!NextSize(s, i) = 0
      BY <2>2, <2>4 DEF LeftStep, i
    <2>5. CASE i # Len(s) + 1 /\ T!NextSize(s, i) # 0 /\ ~ T!is_whitespace(s, i)
      <3>1. from[i] = i - 1
        BY <2>2, <2>5 DEF LeftStep
      <3>2. i \in 1 .. Len(s)
        BY <1>1, <2>1, <2>5
      <3>3. Whole(s, i, Len(s))
        BY <2>5, <3>2, NextSizeIs
      <3>4. s[i] \notin Blank
        BY <2>5, <3>3 DEF Whole, Blank, T!is_whitespace, Leads, T!Bytes
      <3>5. LeftEnd(s, i, i - 1)
        <4>1. (i - 1) + 1 = i /\ i - 1 \in i - 1 .. Len(s) /\ i .. i - 1 = {}
          BY <1>1, <2>1, <3>2
        <4> QED BY <3>3, <3>4, <4>1 DEF LeftEnd, BeginsBlack
      <3> QED BY <3>1, <3>5 DEF i
    <2>6. CASE i # Len(s) + 1 /\ T!NextSize(s, i) # 0 /\ T!is_whitespace(s, i)
      <3>1. i \in 1 .. Len(s)
        BY <1>1, <2>1, <2>6
      <3>2. PICK z \in 0 .. 2 : z = T!NextSize(s, i)
        BY <3>1, NextSizeIs
      <3>3. /\ i + z \in i + 1 .. Len(s) + 1
            /\ z = 1 \/ (z = 2 /\ s[i + 1] = "trail")
        BY <2>6, <3>1, <3>2, NextWithin
      <3>4. from[i] = from[i + z]
        BY <2>2, <2>6, <3>2 DEF LeftStep
      <3> DEFINE j == i + z
      <3>5. j - 1 \in n + 1 .. Len(s) /\ (j - 1) + 1 = j /\ j \in Nat
        BY <1>1, <2>1, <3>2, <3>3
      <3> HIDE DEF j
      <3>6. j - 1 \in Good
        BY <1>2, <3>5
      <3>7. Fine(j)
        BY <3>5, <3>6
      <3>8. \A k \in i .. j - 1 : s[k] \in Blank
        <4>1. s[i] \in Blank
          BY <2>6 DEF T!is_whitespace, Blank
        <4>2. \A k \in i .. j - 1 : k = i \/ (z = 2 /\ k = i + 1)
          BY <2>1, <3>2, <3>3 DEF j
        <4> QED BY <3>3, <4>1, <4>2 DEF Blank
      <3>9. ASSUME NEW m \in j - 1 .. Len(s), LeftEnd(s, j, m) PROVE LeftEnd(s, i, m)
        <4>1. m \in i - 1 .. Len(s)
          BY <1>1, <2>1, <3>2, <3>3 DEF j
        <4>2. \A k \in i .. m : k \in i .. j - 1 \/ k \in j .. m
          BY <1>1, <2>1, <3>5
        <4> QED BY <3>8, <3>9, <4>1, <4>2 DEF LeftEnd
      <3>10. from[i] = from[j]
        BY <3>4 DEF j
      <3>11. from[i] = T!Thrown \/ LeftEnd(s, i, from[i])
        <4>1. CASE LeftEnd(s, j, from[j])
          <5>1. from[j] \in j - 1 .. Len(s)
            BY <4>1 DEF LeftEnd
          <5> QED BY <3>9, <3>10, <4>1, <5>1
        <4> QED BY <3>7, <3>10, <4>1
      <3> QED BY <3>11 DEF i
    <2> QED BY <2>3, <2>4, <2>5, <2>6
  <1>3. \A n \in 0 .. Len(s) : n \in Good
    <2> HIDE DEF Good
    <2> QED BY <1>1, <1>2, DownInduction
  <1> QED BY <1>3

\* What trim_left_erase_num() counts, if it does not throw.
LEMMA LeftIs ==
  ASSUME NEW s, Text(s), T!trim_left_erase_num(s) # T!Thrown
  PROVE  LeftEnd(s, 1, T!trim_left_erase_num(s))
  <1>1. PICK from : /\ T!trim_left_erase_num(s) = from[1]
                    /\ \A i \in 1 .. Len(s) + 1 : from[i] = LeftStep(s, from, i)
    BY LeftUnfolds
  <1>2. 0 \in 0 .. Len(s)
    BY TextAt
  <1>3. from[0 + 1] = T!Thrown \/ LeftEnd(s, 0 + 1, from[0 + 1])
    BY <1>1, <1>2, LeftInduction
  <1> QED BY <1>1, <1>3

\* It is nothing if the text begins with a code point that is not white space.
LEMMA LeftZero ==
  ASSUME NEW s, Text(s), Len(s) = 0 \/ BeginsBlack(s, 1)
  PROVE  T!trim_left_erase_num(s) = 0
  <1>1. PICK from : /\ T!trim_left_erase_num(s) = from[1]
                    /\ \A i \in 1 .. Len(s) + 1 : from[i] = LeftStep(s, from, i)
    BY LeftUnfolds
  <1>2. Len(s) \in Nat /\ 1 \in 1 .. Len(s) + 1
    BY TextAt
  <1>3. from[1] = LeftStep(s, from, 1)
    BY <1>1, <1>2
  <1>4. CASE Len(s) = 0
    BY <1>1, <1>3, <1>4 DEF LeftStep
  <1>5. CASE Len(s) # 0
    <2>1. 1 \in 1 .. Len(s) /\ Len(s) + 1 # 1 /\ BeginsBlack(s, 1)
      BY <1>2, <1>5
    <2>2. T!NextSize(s, 1) # 0
      BY <2>1, NextSizeIs DEF BeginsBlack
    <2>3. ~ T!is_whitespace(s, 1)
      BY <2>1 DEF BeginsBlack, Blank, T!is_whitespace
    <2> QED BY <1>1, <1>3, <2>1, <2>2, <2>3 DEF LeftStep
  <1> QED BY <1>4, <1>5

-----------------------------------------------------------------------------

\* In valid text, no end throws where a code point ends or begins.
LEMMA ValidLeft ==
  ASSUME NEW s, Text(s), T!Valid(s)
  PROVE  T!trim_left_erase_num(s) # T!Thrown
  <1>1. PICK from : /\ T!trim_left_erase_num(s) = from[1]
                    /\ \A i \in 1 .. Len(s) + 1 : from[i] = LeftStep(s, from, i)
    BY LeftUnfolds
  <1>2. Len(s) \in Nat
    BY TextAt
  <1>3. ASSUME NEW i \in 1 .. Len(s)
        PROVE  IF s[i] = "trail" THEN i > 1 /\ s[i - 1] \in {"white", "lead"}
                                 ELSE T!NextSize(s, i) # 0
    BY <1>3, TextAt DEF T!Valid
  <1> DEFINE Begins(i) == i = Len(s) + 1 \/ s[i] # "trail"
             Good == {n \in 0 .. Len(s) : Begins(n + 1) => from[n + 1] # T!Thrown}
  <1>4. ASSUME NEW n \in 0 .. Len(s), \A m \in n + 1 .. Len(s) : m \in Good
        PROVE  n \in Good
    <2> SUFFICES ASSUME Begins(n + 1) PROVE from[n + 1] # T!Thrown
      OBVIOUS
    <2> DEFINE i == n + 1
    <2>1. i \in 1 .. Len(s) + 1 /\ i \in Nat
      BY <1>2
    <2>2. from[i] = LeftStep(s, from, i)
      BY <1>1, <2>1
    <2>3. Begins(i)
      OBVIOUS
    <2> HIDE DEF i
    <2>4. CASE i = Len(s) + 1
      <3>1. from[i] = Len(s)
        BY <1>2, <2>2, <2>4 DEF LeftStep
      <3>2. from[i] # T!Thrown
        BY <1>2, <3>1 DEF T!Thrown
      <3> QED BY <3>2 DEF i
    <2>5. CASE i # Len(s) + 1
      <3>1. i \in 1 .. Len(s) /\ s[i] # "trail"
        BY <1>2, <2>1, <2>3, <2>5
      <3>2. T!NextSize(s, i) # 0
        BY <1>3, <3>1
      <3>3. CASE ~ T!is_whitespace(s, i)
        <4>1. from[i] = i - 1
          BY <2>2, <2>5, <3>2, <3>3 DEF LeftStep
        <4>2. from[i] # T!Thrown
          BY <2>1, <4>1 DEF T!Thrown
        <4> QED BY <4>2 DEF i
      <3>4. CASE T!is_whitespace(s, i)
        <4>1. PICK z \in 0 .. 2 : z = T!NextSize(s, i)
          BY <3>1, NextSizeIs
        <4>2. /\ i + z \in i + 1 .. Len(s) + 1
              /\ z = 1 \/ (z = 2 /\ s[i + 1] = "trail")
          BY <3>1, <3>2, <4>1, NextWithin
        <4>3. z = 1 => ~ (s[i] \in Leads /\ i < Len(s) /\ s[i + 1] = "trail")
          <5>1. T!NextSize(s, i) = 2 <=> s[i] \in Leads /\ i < Len(s) /\ s[i + 1] = "trail"
            BY ONLY Text(s), <3>1, NextSizeIs
          <5>2. z = 1 => ~ (T!NextSize(s, i) = 2)
            BY <4>1
          <5> QED BY <5>1, <5>2
        <4> DEFINE j == i + z
        <4>4. j - 1 \in n + 1 .. Len(s) /\ (j - 1) + 1 = j /\ j \in Nat /\ j <= Len(s) + 1
          BY <1>2, <2>1, <4>1, <4>2 DEF i
        <4>5. Begins(j)
          <5> SUFFICES ASSUME j # Len(s) + 1, s[j] = "trail" PROVE FALSE
            OBVIOUS
          <5>1. j \in 1 .. Len(s) /\ j - 1 = i + (z - 1)
            BY <1>2, <2>1, <4>1, <4>2, <4>4
          <5>2. s[j - 1] \in {"white", "lead"}
            BY <1>3, <5>1
          <5>3. CASE z = 1
            <6>1. i < Len(s) /\ j = i + 1 /\ j - 1 = i
              BY <2>1, <5>1, <5>3
            <6> QED BY <4>3, <5>2, <5>3, <6>1 DEF Leads
          <5>4. CASE z = 2
            <6>1. j - 1 = i + 1
              BY <2>1, <5>1, <5>4
            <6> QED BY <4>2, <5>2, <5>4, <6>1
          <5> QED BY <4>2, <5>3, <5>4
        <4> HIDE DEF j
        <4>6. j - 1 \in Good
          BY <1>4, <4>4
        <4>7. from[j] # T!Thrown
          BY <4>4, <4>5, <4>6
        <4>8. from[i] = from[j]
          BY <2>2, <2>5, <3>2, <3>4, <4>1 DEF LeftStep, j
        <4> QED BY <4>7, <4>8 DEF i
      <3> QED BY <3>3, <3>4
    <2> QED BY <2>4, <2>5 DEF i
  <1>5. \A n \in 0 .. Len(s) : n \in Good
    <2> HIDE DEF Good
    <2> QED BY <1>2, <1>4, DownInduction
  <1>6. Begins(1)
    <2>1. CASE Len(s) = 0
      BY <2>1
    <2>2. CASE Len(s) # 0
      <3>1. 1 \in 1 .. Len(s)
        BY <1>2, <2>2
      <3> QED BY <1>3, <3>1
    <2> QED BY <2>1, <2>2
  <1>7. 0 \in 0 .. Len(s) /\ 0 + 1 = 1
    BY <1>2
  <1> QED BY <1>1, <1>5, <1>6, <1>7

\* Where a code point ends in valid text, utf8::prior() finds its first byte.
LEMMA ValidPrior ==
  ASSUME NEW s, Text(s), T!Valid(s), NEW n \in 1 .. Len(s), n = Len(s) \/ s[n + 1] # "trail"
  PROVE  /\ Prior(s, n) \in 1 .. n /\ Prior(s, n) # 0
         /\ s[Prior(s, n)] # "trail"
  <1>1. Len(s) \in Nat /\ n \in 0 .. Len(s) /\ n \in Nat /\ n > 0
    BY TextAt
  <1>2. IF s[n] = "trail" THEN n > 1 /\ s[n - 1] \in {"white", "lead"}
                          ELSE T!NextSize(s, n) # 0
    BY TextAt DEF T!Valid
  <1>3. CASE s[n] = "trail"
    <2>1. n - 1 \in 1 .. n /\ (n - 1) + 1 = n /\ n - 1 < n
      BY <1>1, <1>2, <1>3
    <2>2. s[n - 1] # "trail" /\ Whole(s, n - 1, n)
      BY <1>2, <1>3, <2>1 DEF Whole, Leads
    <2>3. \A k \in (n - 1) + 1 .. n : s[k] = "trail"
      BY <1>1, <1>3
    <2>4. Prior(s, n) = n - 1
      BY <1>1, <2>1, <2>2, <2>3, PriorFinds
    <2> QED BY <2>1, <2>2, <2>4
  <1>4. CASE s[n] # "trail"
    <2>1. Whole(s, n, Len(s))
      BY <1>2, <1>4, NextSizeIs
    <2>2. Whole(s, n, n)
      BY <1>1, <2>1 DEF Whole
    <2>3. \A k \in n + 1 .. n : s[k] = "trail"
      BY <1>1
    <2>4. Prior(s, n) = n
      BY <1>1, <1>4, <2>2, <2>3, PriorFinds
    <2> QED BY <1>1, <1>4, <2>4
  <1> QED BY <1>3, <1>4

LEMMA ValidRight ==
  ASSUME NEW s, Text(s), T!Valid(s)
  PROVE  T!trim_right_erase_num(s) # T!Thrown
  <1>1. PICK to : /\ T!trim_right_erase_num(s) = to[Len(s)]
                  /\ \A n \in 0 .. Len(s) : to[n] = RightStep(s, to, n)
    BY RightUnfolds
  <1>2. Len(s) \in Nat
    BY TextAt
  <1> DEFINE Ends(n) == n = Len(s) \/ s[n + 1] # "trail"
             Good == {n \in 0 .. Len(s) : Ends(n) => to[n] # T!Thrown}
  <1>3. ASSUME NEW n \in 0 .. Len(s), \A m \in 0 .. n - 1 : m \in Good
        PROVE  n \in Good
    <2> SUFFICES ASSUME Ends(n) PROVE to[n] # T!Thrown
      OBVIOUS
    <2>1. to[n] = RightStep(s, to, n)
      BY <1>1
    <2>2. CASE n = 0
      <3>1. to[n] = Len(s)
        BY <2>1, <2>2 DEF RightStep
      <3> QED BY <1>2, <3>1 DEF T!Thrown
    <2>3. CASE n # 0
      <3>1. n \in 1 .. Len(s)
        BY <1>2, <2>3
      <3>2. Prior(s, n) \in 1 .. n /\ Prior(s, n) # 0 /\ s[Prior(s, n)] # "trail"
        BY <3>1, ValidPrior
      <3>3. PICK p \in 1 .. n : p = Prior(s, n)
        BY <3>2
      <3>4. CASE T!is_whitespace(s, p)
        <4>1. to[n] = to[p - 1]
          BY <2>1, <2>3, <3>2, <3>3, <3>4 DEF RightStep
        <4>2. p - 1 \in 0 .. n - 1 /\ (p - 1) + 1 = p
          BY <1>2, <3>1
        <4>3. p - 1 \in Good
          BY <1>3, <4>2
        <4>4. Ends(p - 1)
          BY <3>2, <3>3, <4>2
        <4> QED BY <4>1, <4>3, <4>4
      <3>5. CASE ~ T!is_whitespace(s, p)
        <4>1. to[n] = Len(s) - n
          BY <2>1, <2>3, <3>2, <3>3, <3>5 DEF RightStep
        <4> QED BY <1>2, <4>1 DEF T!Thrown
      <3> QED BY <3>4, <3>5
    <2> QED BY <2>2, <2>3
  <1>4. \A n \in 0 .. Len(s) : n \in Good
    <2> HIDE DEF Good
    <2> QED BY <1>2, <1>3, UpInduction
  <1>5. Len(s) \in 0 .. Len(s)
    BY <1>2
  <1> QED BY <1>1, <1>4, <1>5

-----------------------------------------------------------------------------

(* What the left end leaves of a text, and the right end.                       *)
LeftOf(s) == T!EraseHead(s, T!trim_left_erase_num(s))
RightOf(s) == T!EraseTail(s, T!trim_right_erase_num(s))

LEMMA Suffix ==
  ASSUME NEW s, Text(s), NEW m \in 0 .. Len(s), NEW h, h = SubSeq(s, m + 1, Len(s))
  PROVE  /\ Text(h) /\ Len(h) = Len(s) - m
         /\ \A i \in 1 .. Len(s) - m : h[i] = s[i + m]
  <1>1. Len(s) \in Nat
    BY TextAt
  <1>2. PICK b \in Nat : b = Len(s)
    BY <1>1
  <1>3. /\ m + 1 \in Nat /\ m + 1 > 0 /\ m + 1 <= b + 1 /\ b <= Len(s)
        /\ (m + 1) - 1 = m /\ (b - (m + 1)) + 1 = Len(s) - m
    BY <1>2
  <1>4. /\ Text(SubSeq(s, m + 1, b)) /\ Len(SubSeq(s, m + 1, b)) = (b - (m + 1)) + 1
        /\ \A i \in 1 .. (b - (m + 1)) + 1 : SubSeq(s, m + 1, b)[i] = s[i + ((m + 1) - 1)]
    BY ONLY Text(s), <1>3, Slice
  <1> QED BY <1>2, <1>3, <1>4

LEMMA LeftOfIs ==
  ASSUME NEW s, Text(s), T!trim_left_erase_num(s) # T!Thrown
  PROVE  \E m \in 0 .. Len(s) :
           /\ m = T!trim_left_erase_num(s) /\ LeftEnd(s, 1, m)
           /\ LeftOf(s) = SubSeq(s, m + 1, Len(s))
           /\ Text(LeftOf(s)) /\ Len(LeftOf(s)) = Len(s) - m
           /\ \A i \in 1 .. Len(s) - m : LeftOf(s)[i] = s[i + m]
  <1>1. Len(s) \in Nat
    BY TextAt
  <1>2. LeftEnd(s, 1, T!trim_left_erase_num(s))
    BY LeftIs
  <1>3. PICK m \in 0 .. Len(s) : m = T!trim_left_erase_num(s)
    BY <1>2 DEF LeftEnd
  <1>4. LeftOf(s) = SubSeq(s, m + 1, Len(s))
    BY <1>3 DEF LeftOf, T!EraseHead
  <1>5. /\ Text(LeftOf(s)) /\ Len(LeftOf(s)) = Len(s) - m
        /\ \A i \in 1 .. Len(s) - m : LeftOf(s)[i] = s[i + m]
    BY <1>4, Suffix
  <1> QED BY <1>2, <1>3, <1>4, <1>5

LEMMA RightOfIs ==
  ASSUME NEW s, Text(s), T!trim_right_erase_num(s) # T!Thrown
  PROVE  \E e \in 0 .. Len(s) :
           /\ RightEnd(s, Len(s), e) /\ RightOf(s) = SubSeq(s, 1, e)
           /\ Text(RightOf(s)) /\ Len(RightOf(s)) = e
           /\ \A i \in 1 .. e : RightOf(s)[i] = s[i]
           /\ \A i \in 1 .. e : Whole(RightOf(s), i, e) <=> Whole(s, i, e)
  <1>1. Len(s) \in Nat
    BY TextAt
  <1>2. PICK k \in 0 .. Len(s) : k = T!trim_right_erase_num(s) /\ RightEnd(s, Len(s), Len(s) - k)
    BY RightIs
  <1>3. PICK e \in 0 .. Len(s) : e = Len(s) - k
    BY <1>1
  <1>4. RightOf(s) = SubSeq(s, 1, e)
    BY <1>2, <1>3 DEF RightOf, T!EraseTail
  <1>5. /\ Text(SubSeq(s, 1, e)) /\ Len(SubSeq(s, 1, e)) = e
        /\ \A i \in 1 .. e : SubSeq(s, 1, e)[i] = s[i]
        /\ \A i \in 1 .. e : Whole(SubSeq(s, 1, e), i, e) <=> Whole(s, i, e)
    BY ONLY Text(s), e \in 0 .. Len(s), Prefix
  <1>6. RightEnd(s, Len(s), e)
    BY <1>2, <1>3
  <1> QED BY ONLY <1>4, <1>5, <1>6, e \in 0 .. Len(s)

\* Both ends of a text: white space in front of the byte m + 1, and from the byte
\* m + e + 1 on.
LEMMA BothCut ==
  ASSUME NEW s, Text(s), NEW m \in 0 .. Len(s), NEW h, h = SubSeq(s, m + 1, Len(s)),
         NEW e \in 0 .. Len(s) - m
  PROVE  SubSeq(h, 1, e) = SubSeq(s, m + 1, m + e)
  <1>1. Len(s) \in Nat /\ m \in Nat /\ e \in Nat
    BY TextAt
  <1>2. /\ m + 1 \in Nat /\ m + 1 > 0 /\ (m + 1) - 1 = m
        /\ m + e \in Nat /\ m + 1 <= (m + e) + 1 /\ m + e <= Len(s)
        /\ ((m + e) - (m + 1)) + 1 = e
        /\ e <= Len(s) - m /\ Len(s) - m \in Nat
    BY <1>1
  <1>3. /\ Text(h) /\ Len(h) = Len(s) - m
        /\ \A i \in 1 .. Len(s) - m : h[i] = s[i + m]
    BY Suffix
  <1>4. /\ Text(SubSeq(h, 1, e)) /\ Len(SubSeq(h, 1, e)) = e
        /\ \A i \in 1 .. e : SubSeq(h, 1, e)[i] = h[i]
    BY <1>2, <1>3, Prefix
  <1>5. /\ Text(SubSeq(s, m + 1, m + e)) /\ Len(SubSeq(s, m + 1, m + e)) = e
        /\ \A i \in 1 .. e : SubSeq(s, m + 1, m + e)[i] = s[i + m]
    <2>1. /\ Text(SubSeq(s, m + 1, m + e))
          /\ Len(SubSeq(s, m + 1, m + e)) = ((m + e) - (m + 1)) + 1
          /\ \A i \in 1 .. ((m + e) - (m + 1)) + 1 :
               SubSeq(s, m + 1, m + e)[i] = s[i + ((m + 1) - 1)]
      BY <1>1, <1>2, Slice
    <2> QED BY <1>2, <2>1
  <1>6. \A i \in 1 .. e : i \in 1 .. Len(s) - m
    BY <1>2
  <1>7. \A i \in 1 .. e : SubSeq(h, 1, e)[i] = SubSeq(s, m + 1, m + e)[i]
    BY <1>3, <1>4, <1>5, <1>6
  <1> QED BY <1>4, <1>5, <1>7 DEF Text

\* What trim() leaves begins and ends with a code point that is not white space.
LEMMA BothStable ==
  ASSUME NEW s, Text(s), T!trim_left_erase_num(s) # T!Thrown,
         T!trim_right_erase_num(LeftOf(s)) # T!Thrown
  PROVE  /\ T!trim_left_erase_num(RightOf(LeftOf(s))) = 0
         /\ T!trim_right_erase_num(RightOf(LeftOf(s))) = 0
  <1> DEFINE h == LeftOf(s)
             r == RightOf(h)
  <1>1. Len(s) \in Nat
    BY TextAt
  <1>2. PICK m \in 0 .. Len(s) : /\ LeftEnd(s, 1, m)
                                 /\ Text(h) /\ Len(h) = Len(s) - m
                                 /\ \A i \in 1 .. Len(s) - m : h[i] = s[i + m]
    BY LeftOfIs
  <1>3. PICK e \in 0 .. Len(h) : /\ RightEnd(h, Len(h), e)
                                 /\ Text(r) /\ Len(r) = e
                                 /\ \A i \in 1 .. e : r[i] = h[i]
                                 /\ \A i \in 1 .. e : Whole(r, i, e) <=> Whole(h, i, e)
    BY <1>2, RightOfIs
  <1> HIDE DEF h, r
  <1>4. CASE e = 0
    BY <1>3, <1>4, LeftZero, RightZero DEF h, r
  <1>5. CASE e # 0
    <2>1. EndsBlack(r, e)
      <3>1. PICK p \in 1 .. e : /\ h[p] \notin Blank /\ Whole(h, p, e)
                                /\ \A k \in p + 1 .. e : h[k] = "trail"
        BY <1>3, <1>5 DEF RightEnd, EndsBlack
      <3>2. \A k \in p + 1 .. e : k \in 1 .. e
        BY <1>1, <1>2, <1>3
      <3> QED BY <1>3, <3>1, <3>2 DEF EndsBlack
    <2>2. BeginsBlack(h, 1)
      <3>1. m # Len(s) /\ 1 \in 1 .. Len(s) - m
        BY <1>1, <1>2, <1>3, <1>5
      <3>2. s[m + 1] \notin Blank /\ Whole(s, m + 1, Len(s))
        BY <1>2, <3>1 DEF LeftEnd, BeginsBlack
      <3>3. h[1] = s[m + 1]
        <4>1. h[1] = s[1 + m] /\ 1 + m = m + 1
          BY <1>2, <3>1
        <4> QED BY <4>1
      <3>4. m + 1 < Len(s) => 1 < Len(h) /\ h[1 + 1] = s[(m + 1) + 1]
        <4> SUFFICES ASSUME m + 1 < Len(s) PROVE 1 < Len(h) /\ h[1 + 1] = s[(m + 1) + 1]
          OBVIOUS
        <4>1. 2 \in 1 .. Len(s) - m /\ 2 + m = (m + 1) + 1 /\ 1 < Len(s) - m
          BY <1>1
        <4> QED BY <1>2, <4>1
      <3>5. Whole(h, 1, Len(h))
        BY <3>2, <3>3, <3>4 DEF Whole
      <3> QED BY <3>2, <3>3, <3>5 DEF BeginsBlack
    <2>3. BeginsBlack(r, 1)
      <3>1. 1 \in 1 .. e /\ e \in Nat /\ Len(h) \in Nat
        BY <1>1, <1>2, <1>3, <1>5
      <3>2. e = Len(h) \/ h[e + 1] # "trail"
        BY <1>3 DEF RightEnd
      <3>3. h[1] \notin Blank /\ Whole(h, 1, Len(h))
        BY <2>2 DEF BeginsBlack
      <3>4. Whole(h, 1, e)
        <4>1. CASE h[1] \in Leads /\ 1 < Len(h) /\ h[1 + 1] = "trail"
          <5>1. e # 1
            BY <3>2, <4>1
          <5>2. 1 < e
            BY <3>1, <5>1
          <5> QED BY <4>1, <5>2 DEF Whole
        <4> QED BY <3>3, <4>1 DEF Whole
      <3> QED BY <1>3, <3>1, <3>3, <3>4 DEF BeginsBlack
    <2>4. T!trim_left_erase_num(r) = 0
      BY <1>3, <2>3, LeftZero
    <2>5. T!trim_right_erase_num(r) = 0
      BY <1>3, <2>1, RightZero
    <2> QED BY <2>4, <2>5 DEF h, r
  <1> QED BY <1>4, <1>5

-----------------------------------------------------------------------------

(* The bytes that are not white space, and where they begin and end.            *)
Blacks(s) == {i \in DOMAIN s : s[i] \notin Blank}
FirstBlack(s) == IF Blacks(s) = {} THEN Len(s) + 1 ELSE T!Min(Blacks(s))
LastBlack(s) ==
  IF Blacks(s) = {} THEN 0 ELSE T!Max(Blacks(s)) + T!NextSize(s, T!Max(Blacks(s))) - 1

LEMMA MinIs ==
  ASSUME NEW U, U \subseteq Int, NEW x \in U, \A y \in U : x <= y
  PROVE  T!Min(U) = x
  <1>1. T!Min(U) \in U /\ \A y \in U : T!Min(U) <= y
    BY DEF T!Min
  <1>2. PICK m \in U : m = T!Min(U) /\ \A y \in U : m <= y
    BY <1>1
  <1>3. m <= x /\ x <= m /\ m \in Int /\ x \in Int
    BY <1>2
  <1> QED BY <1>2, <1>3

LEMMA MaxIs ==
  ASSUME NEW U, U \subseteq Int, NEW x \in U, \A y \in U : x >= y
  PROVE  T!Max(U) = x
  <1>1. T!Max(U) \in U /\ \A y \in U : T!Max(U) >= y
    BY DEF T!Max
  <1>2. PICK m \in U : m = T!Max(U) /\ \A y \in U : m >= y
    BY <1>1
  <1>3. m <= x /\ x <= m /\ m \in Int /\ x \in Int
    BY <1>2
  <1> QED BY <1>2, <1>3

LEMMA LeftExact ==
  ASSUME NEW s, Text(s), NEW m \in 0 .. Len(s), LeftEnd(s, 1, m)
  PROVE  FirstBlack(s) = m + 1
  <1>1. Len(s) \in Nat /\ DOMAIN s = 1 .. Len(s)
    BY TextAt
  <1>2. /\ \A k \in 1 .. m : s[k] \in Blank
        /\ m = Len(s) \/ s[m + 1] \notin Blank
    BY DEF LeftEnd, BeginsBlack
  <1>3. CASE m = Len(s)
    <2>1. Blacks(s) = {}
      BY <1>1, <1>2, <1>3 DEF Blacks
    <2> QED BY <1>3, <2>1 DEF FirstBlack
  <1>4. CASE m # Len(s)
    <2>1. m + 1 \in 1 .. Len(s)
      <3>1. Len(s) \in Nat
        BY <1>1
      <3> QED BY ONLY <1>4, <3>1, m \in 0 .. Len(s)
    <2>2. m + 1 \in Blacks(s)
      BY <1>1, <1>2, <1>4, <2>1 DEF Blacks
    <2>3. ASSUME NEW j \in Blacks(s) PROVE m + 1 <= j
      <3>1. j \in 1 .. Len(s) /\ s[j] \notin Blank
        BY <1>1, <2>3 DEF Blacks
      <3>2. ~ (j \in 1 .. m)
        BY <1>2, <3>1
      <3> QED BY <1>1, <3>1, <3>2
    <2>4. Blacks(s) \subseteq Int
      BY <1>1 DEF Blacks
    <2>5. T!Min(Blacks(s)) = m + 1
      BY <2>2, <2>3, <2>4, MinIs
    <2> QED BY <2>2, <2>5 DEF FirstBlack
  <1> QED BY <1>3, <1>4

LEMMA RightExact ==
  ASSUME NEW s, Text(s), T!Valid(s), NEW e \in 0 .. Len(s), RightEnd(s, Len(s), e)
  PROVE  LastBlack(s) = e
  <1>1. Len(s) \in Nat /\ DOMAIN s = 1 .. Len(s)
    BY TextAt
  <1>2. /\ \A k \in e + 1 .. Len(s) : s[k] \in Blank
        /\ e = 0 \/ EndsBlack(s, e)
    BY DEF RightEnd
  <1>3. CASE e = 0
    <2>1. Blacks(s) = {}
      BY <1>1, <1>2, <1>3 DEF Blacks
    <2> QED BY <1>3, <2>1 DEF LastBlack
  <1>4. CASE e # 0
    <2>1. PICK p \in 1 .. e : /\ s[p] \notin Blank /\ Whole(s, p, e)
                              /\ \A k \in p + 1 .. e : s[k] = "trail"
      BY <1>2, <1>4 DEF EndsBlack
    <2>2. p \in 1 .. Len(s) /\ p \in Nat /\ p <= e /\ e \in Nat
      BY <1>1
    <2>3. p \in Blacks(s)
      BY <1>1, <2>1, <2>2 DEF Blacks
    <2>4. ASSUME NEW j \in Blacks(s) PROVE p >= j
      <3>1. j \in 1 .. Len(s) /\ s[j] \notin Blank
        BY <1>1, <2>4 DEF Blacks
      <3>2. ~ (j \in e + 1 .. Len(s))
        BY <1>2, <3>1
      <3>3. ~ (j \in p + 1 .. e)
        BY <2>1, <3>1 DEF Blank
      <3> QED BY <1>1, <2>2, <3>1, <3>2, <3>3
    <2>5. Blacks(s) \subseteq Int
      BY <1>1 DEF Blacks
    <2>6. T!Max(Blacks(s)) = p
      BY <2>3, <2>4, <2>5, MaxIs
    <2>7. LastBlack(s) = p + T!NextSize(s, p) - 1
      BY <2>3, <2>6 DEF LastBlack
    <2>8. PICK z \in 0 .. 2 : z = T!NextSize(s, p)
      BY <2>2, NextSizeIs
    <2>9. ASSUME NEW i \in 1 .. Len(s), s[i] = "trail" PROVE i > 1 /\ s[i - 1] \in {"white", "lead"}
      BY <1>1, <2>9 DEF T!Valid
    <2>10. p < e => p + 1 \in p + 1 .. e /\ p + 1 \in 1 .. Len(s) /\ (p + 1) - 1 = p
      BY <1>1, <2>2
    <2>11. CASE p = e
      <3>1. ~ (p < e)
        BY <2>2, <2>11
      <3>2. s[p] \in T!Bytes \ {"white", "lead", "trail"}
        BY <2>1, <3>1 DEF Whole
      <3>3. z = 1
        BY <2>8, <3>2 DEF T!NextSize
      <3> QED BY <2>2, <2>7, <2>8, <2>11, <3>3
    <2>12. CASE p # e
      <3>1. p < e
        BY <2>2, <2>12
      <3>2. s[p + 1] = "trail" /\ s[p] \in Leads
        BY <2>1, <2>9, <2>10, <3>1 DEF Leads
      <3>3. z = 2
        <4>1. p < Len(s)
          BY <1>1, <2>2, <3>1
        <4> QED BY <2>8, <3>2, <4>1 DEF T!NextSize, Leads
      <3>4. e = p + 1
        <4> SUFFICES ASSUME e # p + 1 PROVE FALSE
          OBVIOUS
        <4>1. p + 2 \in p + 1 .. e /\ p + 2 \in 1 .. Len(s) /\ (p + 2) - 1 = p + 1
          BY <1>1, <2>2, <3>1
        <4>2. s[p + 2] = "trail"
          BY <2>1, <4>1
        <4>3. s[p + 1] \in {"white", "lead"}
          BY <2>9, <4>1, <4>2
        <4> QED BY <3>2, <4>3
      <3> QED BY <2>2, <2>7, <2>8, <3>3, <3>4
    <2> QED BY <2>11, <2>12
  <1> QED BY <1>3, <1>4

\* What the left end leaves of valid text is valid.
LEMMA LeftValid ==
  ASSUME NEW s, Text(s), T!Valid(s), NEW m \in 0 .. Len(s), LeftEnd(s, 1, m),
         NEW h, Text(h), Len(h) = Len(s) - m, \A i \in 1 .. Len(s) - m : h[i] = s[i + m]
  PROVE  T!Valid(h)
  <1>1. Len(s) \in Nat /\ DOMAIN s = 1 .. Len(s) /\ DOMAIN h = 1 .. Len(s) - m
    BY TextAt
  <1> SUFFICES ASSUME NEW i \in 1 .. Len(s) - m
               PROVE  IF h[i] = "trail" THEN i > 1 /\ h[i - 1] \in {"white", "lead"}
                                        ELSE T!NextSize(h, i) # 0
    BY <1>1 DEF T!Valid
  <1>2. i + m \in 1 .. Len(s) /\ (i + m) - 1 = (i - 1) + m /\ (i + m) + 1 = (i + 1) + m
        /\ i \in Nat /\ m \in Nat
    BY <1>1
  <1>3. IF s[i + m] = "trail" THEN s[(i + m) - 1] \in {"white", "lead"}
                              ELSE T!NextSize(s, i + m) # 0
    BY <1>1, <1>2 DEF T!Valid
  <1>4. h[i] = s[i + m]
    OBVIOUS
  <1>5. CASE h[i] = "trail"
    <2>1. i # 1
      <3> SUFFICES ASSUME i = 1 PROVE FALSE
        OBVIOUS
      <3>1. m # Len(s) /\ i + m = m + 1
        BY <1>1
      <3>2. s[m + 1] \notin Blank
        BY <3>1 DEF LeftEnd, BeginsBlack
      <3> QED BY <1>4, <1>5, <3>1, <3>2 DEF Blank
    <2>2. i > 1 /\ i - 1 \in 1 .. Len(s) - m
      BY <1>1, <1>2, <2>1
    <2> QED BY <1>2, <1>3, <1>4, <1>5, <2>2
  <1>6. CASE h[i] # "trail"
    <2>1. Whole(s, i + m, Len(s))
      BY <1>2, <1>3, <1>4, <1>6, NextSizeIs
    <2>2. i + m < Len(s) => i < Len(s) - m /\ i + 1 \in 1 .. Len(s) - m
      BY <1>1, <1>2
    <2>3. i + m < Len(s) => h[i + 1] = s[(i + m) + 1]
      BY <1>2, <2>2
    <2>4. Whole(h, i, Len(h))
      BY <1>4, <2>1, <2>2, <2>3 DEF Whole
    <2>5. i \in 1 .. Len(h)
      OBVIOUS
    <2> QED BY <1>6, <2>4, <2>5, NextSizeIs
  <1> QED BY <1>5, <1>6

\* The right end of what the left end leaves is that of the text, if there is more
\* than white space.
LEMMA BothEnd ==
  ASSUME NEW s, Text(s), NEW m \in 0 .. Len(s), LeftEnd(s, 1, m),
         NEW h, Text(h), Len(h) = Len(s) - m, \A i \in 1 .. Len(s) - m : h[i] = s[i + m],
         NEW e \in 0 .. Len(h), RightEnd(h, Len(h), e)
  PROVE  IF e = 0 THEN m = Len(s) ELSE m + e \in 0 .. Len(s) /\ RightEnd(s, Len(s), m + e)
  <1>1. Len(s) \in Nat /\ m \in Nat /\ e \in Nat /\ Len(h) = Len(s) - m
    BY TextAt
  <1>2. /\ \A k \in e + 1 .. Len(h) : h[k] \in Blank
        /\ e = Len(h) \/ h[e + 1] # "trail"
        /\ e = 0 \/ EndsBlack(h, e)
    BY DEF RightEnd
  <1>3. CASE e = 0
    <2> SUFFICES ASSUME m # Len(s) PROVE FALSE
      BY <1>3
    <2>1. 1 \in e + 1 .. Len(h) /\ 1 \in 1 .. Len(s) - m /\ 1 + m = m + 1
      BY <1>1, <1>3
    <2>2. s[m + 1] \notin Blank
      BY DEF LeftEnd, BeginsBlack
    <2> QED BY <1>2, <2>1, <2>2
  <1>4. CASE e # 0
    <2>1. m + e \in 0 .. Len(s) /\ m + e \in Nat
      BY <1>1
    <2>2. ASSUME NEW k \in (m + e) + 1 .. Len(s) PROVE s[k] \in Blank
      <3>1. k - m \in e + 1 .. Len(h) /\ k - m \in 1 .. Len(s) - m /\ (k - m) + m = k
        BY <1>1
      <3> QED BY <1>2, <3>1
    <2>3. m + e = Len(s) \/ s[(m + e) + 1] # "trail"
      <3>1. e # Len(h) => e + 1 \in 1 .. Len(s) - m /\ (e + 1) + m = (m + e) + 1
        <4>1. Len(h) \in Nat
          BY TextAt
        <4>2. e # Len(h) => e + 1 \in 1 .. Len(h)
          BY ONLY <4>1, e \in 0 .. Len(h)
        <4>3. (e + 1) + m = (m + e) + 1
          BY ONLY <1>1
        <4> QED BY <4>2, <4>3
      <3>2. e = Len(h) => m + e = Len(s)
        BY <1>1
      <3>3. e # Len(h) => h[e + 1] = s[(m + e) + 1]
        BY <3>1
      <3> QED BY <1>2, <3>2, <3>3
    <2>4. EndsBlack(s, m + e)
      <3>1. PICK p \in 1 .. e : /\ h[p] \notin Blank /\ Whole(h, p, e)
                                /\ \A k \in p + 1 .. e : h[k] = "trail"
        BY <1>2, <1>4 DEF EndsBlack
      <3>2. /\ p + m \in 1 .. m + e /\ p \in 1 .. Len(s) - m /\ (p + 1) + m = (p + m) + 1
            /\ p < e => p + m < m + e /\ p + 1 \in 1 .. Len(s) - m
        BY <1>1
      <3>3. h[p] = s[p + m] /\ (p < e => h[p + 1] = s[(p + m) + 1])
        BY <3>2
      <3>4. Whole(s, p + m, m + e)
        BY <3>1, <3>2, <3>3 DEF Whole
      <3>5. ASSUME NEW k \in (p + m) + 1 .. m + e PROVE s[k] = "trail"
        <4>1. k - m \in p + 1 .. e /\ k - m \in 1 .. Len(s) - m /\ (k - m) + m = k
          BY <1>1
        <4> QED BY <3>1, <4>1
      <3> DEFINE q == p + m
      <3>6. q \in 1 .. m + e /\ s[q] \notin Blank /\ Whole(s, q, m + e)
            /\ \A k \in q + 1 .. m + e : s[k] = "trail"
        BY <3>1, <3>2, <3>3, <3>4, <3>5
      <3> HIDE DEF q
      <3> QED BY <3>6 DEF EndsBlack
    <2> QED BY <1>4, <2>1, <2>2, <2>3, <2>4 DEF RightEnd
  <1> QED BY <1>3, <1>4

-----------------------------------------------------------------------------

(* Without() as a step from the bytes before.                                   *)
KeepStep(s, drop, f, n) ==
  IF n = 0 THEN <<>> ELSE IF s[n] \in drop THEN f[n - 1] ELSE Append(f[n - 1], s[n])
Keeps(s, drop, f, N) == \A n \in 0 .. N : f[n] = KeepStep(s, drop, f, n)

LEMMA KeepsExtend ==
  ASSUME NEW s, NEW drop, NEW k \in Nat, k > 0, NEW f, Keeps(s, drop, f, k - 1)
  PROVE  \E g : Keeps(s, drop, g, k)
  <1> DEFINE g == [n \in 0 .. k |-> IF n = k THEN KeepStep(s, drop, f, k) ELSE f[n]]
  <1>1. \A n \in 0 .. k - 1 : g[n] = f[n]
    OBVIOUS
  <1>2. g[k] = KeepStep(s, drop, f, k)
    OBVIOUS
  <1>3. 0 \in 0 .. k - 1 /\ k - 1 \in 0 .. k - 1
    OBVIOUS
  <1>4. \A n \in 0 .. k - 1 : n = 0 \/ n - 1 \in 0 .. k - 1
    OBVIOUS
  <1>5. \A n \in 0 .. k : n = k \/ n \in 0 .. k - 1
    OBVIOUS
  <1> HIDE DEF g
  <1>6. ASSUME NEW n \in 0 .. k - 1 PROVE g[n] = KeepStep(s, drop, g, n)
    <2>1. f[n] = KeepStep(s, drop, f, n)
      BY DEF Keeps
    <2>2. n = 0 \/ g[n - 1] = f[n - 1]
      BY <1>1, <1>4
    <2> QED BY <1>1, <2>1, <2>2 DEF KeepStep
  <1>7. g[k] = KeepStep(s, drop, g, k)
    BY <1>1, <1>2, <1>3 DEF KeepStep
  <1> QED BY <1>5, <1>6, <1>7 DEF Keeps

LEMMA KeepsDefine ==
  ASSUME NEW s, NEW drop, NEW N \in Nat
  PROVE  \E f : Keeps(s, drop, f, N)
  <1> DEFINE Defined == {k \in 0 .. N : \E f : Keeps(s, drop, f, k)}
  <1>1. ASSUME NEW k \in 0 .. N, \A m \in 0 .. k - 1 : m \in Defined
        PROVE  k \in Defined
    <2>1. CASE k = 0
      <3>1. Keeps(s, drop, [n \in {0} |-> <<>>], 0)
        BY DEF Keeps, KeepStep
      <3> QED BY <2>1, <3>1
    <2>2. CASE k > 0
      <3>1. k - 1 \in 0 .. k - 1
        BY <2>2
      <3>2. PICK f : Keeps(s, drop, f, k - 1)
        BY <1>1, <3>1
      <3> QED BY <2>2, <3>2, KeepsExtend
    <2> QED BY <2>1, <2>2
  <1>2. \A k \in 0 .. N : k \in Defined
    <2> HIDE DEF Defined
    <2> QED BY <1>1, UpInduction
  <1> QED BY <1>2

LEMMA WithoutUnfolds ==
  ASSUME NEW s, Len(s) \in Nat, NEW drop
  PROVE  \E f : T!Without(s, drop) = f[Len(s)] /\ Keeps(s, drop, f, Len(s))
  <1> DEFINE IsKept(f) == f = [n \in 0 .. Len(s) |-> KeepStep(s, drop, f, n)]
             kept == CHOOSE f : IsKept(f)
  <1>1. T!Without(s, drop) = kept[Len(s)]
    BY DEF T!Without, KeepStep
  <1>2. PICK g : Keeps(s, drop, g, Len(s))
    BY KeepsDefine
  <1> DEFINE h == [n \in 0 .. Len(s) |-> g[n]]
  <1>3. ASSUME NEW n \in 0 .. Len(s) PROVE h[n] = KeepStep(s, drop, h, n)
    <2>1. g[n] = KeepStep(s, drop, g, n)
      BY <1>2 DEF Keeps
    <2>2. n = 0 \/ n - 1 \in 0 .. Len(s)
      OBVIOUS
    <2>3. n = 0 \/ h[n - 1] = g[n - 1]
      BY <2>2
    <2>4. h[n] = g[n]
      OBVIOUS
    <2> HIDE DEF h
    <2> QED BY <2>1, <2>3, <2>4 DEF KeepStep
  <1>4. h = [n \in 0 .. Len(s) |-> h[n]]
    OBVIOUS
  <1> HIDE DEF h
  <1>5. IsKept(h)
    BY <1>3, <1>4
  <1>6. IsKept(kept)
    <2> HIDE DEF IsKept
    <2> QED BY <1>5
  <1> HIDE DEF kept
  <1>7. Keeps(s, drop, kept, Len(s))
    BY <1>6 DEF Keeps
  <1> QED BY <1>1, <1>7

\* What is left when some bytes go are the others.
LEMMA WithoutType ==
  ASSUME NEW U, NEW s \in Seq(U), NEW drop
  PROVE  T!Without(s, drop) \in Seq(U \ drop) /\ Len(T!Without(s, drop)) <= Len(s)
  <1>1. Len(s) \in Nat /\ \A n \in 1 .. Len(s) : s[n] \in U
    BY LenProperties, ElementOfSeq
  <1>2. PICK f : T!Without(s, drop) = f[Len(s)] /\ Keeps(s, drop, f, Len(s))
    BY <1>1, WithoutUnfolds
  <1> DEFINE Good == {n \in 0 .. Len(s) : f[n] \in Seq(U \ drop) /\ Len(f[n]) <= n}
  <1>3. ASSUME NEW n \in 0 .. Len(s), \A m \in 0 .. n - 1 : m \in Good
        PROVE  n \in Good
    <2>1. f[n] = KeepStep(s, drop, f, n)
      BY <1>2 DEF Keeps
    <2>2. CASE n = 0
      <3>1. f[n] = <<>>
        BY <2>1, <2>2 DEF KeepStep
      <3>2. <<>> \in Seq(U \ drop) /\ Len(<<>>) = 0
        OBVIOUS
      <3>3. f[n] \in Seq(U \ drop) /\ Len(f[n]) = 0 /\ 0 <= n
        BY <2>2, <3>1, <3>2
      <3> QED BY <3>3
    <2>3. CASE n # 0
      <3>1. n - 1 \in 0 .. n - 1 /\ n \in 1 .. Len(s)
        BY <1>1, <2>3
      <3>2. f[n - 1] \in Seq(U \ drop) /\ Len(f[n - 1]) <= n - 1
        BY <1>3, <3>1
      <3>3. CASE s[n] \in drop
        <4>1. f[n] = f[n - 1]
          BY <2>1, <2>3, <3>3 DEF KeepStep
        <4> QED BY <3>1, <3>2, <4>1, LenProperties
      <3>4. CASE s[n] \notin drop
        <4>1. f[n] = Append(f[n - 1], s[n]) /\ s[n] \in U \ drop
          BY <1>1, <2>1, <2>3, <3>1, <3>4 DEF KeepStep
        <4>2. f[n] \in Seq(U \ drop) /\ Len(f[n]) = Len(f[n - 1]) + 1
          BY <3>2, <4>1
        <4>3. Len(f[n - 1]) \in Nat
          BY <3>2, LenProperties
        <4> QED BY <3>1, <3>2, <4>2, <4>3
      <3> QED BY <3>3, <3>4
    <2> QED BY <2>2, <2>3
  <1>4. \A n \in 0 .. Len(s) : n \in Good
    <2> HIDE DEF Good
    <2> QED BY <1>1, <1>3, UpInduction
  <1>5. Len(s) \in 0 .. Len(s)
    BY <1>1
  <1> QED BY <1>2, <1>4, <1>5

LEMMA WithoutEmpty ==
  ASSUME NEW drop
  PROVE  T!Without(<<>>, drop) = <<>>
  <1>1. Len(<<>>) = 0
    OBVIOUS
  <1>2. PICK f : T!Without(<<>>, drop) = f[0] /\ Keeps(<<>>, drop, f, 0)
    BY <1>1, WithoutUnfolds
  <1> QED BY <1>2 DEF Keeps, KeepStep

LEMMA WithoutAppend ==
  ASSUME NEW U, NEW s \in Seq(U), NEW b \in U, NEW drop
  PROVE  T!Without(Append(s, b), drop) =
           IF b \in drop THEN T!Without(s, drop) ELSE Append(T!Without(s, drop), b)
  <1> DEFINE t == Append(s, b)
  <1>1. /\ Len(s) \in Nat /\ Len(t) = Len(s) + 1 /\ t[Len(s) + 1] = b
        /\ \A n \in 1 .. Len(s) : t[n] = s[n]
    BY LenProperties
  <1> HIDE DEF t
  <1>2. PICK f : T!Without(s, drop) = f[Len(s)] /\ Keeps(s, drop, f, Len(s))
    BY <1>1, WithoutUnfolds
  <1>3. PICK g : T!Without(t, drop) = g[Len(s) + 1] /\ Keeps(t, drop, g, Len(s) + 1)
    BY <1>1, WithoutUnfolds
  <1> DEFINE Good == {n \in 0 .. Len(s) : f[n] = g[n]}
  <1>4. ASSUME NEW n \in 0 .. Len(s), \A m \in 0 .. n - 1 : m \in Good
        PROVE  n \in Good
    <2>1. f[n] = KeepStep(s, drop, f, n)
      BY <1>2 DEF Keeps
    <2>2. g[n] = KeepStep(t, drop, g, n)
      <3>1. n \in 0 .. Len(s) + 1
        BY <1>1
      <3> QED BY <1>3, <3>1 DEF Keeps
    <2>3. n = 0 \/ (n - 1 \in 0 .. n - 1 /\ n \in 1 .. Len(s))
      BY <1>1
    <2>4. n = 0 \/ (f[n - 1] = g[n - 1] /\ t[n] = s[n])
      BY <1>1, <1>4, <2>3
    <2> QED BY <2>1, <2>2, <2>4 DEF KeepStep
  <1>5. \A n \in 0 .. Len(s) : n \in Good
    <2> HIDE DEF Good
    <2> QED BY <1>1, <1>4, UpInduction
  <1>6. f[Len(s)] = g[Len(s)]
    <2>1. Len(s) \in 0 .. Len(s)
      BY <1>1
    <2> QED BY <1>5, <2>1
  <1>7. g[Len(s) + 1] = KeepStep(t, drop, g, Len(s) + 1)
    <2>1. Len(s) + 1 \in 0 .. Len(s) + 1
      BY <1>1
    <2> QED BY <1>3, <2>1 DEF Keeps
  <1>8. (Len(s) + 1) - 1 = Len(s) /\ Len(s) + 1 # 0
    BY <1>1
  <1> QED BY <1>1, <1>2, <1>3, <1>6, <1>7, <1>8 DEF KeepStep, t

\* A text of n bytes is one of n - 1 and its last.
LEMMA LastApart ==
  ASSUME NEW s, Text(s), NEW n \in 1 .. Len(s)
  PROVE  SubSeq(s, 1, n) = Append(SubSeq(s, 1, n - 1), s[n])
  <1>1. Len(s) \in Nat /\ n \in Nat /\ n \in 0 .. Len(s) /\ n - 1 \in 0 .. Len(s)
        /\ (n - 1) + 1 = n /\ s[n] \in T!Bytes
    BY TextAt
  <1> DEFINE p == SubSeq(s, 1, n)
             q == SubSeq(s, 1, n - 1)
             r == Append(q, s[n])
  <1>2. p \in Seq(T!Bytes) /\ Len(p) = n /\ \A i \in 1 .. n : p[i] = s[i]
    BY <1>1, Prefix DEF Text
  <1>3. q \in Seq(T!Bytes) /\ Len(q) = n - 1 /\ \A i \in 1 .. n - 1 : q[i] = s[i]
    BY <1>1, Prefix DEF Text
  <1> HIDE DEF p, q
  <1>4. r \in Seq(T!Bytes) /\ Len(r) = n /\ r[n] = s[n] /\ \A i \in 1 .. n - 1 : r[i] = q[i]
    BY <1>1, <1>3
  <1>5. \A i \in 1 .. n : i = n \/ i \in 1 .. n - 1
    BY <1>1
  <1> HIDE DEF r
  <1>6. \A i \in 1 .. n : p[i] = r[i]
    BY <1>2, <1>3, <1>4, <1>5
  <1>7. p = r
    BY <1>2, <1>4, <1>6
  <1> QED BY <1>7 DEF p, q, r

LEMMA WithoutLast ==
  ASSUME NEW s, Text(s), NEW n \in 1 .. Len(s), NEW drop
  PROVE  T!Without(SubSeq(s, 1, n), drop) =
           IF s[n] \in drop THEN T!Without(SubSeq(s, 1, n - 1), drop)
                            ELSE Append(T!Without(SubSeq(s, 1, n - 1), drop), s[n])
  <1>1. SubSeq(s, 1, n) = Append(SubSeq(s, 1, n - 1), s[n])
    BY LastApart
  <1>2. n - 1 \in 0 .. Len(s) /\ s[n] \in T!Bytes
    BY TextAt
  <1>3. SubSeq(s, 1, n - 1) \in Seq(T!Bytes)
    BY <1>2, Prefix DEF Text
  <1>4. PICK p \in Seq(T!Bytes), b \in T!Bytes : p = SubSeq(s, 1, n - 1) /\ b = s[n]
    BY <1>2, <1>3
  <1>5. T!Without(Append(p, b), drop) =
          IF b \in drop THEN T!Without(p, drop) ELSE Append(T!Without(p, drop), b)
    BY ONLY WithoutAppend
  <1> QED BY <1>1, <1>4, <1>5

LEMMA AllOf ==
  ASSUME NEW s, Text(s)
  PROVE  SubSeq(s, 1, Len(s)) = s /\ SubSeq(s, 1, 0) = <<>>
  <1>1. Len(s) \in Nat /\ Len(s) \in 0 .. Len(s) /\ 0 \in 0 .. Len(s)
    BY TextAt
  <1> DEFINE p == SubSeq(s, 1, Len(s))
             q == SubSeq(s, 1, 0)
  <1>2. p \in Seq(T!Bytes) /\ Len(p) = Len(s) /\ \A i \in 1 .. Len(s) : p[i] = s[i]
    BY <1>1, Prefix DEF Text
  <1>3. q \in Seq(T!Bytes) /\ Len(q) = 0
    BY <1>1, Prefix DEF Text
  <1> HIDE DEF p, q
  <1>4. p = s
    BY <1>2 DEF Text
  <1>5. q = <<>>
    BY <1>3
  <1> QED BY <1>4, <1>5 DEF p, q

\* Two texts of which each byte is the same, or goes from both.
LEMMA WithoutSame ==
  ASSUME NEW s, Text(s), NEW t, Text(t), Len(t) = Len(s), NEW drop,
         \A i \in 1 .. Len(s) : s[i] = t[i] \/ (s[i] \in drop /\ t[i] \in drop)
  PROVE  T!Without(s, drop) = T!Without(t, drop)
  <1> DEFINE Same(n) == T!Without(SubSeq(s, 1, n), drop) = T!Without(SubSeq(t, 1, n), drop)
             Good == {n \in 0 .. Len(s) : Same(n)}
  <1>1. Len(s) \in Nat
    BY TextAt
  <1>2. ASSUME NEW n \in 0 .. Len(s), \A m \in 0 .. n - 1 : m \in Good
        PROVE  n \in Good
    <2>1. CASE n = 0
      <3>1. SubSeq(s, 1, 0) = <<>> /\ SubSeq(t, 1, 0) = <<>>
        BY AllOf
      <3> QED BY <2>1, <3>1
    <2>2. CASE n # 0
      <3>1. n - 1 \in 0 .. n - 1 /\ n \in 1 .. Len(s) /\ n \in 1 .. Len(t)
        BY <1>1, <2>2
      <3>2. Same(n - 1)
        BY <1>2, <3>1
      <3>3. T!Without(SubSeq(s, 1, n), drop) =
              IF s[n] \in drop THEN T!Without(SubSeq(s, 1, n - 1), drop)
                               ELSE Append(T!Without(SubSeq(s, 1, n - 1), drop), s[n])
        BY <3>1, WithoutLast
      <3>4. T!Without(SubSeq(t, 1, n), drop) =
              IF t[n] \in drop THEN T!Without(SubSeq(t, 1, n - 1), drop)
                               ELSE Append(T!Without(SubSeq(t, 1, n - 1), drop), t[n])
        BY <3>1, WithoutLast
      <3>5. s[n] = t[n] \/ (s[n] \in drop /\ t[n] \in drop)
        BY <3>1
      <3> QED BY <3>2, <3>3, <3>4, <3>5
    <2> QED BY <2>1, <2>2
  <1>3. \A n \in 0 .. Len(s) : n \in Good
    <2> HIDE DEF Good
    <2> QED BY <1>1, <1>2, UpInduction
  <1>4. Same(Len(s))
    <2>1. Len(s) \in 0 .. Len(s)
      BY <1>1
    <2> QED BY <1>3, <2>1
  <1>5. SubSeq(s, 1, Len(s)) = s /\ SubSeq(t, 1, Len(s)) = t
    <2>1. SubSeq(t, 1, Len(t)) = t
      BY AllOf
    <2> QED BY <2>1, AllOf
  <1> QED BY <1>4, <1>5

\* What goes first may go with the rest.
LEMMA WithoutTwice ==
  ASSUME NEW s, Text(s), NEW some, NEW drop, some \subseteq drop
  PROVE  T!Without(T!Without(s, some), drop) = T!Without(s, drop)
  <1> DEFINE Twice(n) == T!Without(T!Without(SubSeq(s, 1, n), some), drop) =
                           T!Without(SubSeq(s, 1, n), drop)
             Good == {n \in 0 .. Len(s) : Twice(n)}
  <1>1. Len(s) \in Nat /\ \A n \in 1 .. Len(s) : s[n] \in T!Bytes
    BY TextAt
  <1>2. ASSUME NEW n \in 0 .. Len(s), \A m \in 0 .. n - 1 : m \in Good
        PROVE  n \in Good
    <2>1. CASE n = 0
      <3>1. SubSeq(s, 1, 0) = <<>>
        BY AllOf
      <3>2. T!Without(<<>>, some) = <<>> /\ T!Without(<<>>, drop) = <<>>
        BY WithoutEmpty
      <3> QED BY <2>1, <3>1, <3>2
    <2>2. CASE n # 0
      <3>1. n - 1 \in 0 .. n - 1 /\ n \in 1 .. Len(s) /\ n - 1 \in 0 .. Len(s)
        BY <1>1, <2>2
      <3>2. Twice(n - 1)
        BY <1>2, <3>1
      <3> DEFINE p == SubSeq(s, 1, n - 1)
                 k == T!Without(p, some)
      <3>3. T!Without(SubSeq(s, 1, n), drop) =
              IF s[n] \in drop THEN T!Without(p, drop) ELSE Append(T!Without(p, drop), s[n])
        BY <3>1, WithoutLast
      <3>4. T!Without(SubSeq(s, 1, n), some) = IF s[n] \in some THEN k ELSE Append(k, s[n])
        BY <3>1, WithoutLast
      <3>5. p \in Seq(T!Bytes)
        BY <3>1, Prefix DEF Text
      <3>6. k \in Seq(T!Bytes)
        <4>1. k \in Seq(T!Bytes \ some)
          BY <3>5, WithoutType
        <4> QED BY <4>1
      <3>7. T!Without(Append(k, s[n]), drop) =
              IF s[n] \in drop THEN T!Without(k, drop) ELSE Append(T!Without(k, drop), s[n])
        <4>1. PICK b \in T!Bytes : b = s[n]
          BY <1>1, <3>1
        <4>2. PICK q \in Seq(T!Bytes) : q = k
          BY <3>6
        <4>3. T!Without(Append(q, b), drop) =
                IF b \in drop THEN T!Without(q, drop) ELSE Append(T!Without(q, drop), b)
          BY ONLY WithoutAppend
        <4> QED BY <4>1, <4>2, <4>3
      <3>8. T!Without(k, drop) = T!Without(p, drop)
        BY <3>2
      <3> HIDE DEF p, k
      <3> QED BY <3>3, <3>4, <3>7, <3>8
    <2> QED BY <2>1, <2>2
  <1>3. \A n \in 0 .. Len(s) : n \in Good
    <2> HIDE DEF Good
    <2> QED BY <1>1, <1>2, UpInduction
  <1>4. Twice(Len(s))
    <2>1. Len(s) \in 0 .. Len(s)
      BY <1>1
    <2> QED BY <1>3, <2>1
  <1> QED BY <1>4, AllOf

LEMMA LastApartFrom ==
  ASSUME NEW s, Text(s), NEW a \in 1 .. Len(s), NEW n \in a .. Len(s)
  PROVE  /\ SubSeq(s, a, n - 1) \in Seq(T!Bytes)
         /\ SubSeq(s, a, n) = Append(SubSeq(s, a, n - 1), s[n])
  <1>1. /\ Len(s) \in Nat /\ a \in Nat /\ n \in Nat /\ n - 1 \in Nat /\ a > 0 /\ a <= n + 1
        /\ n <= Len(s) /\ a <= (n - 1) + 1 /\ n - 1 <= Len(s) /\ n \in 1 .. Len(s)
    BY TextAt
  <1>2. s[n] \in T!Bytes
    BY <1>1, TextAt
  <1> DEFINE p == SubSeq(s, a, n)
             q == SubSeq(s, a, n - 1)
             r == Append(q, s[n])
  <1>3. p \in Seq(T!Bytes) /\ Len(p) = (n - a) + 1 /\ \A i \in 1 .. (n - a) + 1 : p[i] = s[i + (a - 1)]
    BY <1>1, Slice DEF Text
  <1>4. q \in Seq(T!Bytes) /\ Len(q) = ((n - 1) - a) + 1
        /\ \A i \in 1 .. ((n - 1) - a) + 1 : q[i] = s[i + (a - 1)]
    BY <1>1, Slice DEF Text
  <1>5. ((n - 1) - a) + 1 = n - a /\ n - a \in Nat /\ ((n - a) + 1) + (a - 1) = n
    BY <1>1
  <1> HIDE DEF p, q
  <1>6. r \in Seq(T!Bytes) /\ Len(r) = (n - a) + 1 /\ r[(n - a) + 1] = s[n]
        /\ \A i \in 1 .. n - a : r[i] = q[i]
    <2>1. Len(q) = n - a
      BY <1>4, <1>5
    <2>2. PICK x \in T!Bytes : x = s[n]
      BY <1>2
    <2>3. PICK u \in Seq(T!Bytes) : u = q
      BY <1>4
    <2>4. /\ Append(u, x) \in Seq(T!Bytes) /\ Len(Append(u, x)) = Len(u) + 1
          /\ Append(u, x)[Len(u) + 1] = x
          /\ \A i \in 1 .. Len(u) : Append(u, x)[i] = u[i]
      BY ONLY AppendProperties
    <2> QED BY <2>1, <2>2, <2>3, <2>4
  <1>7. \A i \in 1 .. (n - a) + 1 : i = (n - a) + 1 \/ i \in 1 .. n - a
    BY <1>5
  <1> HIDE DEF r
  <1>8. (n - a) + 1 \in 1 .. (n - a) + 1
    BY <1>5
  <1>9. p[(n - a) + 1] = s[n]
    BY <1>3, <1>5, <1>8
  <1>10. \A i \in 1 .. (n - a) + 1 : p[i] = r[i]
    <2> SUFFICES ASSUME NEW i \in 1 .. (n - a) + 1 PROVE p[i] = r[i]
      OBVIOUS
    <2>1. CASE i = (n - a) + 1
      BY <1>6, <1>9, <2>1
    <2>2. CASE i \in 1 .. n - a
      BY <1>3, <1>4, <1>5, <1>6, <2>2
    <2> QED BY <1>7, <2>1, <2>2
  <1>11. p = r
    BY <1>3, <1>6, <1>10
  <1> QED BY <1>4, <1>11 DEF p, q, r

\* Ends of which each byte goes anyway may be cut off.
LEMMA WithoutCut ==
  ASSUME NEW s, Text(s), NEW drop, NEW a \in 1 .. Len(s) + 1, NEW b \in a - 1 .. Len(s),
         \A k \in 1 .. a - 1 : s[k] \in drop, \A k \in b + 1 .. Len(s) : s[k] \in drop
  PROVE  T!Without(SubSeq(s, a, b), drop) = T!Without(s, drop)
  <1> DEFINE P(n) == T!Without(SubSeq(s, 1, n), drop)
             A(n) == T!Without(SubSeq(s, a, n), drop)
             Good == {n \in 0 .. Len(s) : /\ n <= a - 1 => P(n) = <<>>
                                          /\ n >= a - 1 => A(n) = P(n)
                                          /\ n >= b => P(n) = P(b)}
  <1>1. Len(s) \in Nat /\ a \in Nat /\ a - 1 \in Nat /\ b \in Nat
    BY TextAt
  <1>2. P(0) = <<>>
    BY AllOf, WithoutEmpty
  <1>3. ASSUME NEW n \in 0 .. Len(s), n # 0
        PROVE  P(n) = IF s[n] \in drop THEN P(n - 1) ELSE Append(P(n - 1), s[n])
    <2>1. n \in 1 .. Len(s)
      BY <1>1, <1>3
    <2> QED BY <2>1, WithoutLast
  <1>4. A(a - 1) = <<>>
    <2>1. /\ Text(SubSeq(s, a, a - 1)) /\ Len(SubSeq(s, a, a - 1)) = ((a - 1) - a) + 1
      <3>1. a > 0 /\ a <= (a - 1) + 1 /\ a - 1 <= Len(s)
        BY <1>1
      <3> QED BY ONLY Text(s), <1>1, <3>1, Slice
    <2>2. ((a - 1) - a) + 1 = 0
      BY <1>1
    <2>3. SubSeq(s, a, a - 1) = <<>>
      BY <2>1, <2>2 DEF Text
    <2> QED BY <2>3, WithoutEmpty
  <1>5. ASSUME NEW n \in a .. Len(s)
        PROVE  A(n) = IF s[n] \in drop THEN A(n - 1) ELSE Append(A(n - 1), s[n])
    <2>1. a \in 1 .. Len(s) /\ n \in 1 .. Len(s)
      BY <1>1
    <2>2. PICK q \in Seq(T!Bytes), x \in T!Bytes :
            q = SubSeq(s, a, n - 1) /\ x = s[n] /\ SubSeq(s, a, n) = Append(q, x)
      BY <2>1, LastApartFrom, TextAt
    <2>3. T!Without(Append(q, x), drop) =
            IF x \in drop THEN T!Without(q, drop) ELSE Append(T!Without(q, drop), x)
      BY ONLY WithoutAppend
    <2> QED BY <2>2, <2>3
  <1> HIDE DEF P, A
  <1>6. ASSUME NEW n \in 0 .. Len(s), \A m \in 0 .. n - 1 : m \in Good
        PROVE  n \in Good
    <2>1. n \in Nat /\ (n # 0 => n - 1 \in 0 .. n - 1)
      OBVIOUS
    <2>2. n # 0 => n - 1 \in Good
      BY <1>6, <2>1
    <2>3. ASSUME n <= a - 1 PROVE P(n) = <<>>
      <3>1. CASE n = 0
        BY <1>2, <3>1
      <3>2. CASE n # 0
        <4>1. n \in 1 .. a - 1 /\ n - 1 <= a - 1
          BY <1>1, <2>1, <2>3, <3>2
        <4> QED BY <1>3, <2>2, <3>2, <4>1
      <3> QED BY <3>1, <3>2
    <2>4. ASSUME n >= a - 1 PROVE A(n) = P(n)
      <3>1. CASE n = a - 1
        <4>1. n <= a - 1
          BY <1>1, <3>1
        <4> QED BY <1>4, <2>3, <3>1, <4>1
      <3>2. CASE n # a - 1
        <4>1. n \in a .. Len(s) /\ n - 1 >= a - 1 /\ n # 0
          BY <1>1, <2>1, <2>4, <3>2
        <4>2. A(n - 1) = P(n - 1)
          BY <2>2, <4>1
        <4> QED BY <1>3, <1>5, <4>1, <4>2
      <3> QED BY <3>1, <3>2
    <2>5. ASSUME n >= b PROVE P(n) = P(b)
      <3>1. CASE n # b
        <4>1. n \in b + 1 .. Len(s) /\ n - 1 >= b /\ n # 0
          BY <1>1, <2>1, <2>5, <3>1
        <4>2. P(n - 1) = P(b)
          BY <2>2, <4>1
        <4> QED BY <1>3, <4>1, <4>2
      <3> QED BY <3>1
    <2> QED BY <2>3, <2>4, <2>5
  <1>7. \A n \in 0 .. Len(s) : n \in Good
    <2> HIDE DEF Good
    <2> QED BY <1>1, <1>6, UpInduction
  <1>8. A(b) = P(b)
    <2>1. b \in 0 .. Len(s) /\ b >= a - 1
      BY <1>1
    <2> QED BY <1>7, <2>1
  <1>9. P(Len(s)) = P(b)
    <2>1. Len(s) \in 0 .. Len(s) /\ Len(s) >= b
      BY <1>1
    <2> QED BY <1>7, <2>1
  <1> QED BY <1>8, <1>9, AllOf DEF A, P

\* What boost::trim() keeps of a text: from a byte to a byte.
Kept(s, a, b) ==
  /\ a \in 1 .. Len(s) + 1 /\ b \in a - 1 .. Len(s)
  /\ T!TrimSpaces(s) = SubSeq(s, a, b)
  /\ \A k \in (1 .. a - 1) \cup (b + 1 .. Len(s)) : s[k] = "space"
  /\ a <= b => s[a] # "space" /\ s[b] # "space"

LEMMA TrimSpacesIs ==
  ASSUME NEW s, Text(s)
  PROVE  \E a, b : Kept(s, a, b)
  <1> DEFINE other == {i \in DOMAIN s : s[i] # "space"}
  <1>1. Len(s) \in Nat /\ DOMAIN s = 1 .. Len(s)
    BY TextAt
  <1>2. CASE other = {}
    <2>1. T!TrimSpaces(s) = <<>>
      BY <1>2 DEF T!TrimSpaces
    <2>2. \A k \in 1 .. Len(s) : s[k] = "space"
      BY <1>1, <1>2
    <2>3. PICK h : h = SubSeq(s, Len(s) + 1, Len(s))
      OBVIOUS
    <2>4. Text(h) /\ Len(h) = 0
      <3>1. Len(s) \in 0 .. Len(s) /\ Len(s) - Len(s) = 0
        BY <1>1
      <3>2. Text(h) /\ Len(h) = Len(s) - Len(s)
        BY ONLY Text(s), <2>3, <3>1, Suffix
      <3> QED BY <3>1, <3>2
    <2>5. h = <<>>
      BY <2>4 DEF Text
    <2> DEFINE a == Len(s) + 1
               b == Len(s)
    <2>6. a \in 1 .. Len(s) + 1 /\ b \in a - 1 .. Len(s) /\ a - 1 = Len(s) /\ ~ (a <= b)
          /\ b + 1 .. Len(s) = {}
      BY <1>1
    <2>7. Kept(s, a, b)
      BY <2>1, <2>2, <2>3, <2>5, <2>6 DEF Kept
    <2> QED BY <2>7
  <1>3. CASE other # {}
    <2>1. other \subseteq Nat /\ other \subseteq 0 .. Len(s) /\ other \subseteq Int
      BY <1>1
    <2>2. \A k : k \in other <=> k \in 1 .. Len(s) /\ s[k] # "space"
      BY <1>1
    <2>3. T!TrimSpaces(s) = SubSeq(s, T!Min(other), T!Max(other))
      BY <1>3 DEF T!TrimSpaces
    <2> HIDE DEF other
    <2>4. PICK a \in other : \A m \in other : a <= m
      BY <1>3, <2>1, Least
    <2>5. PICK b \in other : \A m \in other : b >= m
      BY <1>1, <1>3, <2>1, Greatest
    <2>6. T!Min(other) = a /\ T!Max(other) = b
      BY <2>1, <2>4, <2>5, MinIs, MaxIs
    <2>7. a \in 1 .. Len(s) /\ b \in 1 .. Len(s) /\ a <= b /\ s[a] # "space" /\ s[b] # "space"
      BY <2>2, <2>4
    <2>8. ASSUME NEW k \in (1 .. a - 1) \cup (b + 1 .. Len(s)) PROVE s[k] = "space"
      <3>1. k \in 1 .. Len(s) /\ (k < a \/ k > b)
        BY <1>1, <2>7
      <3>2. k \in other => a <= k /\ k <= b
        BY <2>4, <2>5
      <3>3. k \notin other
        BY <1>1, <2>7, <3>1, <3>2
      <3> QED BY <2>2, <3>1, <3>3
    <2>9. a \in 1 .. Len(s) + 1 /\ b \in a - 1 .. Len(s)
      BY <1>1, <2>7
    <2> QED BY <2>3, <2>6, <2>7, <2>8, <2>9 DEF Kept
  <1> QED BY <1>2, <1>3

-----------------------------------------------------------------------------

LegalBytes == T!Bytes \ {"slash", "control"}
Dropped == {"space", "slash", "control", "dot"}
Letters(s) == T!Without(s, Dropped)

LEMMA CleanedIs ==
  ASSUME NEW s, Text(s)
  PROVE  /\ T!Cleaned(s) \in Seq(LegalBytes) /\ Text(T!Cleaned(s))
         /\ Len(T!Cleaned(s)) <= Len(s)
         /\ Letters(T!Cleaned(s)) = Letters(s)
  <1> DEFINE t == [i \in DOMAIN s |-> IF s[i] = "slash" THEN "space" ELSE s[i]]
             c == T!Cleaned(s)
  <1>1. /\ Len(s) \in Nat /\ DOMAIN s = 1 .. Len(s)
        /\ \A i \in 1 .. Len(s) : s[i] \in T!Bytes
    BY TextAt
  <1>2. c = T!Without(t, {"control"})
    BY DEF T!Cleaned
  <1>3. \A i \in 1 .. Len(s) : t[i] = IF s[i] = "slash" THEN "space" ELSE s[i]
    BY <1>1
  <1>4. t \in [1 .. Len(s) -> T!Bytes \ {"slash"}]
    <2>1. \A i \in 1 .. Len(s) : t[i] \in T!Bytes \ {"slash"}
      BY <1>1, <1>3 DEF T!Bytes
    <2> QED BY <1>1, <2>1
  <1> HIDE DEF t, c
  <1>5. t \in Seq(T!Bytes \ {"slash"}) /\ Len(t) = Len(s)
    BY <1>1, <1>4
  <1>6. Text(t)
    <2>1. t \in Seq(T!Bytes)
      BY <1>5
    <2> QED BY <2>1 DEF Text
  <1>7. c \in Seq((T!Bytes \ {"slash"}) \ {"control"}) /\ Len(c) <= Len(t)
    BY <1>2, <1>5, WithoutType
  <1>8. (T!Bytes \ {"slash"}) \ {"control"} = LegalBytes
    BY DEF LegalBytes
  <1>9. c \in Seq(T!Bytes)
    BY <1>7
  <1>10. Letters(c) = Letters(t)
    <2>1. {"control"} \subseteq Dropped
      BY DEF Dropped
    <2> QED BY <1>2, <1>6, <2>1, WithoutTwice DEF Letters
  <1>11. Letters(t) = Letters(s)
    <2>1. \A i \in 1 .. Len(s) : s[i] = t[i] \/ (s[i] \in Dropped /\ t[i] \in Dropped)
      BY <1>3 DEF Dropped
    <2> QED BY <1>5, <1>6, <2>1, WithoutSame DEF Letters
  <1> QED BY <1>5, <1>7, <1>8, <1>9, <1>10, <1>11 DEF Text, c

\* A part of a text is of the same bytes.
LEMMA PartType ==
  ASSUME NEW U, NEW s \in Seq(U), NEW a \in 1 .. Len(s) + 1, NEW b \in a - 1 .. Len(s)
  PROVE  /\ SubSeq(s, a, b) \in Seq(U) /\ Len(SubSeq(s, a, b)) = (b - a) + 1
         /\ \A i \in 1 .. (b - a) + 1 : SubSeq(s, a, b)[i] = s[i + (a - 1)]
  <1>1. Len(s) \in Nat /\ \A i \in 1 .. Len(s) : s[i] \in U
    BY LenProperties, ElementOfSeq
  <1>2. a \in Nat /\ b \in Nat /\ \A i \in a .. b : i \in 1 .. Len(s)
    BY <1>1
  <1>3. \A i \in a .. b : s[i] \in U
    BY <1>1, <1>2
  <1>4. /\ SubSeq(s, a, b) \in Seq(U)
        /\ Len(SubSeq(s, a, b)) = IF a <= b THEN b - a + 1 ELSE 0
        /\ \A i \in 1 .. b - a + 1 : SubSeq(s, a, b)[i] = s[a + i - 1]
    BY <1>2, <1>3, SubSeqProperties
  <1>5. Len(SubSeq(s, a, b)) = (b - a) + 1
    BY <1>2, <1>4
  <1>6. ASSUME NEW i \in 1 .. (b - a) + 1 PROVE SubSeq(s, a, b)[i] = s[i + (a - 1)]
    <2>1. a + i - 1 = i + (a - 1) /\ i \in 1 .. b - a + 1
      BY <1>2
    <2> QED BY <1>4, <2>1
  <1> QED BY <1>4, <1>5, <1>6

\* What NameIsLegal says of a name, and what of it became.
LegalName(name, r) ==
  /\ \A i \in DOMAIN r : r[i] \notin {"slash", "control"}
  /\ r # <<>> => r[1] # "space" /\ ~ T!EndsWith(r, "space")
  /\ Letters(r) = Letters(name)
  /\ T!EndsWith(r, "dot") =>
       \E i \in 1 .. Len(T!Cleaned(name)) - 1 :
         /\ T!Cleaned(name)[i] = "dot"
         /\ T!Cleaned(name)[Len(T!Cleaned(name))] \in {"dot", "space"}
         /\ \A k \in i + 1 .. Len(T!Cleaned(name)) - 1 : T!Cleaned(name)[k] = "space"

\* The cleaned name without its last dot.
Undotted(c) == IF T!EndsWith(c, "dot") THEN T!EraseTail(c, 1) ELSE c

LEMMA UndottedIs ==
  ASSUME NEW c, Text(c), NEW U, c \in Seq(U)
  PROVE  /\ Text(Undotted(c)) /\ Undotted(c) \in Seq(U) /\ Len(Undotted(c)) <= Len(c)
         /\ Letters(Undotted(c)) = Letters(c)
         /\ \A i \in 1 .. Len(Undotted(c)) : Undotted(c)[i] = c[i]
         /\ IF T!EndsWith(c, "dot") THEN Len(Undotted(c)) = Len(c) - 1 ELSE Undotted(c) = c
  <1>1. Len(c) \in Nat
    BY TextAt
  <1>2. CASE ~ T!EndsWith(c, "dot")
    BY <1>1, <1>2 DEF Undotted
  <1>3. CASE T!EndsWith(c, "dot")
    <2>1. c # <<>> /\ c[Len(c)] = "dot"
      BY <1>3 DEF T!EndsWith
    <2>2. Len(c) # 0
      BY <2>1 DEF Text
    <2>3. Len(c) \in 1 .. Len(c) /\ Len(c) - 1 \in 0 .. Len(c)
      BY <1>1, <2>2
    <2> DEFINE d == SubSeq(c, 1, Len(c) - 1)
    <2>4. Undotted(c) = d
      BY <1>3 DEF Undotted, T!EraseTail
    <2>5. Text(d) /\ Len(d) = Len(c) - 1 /\ \A i \in 1 .. Len(c) - 1 : d[i] = c[i]
      BY <2>3, Prefix
    <2>6. d \in Seq(U)
      <3>1. 1 \in 1 .. Len(c) + 1 /\ Len(c) - 1 \in 1 - 1 .. Len(c)
        BY <1>1, <2>2
      <3> QED BY <3>1, PartType
    <2>7. Letters(d) = Letters(c)
      <3>1. T!Without(SubSeq(c, 1, Len(c)), Dropped) =
              IF c[Len(c)] \in Dropped THEN T!Without(d, Dropped)
                                       ELSE Append(T!Without(d, Dropped), c[Len(c)])
        BY <2>3, WithoutLast
      <3>2. SubSeq(c, 1, Len(c)) = c
        BY AllOf
      <3>3. c[Len(c)] \in Dropped
        BY <2>1 DEF Dropped
      <3> HIDE DEF d
      <3> QED BY <3>1, <3>2, <3>3 DEF Letters
    <2>8. Len(c) - 1 <= Len(c)
      BY <1>1
    <2> HIDE DEF d
    <2> QED BY <1>3, <2>4, <2>5, <2>6, <2>7, <2>8
  <1> QED BY <1>2, <1>3

LEMMA LegalIs ==
  ASSUME NEW s, Text(s)
  PROVE  /\ Text(T!Legal(s)) /\ Len(T!Legal(s)) <= Len(s)
         /\ LegalName(s, T!Legal(s))
  <1> DEFINE c == T!Cleaned(s)
             d == Undotted(c)
             r == T!Legal(s)
  <1>1. /\ c \in Seq(LegalBytes) /\ Text(c) /\ Len(c) <= Len(s) /\ Letters(c) = Letters(s)
        /\ Len(s) \in Nat /\ Len(c) \in Nat
    BY CleanedIs, TextAt
  <1>2. r = T!TrimSpaces(d)
    BY DEF T!Legal, Undotted
  <1> HIDE DEF c, r
  <1>3. /\ Text(d) /\ d \in Seq(LegalBytes) /\ Len(d) <= Len(c) /\ Letters(d) = Letters(c)
        /\ \A i \in 1 .. Len(d) : d[i] = c[i]
        /\ IF T!EndsWith(c, "dot") THEN Len(d) = Len(c) - 1 ELSE d = c
    BY <1>1, UndottedIs
  <1> HIDE DEF d
  <1>4. PICK a, b : Kept(d, a, b)
    BY <1>3, TrimSpacesIs
  <1>5. Len(d) \in Nat
    BY <1>3, TextAt
  <1>6. /\ a \in 1 .. Len(d) + 1 /\ b \in a - 1 .. Len(d) /\ r = SubSeq(d, a, b)
        /\ \A k \in (1 .. a - 1) \cup (b + 1 .. Len(d)) : d[k] = "space"
        /\ a <= b => d[a] # "space" /\ d[b] # "space"
    BY <1>2, <1>4 DEF Kept
  <1>7. a \in Nat /\ b \in Nat /\ a - 1 \in Nat
    BY <1>5, <1>6
  <1>8. /\ r \in Seq(LegalBytes) /\ Len(r) = (b - a) + 1
        /\ \A i \in 1 .. (b - a) + 1 : r[i] = d[i + (a - 1)]
    BY <1>3, <1>6, PartType
  <1>9. Text(r)
    <2>1. r \in Seq(T!Bytes)
      BY <1>8 DEF LegalBytes
    <2> QED BY <2>1 DEF Text
  <1>10. Len(r) <= Len(s)
    BY <1>1, <1>3, <1>5, <1>6, <1>7, <1>8
  <1>11. \A i \in DOMAIN r : r[i] \notin {"slash", "control"}
    BY <1>8 DEF LegalBytes
  <1>12. ASSUME r # <<>>
         PROVE  a <= b /\ r[1] = d[a] /\ Len(r) # 0 /\ r[Len(r)] = d[b]
    <2>1. Len(r) # 0
      BY <1>8, <1>12
    <2>2. a <= b
      BY <1>6, <1>7, <1>8, <2>1
    <2>3. 1 \in 1 .. (b - a) + 1 /\ 1 + (a - 1) = a
      BY <1>7, <2>2
    <2>4. (b - a) + 1 \in 1 .. (b - a) + 1 /\ ((b - a) + 1) + (a - 1) = b
      BY <1>7, <2>2
    <2> QED BY <1>8, <2>1, <2>2, <2>3, <2>4
  <1>13. r # <<>> => r[1] # "space" /\ ~ T!EndsWith(r, "space")
    BY <1>6, <1>12 DEF T!EndsWith
  <1>14. Letters(r) = Letters(s)
    <2>1. /\ \A k \in 1 .. a - 1 : d[k] \in Dropped
          /\ \A k \in b + 1 .. Len(d) : d[k] \in Dropped
      BY <1>6 DEF Dropped
    <2>2. Letters(r) = Letters(d)
      BY <1>3, <1>6, <2>1, WithoutCut DEF Letters
    <2> QED BY <1>1, <1>3, <2>2
  <1>15. ASSUME T!EndsWith(r, "dot")
         PROVE  \E i \in 1 .. Len(c) - 1 : /\ c[i] = "dot" /\ c[Len(c)] \in {"dot", "space"}
                                           /\ \A k \in i + 1 .. Len(c) - 1 : c[k] = "space"
    <2>1. r # <<>> /\ r[Len(r)] = "dot"
      BY <1>15 DEF T!EndsWith
    <2>2. a <= b /\ d[b] = "dot"
      BY <1>12, <2>1
    <2>3. b \in 1 .. Len(d) /\ c[b] = "dot"
      <3>1. b \in 1 .. Len(d)
        BY <1>5, <1>6, <1>7, <2>2
      <3> QED BY <1>3, <2>2, <3>1
    <2>4. \A k \in b + 1 .. Len(d) : c[k] = "space"
      <3>1. \A k \in b + 1 .. Len(d) : k \in 1 .. Len(d)
        BY <1>5, <1>7
      <3> QED BY <1>3, <1>6, <3>1
    <2>5. CASE T!EndsWith(c, "dot")
      <3>1. Len(d) = Len(c) - 1 /\ c[Len(c)] = "dot"
        BY <1>3, <2>5 DEF T!EndsWith
      <3> QED BY <2>3, <2>4, <3>1
    <2>6. CASE ~ T!EndsWith(c, "dot")
      <3>1. d = c
        BY <1>3, <2>6
      <3>2. c # <<>> /\ b # Len(c)
        <4>1. c # <<>>
          BY <2>3, <3>1
        <4> QED BY <2>3, <2>6, <4>1 DEF T!EndsWith
      <3>3. /\ b \in 1 .. Len(c) - 1 /\ Len(c) \in b + 1 .. Len(c)
            /\ \A k \in b + 1 .. Len(c) - 1 : k \in b + 1 .. Len(c)
        BY <1>1, <2>3, <3>1, <3>2
      <3>4. c[Len(c)] = "space" /\ \A k \in b + 1 .. Len(c) - 1 : c[k] = "space"
        BY <2>4, <3>1, <3>3
      <3> QED BY <2>3, <3>3, <3>4
    <2> QED BY <2>5, <2>6
  <1>16. LegalName(s, r)
    BY <1>11, <1>13, <1>14, <1>15 DEF LegalName, c
  <1> QED BY <1>9, <1>10, <1>16 DEF r

-----------------------------------------------------------------------------

Short(s) == Text(s) /\ Len(s) <= MaxLength
OneEnd == {"trim_left", "trim_left_copy"}
OtherEnd == {"trim_right", "trim_right_copy"}
BothEnds == {"trim", "trim_copy"}
LeftGoes(s) == T!trim_left_erase_num(s) # T!Thrown
RightGoes(s) == T!trim_right_erase_num(s) # T!Thrown

TextTyped ==
  /\ Short(string) /\ Short(given) /\ Short(returned)
  /\ op \in T!Ops \cup {"none"}
  /\ outcome \in {"returned", "threw", "half"}
  /\ op = "none" => outcome = "returned"

(* Between its ends, trim() has the text without its left end.                  *)
HalfTrimmed ==
  outcome = "half" =>
    /\ op \in BothEnds /\ LeftGoes(given) /\ returned = LeftOf(given)
    /\ string = IF op = "trim" THEN returned ELSE given

(* What a call has returned is made of what it was given.                       *)
Trimmed ==
  outcome = "returned" =>
    /\ op \in OneEnd => LeftGoes(given) /\ returned = LeftOf(given)
    /\ op \in OtherEnd => RightGoes(given) /\ returned = RightOf(given)
    /\ op \in BothEnds => /\ LeftGoes(given) /\ RightGoes(LeftOf(given))
                          /\ returned = RightOf(LeftOf(given))

(* A call that threw has left the string, but for the left end.                 *)
Undone ==
  outcome = "threw" =>
    /\ op \in OneEnd => ~ LeftGoes(given)
    /\ op \in OtherEnd => ~ RightGoes(given)
    /\ op \in BothEnds => ~ (LeftGoes(given) /\ RightGoes(LeftOf(given)))
    /\ string = IF op = "trim" /\ LeftGoes(given) THEN LeftOf(given) ELSE given

NameDone ==
  op = "make_file_name_legal" => outcome = "returned" /\ returned = T!Legal(given)

TextInv == TextTyped /\ HalfTrimmed /\ Trimmed /\ Undone /\ NameDone

LEMMA TextsType ==
  ASSUME NEW c
  PROVE  c \in T!Texts <=> Short(c)
  <1>1. ASSUME Short(c) PROVE c \in T!Texts
    <2>1. c \in Seq(T!Bytes) /\ Len(c) <= MaxLength
      BY <1>1 DEF Short, Text
    <2>2. Len(c) \in 0 .. MaxLength /\ c \in [1 .. Len(c) -> T!Bytes]
      BY <2>1, HelpersAssumption
    <2> QED BY <2>2 DEF T!Texts
  <1>2. ASSUME c \in T!Texts PROVE Short(c)
    <2>1. PICK n \in 0 .. MaxLength : c \in [1 .. n -> T!Bytes]
      BY <1>2 DEF T!Texts
    <2>2. n \in Nat /\ n <= MaxLength
      BY HelpersAssumption
    <2>3. c \in Seq(T!Bytes) /\ Len(c) <= MaxLength
      BY <2>1, <2>2
    <2> QED BY <2>3 DEF Short, Text
  <1> QED BY <1>1, <1>2

LEMMA EmptyShort == Short(<<>>)
  <1>1. <<>> \in Seq(T!Bytes) /\ Len(<<>>) = 0
    OBVIOUS
  <1> QED BY <1>1, HelpersAssumption DEF Short, Text

LEMMA LeftShort ==
  ASSUME NEW s, Short(s), LeftGoes(s)
  PROVE  Short(LeftOf(s))
  <1>1. PICK m \in 0 .. Len(s) : Text(LeftOf(s)) /\ Len(LeftOf(s)) = Len(s) - m
    BY LeftOfIs DEF Short, LeftGoes
  <1>2. Len(s) \in Nat
    BY TextAt DEF Short
  <1> QED BY <1>1, <1>2, HelpersAssumption DEF Short

LEMMA RightShort ==
  ASSUME NEW s, Short(s), RightGoes(s)
  PROVE  Short(RightOf(s))
  <1>1. PICK e \in 0 .. Len(s) : Text(RightOf(s)) /\ Len(RightOf(s)) = e
    BY RightOfIs DEF Short, RightGoes
  <1>2. Len(s) \in Nat
    BY TextAt DEF Short
  <1> QED BY <1>1, <1>2, HelpersAssumption DEF Short

LEMMA LegalShort ==
  ASSUME NEW s, Short(s)
  PROVE  Short(T!Legal(s))
  <1>1. Text(T!Legal(s)) /\ Len(T!Legal(s)) <= Len(s)
    BY LegalIs DEF Short
  <1>2. Len(s) \in Nat /\ Len(T!Legal(s)) \in Nat
    BY <1>1, TextAt DEF Short
  <1> QED BY <1>1, <1>2, HelpersAssumption DEF Short

LEMMA TextInit == T!Init => TextInv
  <1> SUFFICES ASSUME T!Init PROVE TextInv
    OBVIOUS
  <1>1. /\ string = <<>> /\ given = <<>> /\ returned = <<>>
        /\ op = "none" /\ outcome = "returned"
    BY DEF T!Init
  <1> QED BY <1>1, EmptyShort DEF TextInv, TextTyped, HalfTrimmed, Trimmed, Undone, NameDone,
            OneEnd, OtherEnd, BothEnds

LEMMA TextStep == TextInv /\ [T!Next]_(T!vars) => TextInv'
  <1> SUFFICES ASSUME TextInv, [T!Next]_(T!vars) PROVE TextInv'
    OBVIOUS
  <1>1. /\ Short(string) /\ Short(given) /\ Short(returned)
        /\ op \in T!Ops \cup {"none"} /\ (op = "none" => outcome = "returned")
    BY DEF TextInv, TextTyped
  <1>2. ASSUME NEW s \in T!Texts, T!Assign(s) PROVE TextInv'
    <2>1. /\ op = "none" /\ string' = s
          /\ UNCHANGED <<given, op, outcome, returned>>
      BY <1>2 DEF T!Assign
    <2>2. Short(s)
      BY TextsType
    <2>3. op' = "none" /\ outcome' = "returned"
      BY <1>1, <2>1
    <2> QED BY <1>1, <2>1, <2>2, <2>3 DEF TextInv, TextTyped, HalfTrimmed, Trimmed, Undone,
              NameDone, OneEnd, OtherEnd, BothEnds
  <1>3. ASSUME NEW name \in T!Ops, T!LeftThrows(name) PROVE TextInv'
    <2>1. /\ name \in OneEnd \cup BothEnds /\ ~ LeftGoes(string)
          /\ op' = name /\ outcome' = "threw" /\ given' = string /\ returned' = <<>>
          /\ string' = string
      BY <1>3 DEF T!LeftThrows, OneEnd, BothEnds, LeftGoes
    <2>2. TextTyped'
      BY <1>1, <2>1, EmptyShort DEF TextTyped, OneEnd, BothEnds
    <2>3. op' \notin OtherEnd /\ op' # "make_file_name_legal"
      BY <2>1 DEF OneEnd, OtherEnd, BothEnds
    <2> QED BY <2>1, <2>2, <2>3 DEF TextInv, HalfTrimmed, Trimmed, Undone, NameDone
  <1>4. ASSUME NEW name \in T!Ops, T!Left(name) PROVE TextInv'
    <2>1. /\ name \in OneEnd \cup BothEnds /\ LeftGoes(string)
          /\ returned' = LeftOf(string)
          /\ string' = IF name \in {"trim_left", "trim"} THEN returned' ELSE string
          /\ op' = name /\ given' = string
          /\ outcome' = IF name \in {"trim", "trim_copy"} THEN "half" ELSE "returned"
      BY <1>4 DEF T!Left, OneEnd, BothEnds, LeftGoes, LeftOf
    <2>2. Short(LeftOf(string))
      BY <1>1, <2>1, LeftShort
    <2>3. TextTyped'
      BY <1>1, <2>1, <2>2 DEF TextTyped, OneEnd, BothEnds
    <2>4. op' \notin OtherEnd /\ op' # "make_file_name_legal" /\ outcome' # "threw"
          /\ (outcome' = "half" <=> op' \in BothEnds)
      BY <2>1 DEF OneEnd, OtherEnd, BothEnds
    <2>5. HalfTrimmed'
      BY <2>1, <2>4 DEF HalfTrimmed, BothEnds
    <2>6. Trimmed'
      BY <2>1, <2>4 DEF Trimmed
    <2> QED BY <2>3, <2>4, <2>5, <2>6 DEF TextInv, Undone, NameDone
  <1>5. ASSUME NEW name \in T!Ops, T!Right(name) PROVE TextInv'
    <2>1. /\ name \in OtherEnd /\ op' = name /\ given' = string
          /\ outcome' = IF RightGoes(string) THEN "returned" ELSE "threw"
          /\ returned' = IF RightGoes(string) THEN RightOf(string) ELSE <<>>
          /\ string' = IF name = "trim_right" /\ RightGoes(string) THEN returned' ELSE string
      BY <1>5 DEF T!Right, OtherEnd, RightGoes, RightOf
    <2>2. Short(returned') /\ Short(string')
      BY <1>1, <2>1, RightShort, EmptyShort
    <2>3. TextTyped'
      BY <1>1, <2>1, <2>2 DEF TextTyped, OtherEnd
    <2>4. op' \notin OneEnd \cup BothEnds /\ op' # "make_file_name_legal" /\ op' # "trim"
          /\ outcome' # "half"
      BY <2>1 DEF OneEnd, OtherEnd, BothEnds
    <2>5. Trimmed'
      BY <2>1, <2>4 DEF Trimmed
    <2>6. Undone'
      BY <2>1, <2>4 DEF Undone
    <2> QED BY <2>3, <2>4, <2>5, <2>6 DEF TextInv, HalfTrimmed, NameDone
  <1>6. ASSUME NEW name \in T!Ops, T!CodePoint(name) PROVE TextInv'
    <2>1. /\ name \in {"first_code_point", "last_code_point"} /\ op' = name /\ given' = string
          /\ outcome' \in {"returned", "threw"} /\ string' = string /\ string # <<>>
      BY <1>6 DEF T!CodePoint
    <2>2. Short(returned')
      <3> DEFINE i == IF name = "last_code_point" THEN T!PriorAt(string)
                      ELSE IF T!NextSize(string, 1) = 0 THEN 0 ELSE 1
      <3>1. returned' = IF i = 0 THEN <<>> ELSE <<string[i]>>
        BY <1>6 DEF T!CodePoint
      <3>2. Text(string) /\ Len(string) \in Nat /\ Len(string) # 0
        <4>1. Text(string)
          BY <1>1 DEF Short
        <4> QED BY <2>1, <4>1, TextAt DEF Text
      <3>3. i = 0 \/ i \in 1 .. Len(string)
        BY <3>2, PriorAtIs
      <3> HIDE DEF i
      <3>4. CASE i = 0
        BY <3>1, <3>4, EmptyShort
      <3>5. CASE i \in 1 .. Len(string)
        <4>1. PICK x \in T!Bytes : x = string[i]
          BY <3>2, <3>5, TextAt
        <4>2. returned' = <<x>> \/ returned' = <<>>
          BY <3>1, <4>1
        <4>3. <<x>> \in Seq(T!Bytes) /\ Len(<<x>>) = 1
          OBVIOUS
        <4>4. 1 <= MaxLength
          BY <1>1, <3>2, HelpersAssumption DEF Short
        <4> QED BY <4>2, <4>3, <4>4, EmptyShort DEF Short, Text
      <3> QED BY <3>3, <3>4, <3>5
    <2>3. TextTyped'
      BY <1>1, <2>1, <2>2 DEF TextTyped
    <2>4. op' \notin OneEnd \cup OtherEnd \cup BothEnds /\ op' # "make_file_name_legal"
          /\ op' # "trim"
      BY <2>1 DEF OneEnd, OtherEnd, BothEnds
    <2> QED BY <2>1, <2>3, <2>4 DEF TextInv, HalfTrimmed, Trimmed, Undone, NameDone
  <1>7. CASE T!RightOfBoth
    <2>1. /\ op \in BothEnds /\ LeftGoes(given) /\ returned = LeftOf(given)
          /\ string = IF op = "trim" THEN returned ELSE given
      BY <1>7 DEF TextInv, HalfTrimmed, T!RightOfBoth
    <2>2. /\ outcome' = IF RightGoes(returned) THEN "returned" ELSE "threw"
          /\ returned' = IF RightGoes(returned) THEN RightOf(returned) ELSE returned
          /\ string' = IF op = "trim" THEN returned' ELSE string
          /\ UNCHANGED <<given, op>>
      BY <1>7 DEF T!RightOfBoth, RightGoes, RightOf
    <2>3. Short(returned') /\ Short(string')
      BY <1>1, <2>2, RightShort
    <2>4. TextTyped'
      BY <1>1, <2>1, <2>2, <2>3 DEF TextTyped, BothEnds
    <2>5. op' \notin OneEnd \cup OtherEnd /\ op' # "make_file_name_legal" /\ outcome' # "half"
      BY <2>1, <2>2 DEF OneEnd, OtherEnd, BothEnds
    <2>6. Trimmed'
      BY <2>1, <2>2, <2>5 DEF Trimmed
    <2>7. Undone'
      BY <2>1, <2>2, <2>5 DEF Undone
    <2> QED BY <2>4, <2>5, <2>6, <2>7 DEF TextInv, HalfTrimmed, NameDone
  <1>8. CASE T!make_file_name_legal
    <2>1. /\ op' = "make_file_name_legal" /\ given' = string /\ outcome' = "returned"
          /\ returned' = T!Legal(string) /\ string' = string
      BY <1>8 DEF T!make_file_name_legal
    <2>2. Short(returned')
      BY <1>1, <2>1, LegalShort
    <2>3. TextTyped'
      BY <1>1, <2>1, <2>2 DEF TextTyped, T!Ops
    <2>4. op' \notin OneEnd \cup OtherEnd \cup BothEnds
      BY <2>1 DEF OneEnd, OtherEnd, BothEnds
    <2> QED BY <2>1, <2>3, <2>4 DEF TextInv, HalfTrimmed, Trimmed, Undone, NameDone
  <1>9. CASE UNCHANGED T!vars
    BY <1>9 DEF T!vars, TextInv, TextTyped, HalfTrimmed, Trimmed, Undone, NameDone
  <1> QED BY <1>2, <1>3, <1>4, <1>5, <1>6, <1>7, <1>8, <1>9 DEF T!Next

\* The inductive invariant of Text: what a call returned is what its ends leave of
\* what it was given, and after a throw the string is as it was, less the left end.
THEOREM TextInvariant == T!Spec => []TextInv
  <1> QED BY TextInit, TextStep, PTL DEF T!Spec

LEMMA TextTypes == TextInv => T!TypeOK
BY TextsType DEF TextInv, TextTyped, T!TypeOK

LEMMA CallOutcome ==
  ASSUME TextInv, op \in OneEnd \cup OtherEnd \cup BothEnds, outcome # "half"
  PROVE  /\ Text(given)
         /\ outcome \in {"returned", "threw"}
         /\ T!Lefts = OneEnd \cup BothEnds /\ T!Rights = OtherEnd \cup BothEnds
  <1> QED BY DEF TextInv, TextTyped, Short, T!Lefts, T!Rights, OneEnd, OtherEnd, BothEnds

LEMMA LostIs == TextInv => T!NothingElseLost
  <1> SUFFICES ASSUME TextInv PROVE T!NothingElseLost
    OBVIOUS
  <1> DEFINE Only(i, j) == /\ returned = SubSeq(given, i + 1, j)
                           /\ \A k \in (1 .. i) \cup (j + 1 .. Len(given)) :
                                given[k] \in {"space", "white", "trail"}
  <1>1. Text(given) /\ Len(given) \in Nat
    <2>1. Text(given)
      BY DEF TextInv, TextTyped, Short
    <2> QED BY <2>1, TextAt
  <1>2. ASSUME T!Called(T!Lefts \cup T!Rights), outcome = "returned"
        PROVE  \E i, j \in 0 .. Len(given) : Only(i, j)
    <2>1. op \in OneEnd \/ op \in OtherEnd \/ op \in BothEnds
      BY <1>2 DEF T!Called, T!Lefts, T!Rights, OneEnd, OtherEnd, BothEnds
    <2>2. CASE op \in OneEnd
      <3>1. LeftGoes(given) /\ returned = LeftOf(given)
        BY <1>2, <2>2 DEF TextInv, Trimmed
      <3>2. PICK m \in 0 .. Len(given) : /\ LeftEnd(given, 1, m)
                                         /\ LeftOf(given) = SubSeq(given, m + 1, Len(given))
        BY <1>1, <3>1, LeftOfIs DEF LeftGoes
      <3>3. \A k \in 1 .. m : given[k] \in Blank
        BY <3>2 DEF LeftEnd
      <3>4. Len(given) \in 0 .. Len(given) /\ Len(given) + 1 .. Len(given) = {}
        BY <1>1
      <3>5. Only(m, Len(given))
        BY <3>1, <3>2, <3>3, <3>4 DEF Blank
      <3> HIDE DEF Only
      <3> QED BY <3>4, <3>5
    <2>3. CASE op \in OtherEnd
      <3>1. RightGoes(given) /\ returned = RightOf(given)
        BY <1>2, <2>3 DEF TextInv, Trimmed
      <3>2. PICK e \in 0 .. Len(given) : /\ RightEnd(given, Len(given), e)
                                         /\ RightOf(given) = SubSeq(given, 1, e)
        BY <1>1, <3>1, RightOfIs DEF RightGoes
      <3>3. \A k \in e + 1 .. Len(given) : given[k] \in Blank
        BY <3>2 DEF RightEnd
      <3>4. 0 \in 0 .. Len(given) /\ 1 .. 0 = {} /\ 0 + 1 = 1
        BY <1>1
      <3>5. Only(0, e)
        BY <3>1, <3>2, <3>3, <3>4 DEF Blank
      <3> HIDE DEF Only
      <3> QED BY <3>4, <3>5
    <2>4. CASE op \in BothEnds
      <3> DEFINE h == LeftOf(given)
      <3>1. LeftGoes(given) /\ RightGoes(h) /\ returned = RightOf(h)
        BY <1>2, <2>4 DEF TextInv, Trimmed
      <3>2. PICK m \in 0 .. Len(given) :
              /\ LeftEnd(given, 1, m) /\ h = SubSeq(given, m + 1, Len(given))
              /\ Text(h) /\ Len(h) = Len(given) - m
              /\ \A i \in 1 .. Len(given) - m : h[i] = given[i + m]
        BY <1>1, <3>1, LeftOfIs DEF LeftGoes
      <3> HIDE DEF h
      <3>3. PICK e \in 0 .. Len(h) : RightEnd(h, Len(h), e) /\ RightOf(h) = SubSeq(h, 1, e)
        BY <3>1, <3>2, RightOfIs DEF RightGoes
      <3>4. e \in 0 .. Len(given) - m /\ m + e \in 0 .. Len(given) /\ m \in Nat /\ e \in Nat
        BY <1>1, <3>2
      <3>5. returned = SubSeq(given, m + 1, m + e)
        BY <1>1, <3>1, <3>2, <3>3, <3>4, BothCut
      <3>6. \A k \in 1 .. m : given[k] \in Blank
        BY <3>2 DEF LeftEnd
      <3>7. ASSUME NEW k \in (m + e) + 1 .. Len(given) PROVE given[k] \in Blank
        <4>1. k - m \in e + 1 .. Len(h) /\ k - m \in 1 .. Len(given) - m /\ (k - m) + m = k
          BY <1>1, <3>2, <3>4
        <4> QED BY <3>2, <3>3, <4>1 DEF RightEnd
      <3>8. PICK j \in 0 .. Len(given) : j = m + e
        BY <3>4
      <3>9. Only(m, j)
        BY <3>5, <3>6, <3>7, <3>8 DEF Blank
      <3> HIDE DEF Only
      <3> QED BY <3>9
    <2> QED BY <2>1, <2>2, <2>3, <2>4
  <1>3. ASSUME T!Called(T!Ops), outcome = "threw"
        PROVE  string = IF op = "trim" /\ T!trim_left_erase_num(given) # T!Thrown
                          THEN T!EraseHead(given, T!trim_left_erase_num(given)) ELSE given
    BY <1>3 DEF TextInv, Undone, LeftGoes, LeftOf
  <1> QED BY <1>2, <1>3 DEF T!NothingElseLost

LEMMA StableIs == TextInv => T!TrimIsStable
  <1> SUFFICES ASSUME TextInv, T!Called({"trim", "trim_copy"}), outcome = "returned"
               PROVE  /\ T!trim_left_erase_num(returned) = 0
                      /\ T!trim_right_erase_num(returned) = 0
    BY DEF T!TrimIsStable
  <1>1. op \in BothEnds
    BY DEF T!Called, BothEnds
  <1>2. Text(given) /\ LeftGoes(given) /\ RightGoes(LeftOf(given))
        /\ returned = RightOf(LeftOf(given))
    BY <1>1 DEF TextInv, TextTyped, Short, Trimmed
  <1> QED BY <1>2, BothStable DEF LeftGoes, RightGoes

LEMMA ExactIs == TextInv => T!TrimExact
  <1> SUFFICES ASSUME TextInv, T!Called(T!Lefts \cup T!Rights), T!Valid(given)
               PROVE  /\ outcome = "returned"
                      /\ returned = SubSeq(given,
                           IF op \notin T!Lefts THEN 1 ELSE FirstBlack(given),
                           IF op \notin T!Rights THEN Len(given) ELSE LastBlack(given))
    BY DEF T!TrimExact, FirstBlack, LastBlack, Blacks, Blank
  <1>1. op \in OneEnd \/ op \in OtherEnd \/ op \in BothEnds
    BY DEF T!Called, T!Lefts, T!Rights, OneEnd, OtherEnd, BothEnds
  <1>2. /\ op \in T!Lefts <=> op \in OneEnd \cup BothEnds
        /\ op \in T!Rights <=> op \in OtherEnd \cup BothEnds
        /\ OneEnd \cap BothEnds = {} /\ OneEnd \cap OtherEnd = {} /\ OtherEnd \cap BothEnds = {}
    BY DEF T!Lefts, T!Rights, OneEnd, OtherEnd, BothEnds
  <1>3. outcome \in {"returned", "threw"} /\ Text(given)
    BY DEF T!Called, TextInv, TextTyped, Short
  <1>4. LeftGoes(given) /\ RightGoes(given) /\ Len(given) \in Nat
    BY <1>3, ValidLeft, ValidRight, TextAt DEF LeftGoes, RightGoes
  <1>5. PICK m \in 0 .. Len(given) :
          /\ LeftEnd(given, 1, m) /\ LeftOf(given) = SubSeq(given, m + 1, Len(given))
          /\ Text(LeftOf(given)) /\ Len(LeftOf(given)) = Len(given) - m
          /\ \A i \in 1 .. Len(given) - m : LeftOf(given)[i] = given[i + m]
    BY <1>3, <1>4, LeftOfIs DEF LeftGoes
  <1>6. FirstBlack(given) = m + 1
    BY <1>3, <1>5, LeftExact
  <1>7. CASE op \in OneEnd
    <2>1. outcome = "returned" /\ returned = LeftOf(given)
      BY <1>3, <1>4, <1>7 DEF TextInv, Trimmed, Undone
    <2> QED BY <1>2, <1>5, <1>6, <1>7, <2>1
  <1>8. CASE op \in OtherEnd
    <2>1. outcome = "returned" /\ returned = RightOf(given)
      BY <1>3, <1>4, <1>8 DEF TextInv, Trimmed, Undone
    <2>2. PICK e \in 0 .. Len(given) :
            RightEnd(given, Len(given), e) /\ RightOf(given) = SubSeq(given, 1, e)
      BY <1>3, <1>4, RightOfIs DEF RightGoes
    <2>3. LastBlack(given) = e
      BY <1>3, <2>2, RightExact
    <2> QED BY <1>2, <1>8, <2>1, <2>2, <2>3
  <1>9. CASE op \in BothEnds
    <2> DEFINE h == LeftOf(given)
    <2>1. /\ Text(h) /\ Len(h) = Len(given) - m /\ h = SubSeq(given, m + 1, Len(given))
          /\ \A i \in 1 .. Len(given) - m : h[i] = given[i + m]
      BY <1>5
    <2> HIDE DEF h
    <2>2. RightGoes(h)
      <3>1. T!Valid(h)
        BY <1>3, <1>5, <2>1, LeftValid
      <3> QED BY <2>1, <3>1, ValidRight DEF RightGoes
    <2>3. outcome = "returned" /\ returned = RightOf(h)
      BY <1>3, <1>4, <1>9, <2>2 DEF TextInv, Trimmed, Undone, h
    <2>4. PICK e \in 0 .. Len(h) : RightEnd(h, Len(h), e) /\ RightOf(h) = SubSeq(h, 1, e)
                                   /\ Text(RightOf(h)) /\ Len(RightOf(h)) = e
      BY <2>1, <2>2, RightOfIs DEF RightGoes
    <2>5. e \in 0 .. Len(given) - m /\ m \in Nat /\ e \in Nat
      BY <1>4, <2>1
    <2>6. returned = SubSeq(given, m + 1, m + e)
      BY <1>3, <2>1, <2>3, <2>4, <2>5, BothCut
    <2>7. IF e = 0 THEN m = Len(given)
                   ELSE m + e \in 0 .. Len(given) /\ RightEnd(given, Len(given), m + e)
      <3>1. /\ Text(given) /\ LeftEnd(given, 1, m) /\ RightEnd(h, Len(h), e)
            /\ \A i \in 1 .. Len(given) - m : h[i] = given[i + m]
        BY <1>3, <1>5, <2>1, <2>4
      <3>2. m \in 0 .. Len(given) /\ e \in 0 .. Len(h)
        OBVIOUS
      <3> QED BY ONLY <2>1, <3>1, <3>2, BothEnd
    <2>8. CASE e # 0
      <3>1. LastBlack(given) = m + e
        BY <1>3, <2>7, <2>8, RightExact
      <3> QED BY <1>2, <1>6, <1>9, <2>3, <2>6, <3>1
    <2>9. CASE e = 0
      <3>1. Blacks(given) = {}
        <4>1. \A k \in 1 .. Len(given) : given[k] \in Blank
          BY <1>5, <2>7, <2>9 DEF LeftEnd
        <4>2. DOMAIN given = 1 .. Len(given)
          BY <1>3, TextAt
        <4> QED BY <4>1, <4>2 DEF Blacks
      <3>2. LastBlack(given) = 0
        BY <3>1 DEF LastBlack
      <3>3. returned = <<>>
        <4>1. RightOf(h) \in Seq(T!Bytes) /\ Len(RightOf(h)) = 0
          BY <2>4, <2>9 DEF Text
        <4> QED BY <2>3, <4>1
      <3>4. SubSeq(given, m + 1, 0) = <<>>
        <4>1. m + 1 \in Int /\ 0 \in Int /\ 0 < m + 1
          BY <2>5
        <4> QED BY ONLY <4>1, SubSeqEmpty
      <3> QED BY <1>2, <1>6, <1>9, <2>3, <3>2, <3>3, <3>4
    <2> QED BY <2>8, <2>9
  <1> QED BY <1>1, <1>7, <1>8, <1>9

LEMMA NameIs == TextInv => T!NameIsLegal
  <1> SUFFICES ASSUME TextInv, op = "make_file_name_legal" PROVE LegalName(given, returned)
    BY DEF T!NameIsLegal, LegalName, Letters, Dropped
  <1>1. Text(given) /\ returned = T!Legal(given)
    BY DEF TextInv, TextTyped, Short, NameDone
  <1> QED BY <1>1, LegalIs

-----------------------------------------------------------------------------
(* The helpers side by side *)

\* Every variable of every helper keeps its type, whatever the helpers do and
\* wherever one throws: so no text, no file and no read gets longer than the bounds.
THEOREM HelpersTyped == HelpersSpec => []TypeOK
  <1>1. TextInv => T!TypeOK
    BY TextTypes
  <1>2. FolderInv => O!TypeOK
    BY DEF FolderInv
  <1>3. TidyInv => H!TypeOK
    BY DEF TidyInv
  <1>4. FileInv => F!TypeOK
    BY FileTypeOK
  <1>5. HashInv => S!TypeOK
    BY DEF HashInv
  <1>6. T!TypeOK /\ O!TypeOK /\ H!TypeOK /\ F!TypeOK /\ S!TypeOK => TypeOK
    BY DEF TypeOK
  <1> QED BY <1>1, <1>2, <1>3, <1>4, <1>5, <1>6, SideBySide, TextInvariant, FolderInvariant,
            TidyInvariant, FileInvariant, HashInvariant, PTL

\* Of a valid text of any length, a trim function of src/unicode.cpp takes exactly
\* the white space at the ends asked for, and does not throw.
THEOREM TrimIsExact == HelpersSpec => []TrimExact
  <1>1. TextInv => TrimExact
    BY ExactIs DEF TrimExact
  <1> QED BY <1>1, SideBySide, TextInvariant, PTL

\* Of any bytes whatever, a trim function takes nothing but white space and stray
\* trail bytes, and one that throws has changed nothing but trim()'s left end.
THEOREM TrimLosesNothingElse == HelpersSpec => []NothingElseLost
  <1>1. TextInv => NothingElseLost
    BY LostIs DEF NothingElseLost
  <1> QED BY <1>1, SideBySide, TextInvariant, PTL

\* What trim() leaves, of any bytes whatever, needs no second trim() and makes none
\* throw.
THEOREM TrimStays == HelpersSpec => []TrimIsStable
  <1>1. TextInv => TrimIsStable
    BY StableIs DEF TrimIsStable
  <1> QED BY <1>1, SideBySide, TextInvariant, PTL

\* Of a name of any length, make_file_name_legal() leaves every letter, nothing
\* illegal, no outer space, and a final dot only where two ended the name.
THEOREM NamesAreLegal == HelpersSpec => []NameIsLegal
  <1>1. TextInv => NameIsLegal
    BY NameIs DEF NameIsLegal
  <1> QED BY <1>1, SideBySide, TextInvariant, PTL

\* outermost_folder_name() finds the one folder that holds everything in an archive,
\* for any names and any number of entries, in whatever order they are read.
THEOREM OutermostFound == HelpersSpec => []OutermostExact
  <1>1. FolderInv => OutermostExact
    BY DEF FolderInv, OutermostExact
  <1> QED BY <1>1, SideBySide, FolderInvariant, PTL

\* html_tidy() never returns after a save that failed, returns a document with
\* errors only if they are to be ignored, and any other if no call failed.
THEOREM TidyReturns == HelpersSpec => []TidyReturnsDocument
  <1>1. TidyInv => TidyReturnsDocument
    BY DEF TidyInv, TidyReturnsDocument
  <1> QED BY <1>1, SideBySide, TidyInvariant, PTL

\* A read_file() that no write overlaps returns the file, for any number of threads
\* and any sizes, and so what a write that was alone and complete has put there.
THEOREM ReadsWritten == HelpersSpec => ReadsWhatWasWritten
  <1>1. F!ReadsWhatWasWritten => ReadsWhatWasWritten
    BY DEF ReadsWhatWasWritten
  <1> QED BY <1>1, SideBySide, ReadIsWritten, PTL

\* A fast_hash() that no other overlaps hashes its own data, beside the other
\* helpers too.
THEOREM HashesOwnData == HelpersSpec => []HashOfOwnData
  <1>1. S!HashOfOwnData => HashOfOwnData
    BY DEF HashOfOwnData
  <1> QED BY <1>1, SideBySide, OwnDataHashed, PTL
=============================================================================
