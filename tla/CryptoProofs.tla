---------------------------- MODULE CryptoProofs ----------------------------
(***************************************************************************)
(* The invariants of Crypto for every set of sizes and every size of chunk. *)
(* IInv is inductive: the cipher has given out or holds back every byte it  *)
(* has taken, and what it holds back depends only on how many those are, so *)
(* the bounds do not depend on where the chunks end.                        *)
(***************************************************************************)
EXTENDS Crypto, TLAPS

\* What the cipher keeps of n bytes does not depend on how they were handed
\* over: keeping part of what was kept and of the next chunk is the same.
LEMMA KeptAgain ==
  ASSUME NEW taken \in Nat, NEW more \in Nat \ {0}
  PROVE  Kept(Kept(taken) + more) = Kept(taken + more)
  BY SMTT(60) DEF Kept

LEMMA KeptType ==
  ASSUME NEW n \in Nat
  PROVE  /\ Kept(n) \in 0 .. 16
         /\ Kept(n) <= n
         /\ Written(n) \in Nat
         /\ Written(n) <= n
  BY SMTT(60) DEF Kept, Written

\* The room is never less than the input; encrypting CBC it is the padded size.
LEMMA RoomEnough ==
  ASSUME NEW m \in Modes, NEW enc \in BOOLEAN, NEW n \in Nat
  PROVE  /\ Room(m, enc, n) \in Nat
         /\ Room(m, enc, n) >= n
         /\ m = "CBC" /\ enc => Room(m, enc, n) = n + (16 - (n % 16))
  <1>1. CASE m = "CBC"
    BY <1>1, SMTT(30) DEF Room, BlockSize
  <1>2. CASE m = "GCM"
    BY <1>2, SMTT(30) DEF Room, BlockSize
  <1> QED BY <1>1, <1>2 DEF Modes

\* Nothing is held back at the start; at the end of a client's ciphertext it
\* is the block with the padding.
LEMMA KeptAtEnds ==
  ASSUME TypeOK
  PROVE  /\ Kept(0) = 0
         /\ mode = "CBC" /\ ~ encrypt => Kept(Ciphertext("CBC", plain)) = 16
         /\ mode = "GCM" => \A n \in Nat : Kept(n) = 0
         /\ mode = "CBC" /\ encrypt => \A n \in Nat : Kept(n) = n % 16
  BY SMTT(30) DEF Kept, Ciphertext, TypeOK, Modes

\* The calls start the cipher with nothing taken and nothing given out.
LEMMA BeginKeeps ==
  ASSUME NEW m \in Modes, NEW enc \in BOOLEAN, NEW from \in {"client", "foreign"},
         NEW n \in Nat, NEW p \in Nat,
         Begin(m, enc, from, n, p),
         enc => from = "client",
         from = "client" => n = IF enc THEN p ELSE Ciphertext(m, p)
  PROVE  IInv'
  <1>1. Room(m, enc, n) \in Nat /\ Room(m, enc, n) >= 0
    BY RoomEnough
  <1>2. TypeOK'
    BY <1>1 DEF Begin, TypeOK
  <1>3. WritesFit' /\ RoundTrip'
    BY <1>1 DEF Begin, WritesFit, RoundTrip
  <1>4. BytesTraced'
    BY DEF Begin, BytesTraced, Consumed, Kept, Ciphertext
  <1> QED BY <1>2, <1>3, <1>4 DEF IInv

LEMMA InvInit == Init => IInv
  <1> SUFFICES ASSUME Init PROVE IInv
    OBVIOUS
  <1>1. TypeOK
    BY DEF Init, TypeOK, Modes
  <1>2. WritesFit /\ RoundTrip
    BY DEF Init, WritesFit, RoundTrip
  <1>3. BytesTraced
    BY DEF Init, BytesTraced
  <1> QED BY <1>1, <1>2, <1>3 DEF IInv

\* A chunk: what it adds to the output and to what is held back is what it
\* takes from the input, and no write goes past what has been taken.
LEMMA FeedKeeps ==
  ASSUME IInv, FeedChunk
  PROVE  IInv'
  <1> DEFINE n == Todo
  <1>1. n \in Nat \ {0} /\ n <= left /\ left' = left - n
    BY CryptoAssumption DEF FeedChunk, Todo, IInv, TypeOK
  <1>2. Consumed \in Nat /\ Consumed' = Consumed + n /\ Consumed' \in Nat /\ Consumed' <= size
    BY <1>1 DEF FeedChunk, input, IInv, TypeOK, Consumed
  <1>3. /\ total + held = Consumed /\ held = Kept(Consumed) /\ reach <= Consumed
        /\ held \in Nat /\ total \in Nat /\ reach \in Nat
    BY DEF FeedChunk, IInv, BytesTraced, TypeOK
  <1>4. Kept(held + n) = Kept(Consumed + n)
    BY <1>1, <1>2, <1>3, KeptAgain
  <1>5. /\ Kept(held + n) \in 0 .. 16 /\ Kept(held + n) <= held + n
        /\ Written(held + n) \in Nat /\ Written(held + n) <= held + n
    <2>1. held + n \in Nat
      BY <1>1, <1>3
    <2> QED BY <2>1, KeptType
  <1>6. /\ held' = Kept(held + n)
        /\ total' = total + (held + n - held')
        /\ reach' = Furthest(total + Written(held + n))
    BY DEF FeedChunk, Update
  <1>7. total' \in Nat /\ held' \in 0 .. 16 /\ total' + held' = Consumed'
    BY <1>1, <1>2, <1>3, <1>5, <1>6
  <1>8. reach' \in Nat /\ reach' <= Consumed'
    BY <1>1, <1>2, <1>3, <1>5, <1>6 DEF Furthest
  <1>9. held' = Kept(Consumed')
    BY <1>2, <1>4, <1>6
  <1>10. UNCHANGED <<pc, mode, encrypt, origin, size, plain, room>> /\ pc = "update"
    BY DEF FeedChunk, input
  <1>11. room = Room(mode, encrypt, size) /\ room >= size
    BY <1>10, RoomEnough DEF IInv, BytesTraced, TypeOK
  <1>12. TypeOK'
    BY <1>1, <1>7, <1>8, <1>10 DEF IInv, TypeOK
  <1>13. WritesFit'
    BY <1>2, <1>8, <1>10, <1>11 DEF IInv, TypeOK, WritesFit
  <1>14. RoundTrip'
    BY <1>10 DEF RoundTrip
  <1>15. BytesTraced'
    <2>2. Kept(Consumed)' = Kept(Consumed')
      BY <1>10 DEF Kept
    <2>3. Room(mode, encrypt, size)' = Room(mode, encrypt, size)
      BY <1>10 DEF Room, BlockSize
    <2>4. (/\ encrypt => origin = "client"
           /\ origin = "client" => size = IF encrypt THEN plain ELSE Ciphertext(mode, plain))'
      BY <1>10 DEF IInv, BytesTraced, Ciphertext
    <2> QED BY <1>7, <1>8, <1>9, <1>10, <1>11, <2>2, <2>3, <2>4 DEF BytesTraced
  <1> QED BY <1>12, <1>13, <1>14, <1>15 DEF IInv

\* At the end of a message of the client the cipher holds the block with its
\* padding, so that taking the padding off cannot fail.
LEMMA EndKeeps ==
  ASSUME IInv, EndLoop
  PROVE  IInv'
  <1>1. /\ pc = "update" /\ left = 0 /\ pc' = "final"
        /\ UNCHANGED <<mode, encrypt, origin, size, plain, left, room, total, held, reach>>
    BY DEF EndLoop, input, progress
  <1>2. TypeOK' /\ WritesFit' /\ BytesTraced'
    BY <1>1 DEF IInv, TypeOK, WritesFit, BytesTraced, Kept, Consumed, Room, BlockSize, Ciphertext
  <1>3. held = Kept(size)
    BY <1>1 DEF IInv, BytesTraced, Consumed, TypeOK
  <1>4. ASSUME origin = "client", mode = "CBC", ~ encrypt PROVE held = 16
    BY <1>3, <1>4, KeptAtEnds DEF IInv, BytesTraced
  <1>5. origin = "client" => ~ MayFail
    BY <1>4 DEF MayFail
  <1>6. RoundTrip'
    BY <1>1, <1>5 DEF RoundTrip, MayFail
  <1> QED BY <1>2, <1>6 DEF IInv

LEMMA FinishKeeps ==
  ASSUME IInv, Finish
  PROVE  IInv'
  <1>1. PICK length \in FinalLengths :
          total' = total + length /\ reach' = Furthest(total + length)
    BY DEF Finish
  <1>2. /\ pc = "final" /\ pc' = "done" /\ held' = 0 /\ left = 0
        /\ UNCHANGED <<mode, encrypt, origin, size, plain, left, room>>
    BY DEF Finish, input, IInv, BytesTraced
  <1>3. /\ total + held = size /\ held = Kept(size) /\ reach <= size
        /\ room = Room(mode, encrypt, size)
        /\ total \in Nat /\ held \in Nat /\ reach \in Nat /\ size \in Nat /\ plain \in Nat
        /\ mode \in Modes /\ encrypt \in BOOLEAN
    BY <1>2 DEF IInv, BytesTraced, Consumed, TypeOK
  <1>4. room \in Nat /\ room >= size /\ (mode = "CBC" /\ encrypt => room = size + (16 - (size % 16)))
    BY <1>3, RoomEnough
  <1> DEFINE Right == /\ total' \in Nat /\ total' <= room
                      /\ origin = "client" =>
                           total' = IF encrypt THEN Ciphertext(mode, plain) ELSE plain
  <1>5. ASSUME mode = "GCM" PROVE Right
    <2>1. length = 0 /\ held = 0
      BY <1>1, <1>3, <1>5, KeptAtEnds DEF FinalLengths, IInv
    <2>2. total' = size
      BY <1>1, <1>3, <2>1
    <2>3. origin = "client" => size = plain
      BY <1>5 DEF IInv, BytesTraced, Ciphertext
    <2> QED BY <1>3, <1>4, <1>5, <2>2, <2>3 DEF Ciphertext
  <1>6. ASSUME mode = "CBC", encrypt PROVE Right
    <2>1. length = 16 /\ held = size % 16
      BY <1>1, <1>3, <1>6, KeptAtEnds DEF FinalLengths, IInv
    <2>2. total' = size + (16 - (size % 16))
      BY <1>1, <1>3, <2>1
    <2>3. origin = "client" => size = plain
      BY <1>6 DEF IInv, BytesTraced
    <2>4. total' \in Nat /\ total' <= room
      <3>1. total' = room
        BY <1>4, <1>6, <2>2
      <3> QED BY <1>4, <3>1
    <2> QED BY <1>6, <2>2, <2>3, <2>4 DEF Ciphertext
  <1>7. ASSUME mode = "CBC", ~ encrypt PROVE Right
    <2>1. held = 16 /\ length \in 0 .. 15
          /\ (origin = "client" => length = 16 - Padding)
      BY <1>1, <1>3, <1>7 DEF FinalLengths, Padding
    <2>2. total' = size - 16 + length /\ total' \in Nat /\ total' <= size
      BY <1>1, <1>3, <2>1
    <2>3. origin = "client" => size = plain + (16 - (plain % 16))
      BY <1>7 DEF IInv, BytesTraced, Ciphertext
    <2>4. origin = "client" => total' = plain
      BY <1>3, <2>1, <2>2, <2>3 DEF Padding
    <2> QED BY <1>3, <1>4, <1>7, <2>2, <2>4
  <1>8. Right
    BY <1>3, <1>5, <1>6, <1>7 DEF Modes
  <1>9. reach' \in Nat /\ reach' <= room
    BY <1>1, <1>3, <1>4, <1>8 DEF Furthest
  <1>10. TypeOK'
    BY <1>2, <1>8, <1>9 DEF IInv, TypeOK
  <1>11. WritesFit'
    BY <1>2, <1>9 DEF WritesFit
  <1>12. RoundTrip'
    BY <1>2, <1>8 DEF RoundTrip, Ciphertext
  <1>13. BytesTraced'
    BY <1>2, <1>3 DEF IInv, BytesTraced, Room, BlockSize, Ciphertext
  <1> QED BY <1>10, <1>11, <1>12, <1>13 DEF IInv

\* The calls that end without the cipher, and the one the cipher refuses.
LEMMA ThrowKeeps ==
  ASSUME IInv, Refuse \/ FinishFails
  PROVE  IInv'
  <1>1. pc' = "throw" /\ UNCHANGED <<input, progress>>
    BY DEF Refuse, FinishFails
  <1>2. TypeOK' /\ WritesFit' /\ RoundTrip'
    BY <1>1 DEF input, progress, IInv, TypeOK, WritesFit, RoundTrip
  <1>3. BytesTraced'
    BY <1>1 DEF input, progress, IInv, BytesTraced, Ciphertext
  <1> QED BY <1>2, <1>3 DEF IInv

LEMMA InvStep == IInv /\ [Next]_vars => IInv'
  <1> SUFFICES ASSUME IInv, [Next]_vars PROVE IInv'
    OBVIOUS
  <1>1. ASSUME NEW m \in Modes, NEW n \in Sizes, Encrypt(m, n) PROVE IInv'
    <2>1. n \in Nat /\ Begin(m, TRUE, "client", n, n)
      BY <1>1, CryptoAssumption DEF Encrypt
    <2> QED BY <2>1, BeginKeeps
  <1>2. ASSUME NEW m \in Modes, NEW n \in Sizes, DecryptForeign(m, n) PROVE IInv'
    <2>1. n \in Nat /\ Begin(m, FALSE, "foreign", n, 0)
      BY <1>2, CryptoAssumption DEF DecryptForeign
    <2> QED BY <2>1, BeginKeeps
  <1>3. ASSUME Decrypt PROVE IInv'
    <2>1. total \in Nat /\ plain \in Nat /\ mode \in Modes
      BY DEF IInv, TypeOK
    <2>2. MessageSize(mode, total) - IvSize(mode) - TagSize(mode) = total
      BY <2>1 DEF MessageSize, IvSize, TagSize
    <2>3. Begin(mode, FALSE, "client", total, plain)
      BY <1>3, <2>2 DEF Decrypt
    <2>4. origin = "client" => total = Ciphertext(mode, plain)
      BY <1>3 DEF Decrypt, IInv, RoundTrip, Ciphertext
    <2>5. origin = "client"
      BY <1>3, Zenon DEF Decrypt, IInv, BytesTraced
    <2> QED BY <2>1, <2>3, <2>4, <2>5, BeginKeeps
  <1>4. CASE UNCHANGED vars
    <2>1. TypeOK' /\ WritesFit' /\ RoundTrip'
      BY <1>4 DEF vars, input, progress, IInv, TypeOK, WritesFit, RoundTrip, MayFail
    <2>2. BytesTraced'
      BY <1>4 DEF vars, input, progress, IInv, BytesTraced, Consumed, Kept, Room,
                  BlockSize, Ciphertext
    <2> QED BY <2>1, <2>2 DEF IInv
  <1> QED BY <1>1, <1>2, <1>3, <1>4, FeedKeeps, EndKeeps, FinishKeeps, ThrowKeeps DEF Next

\* The inductive invariant of Crypto holds in every state of every call.
THEOREM Invariant == Spec => []IInv
  <1> QED BY InvInit, InvStep, PTL DEF Spec

\* For every size of input and of chunk, no write of the cipher leaves result.
THEOREM EveryWriteFits == Spec => []WritesFit
  <1>1. IInv => WritesFit
    BY DEF IInv
  <1> QED BY <1>1, Invariant, PTL

\* For every size, decryption gives back as many bytes as were encrypted.
THEOREM EveryRoundTrip == Spec => []RoundTrip
  <1>1. IInv => RoundTrip
    BY DEF IInv
  <1> QED BY <1>1, Invariant, PTL

\* Every variable of Crypto keeps its type, for every size and chunk.
THEOREM TypeCorrect == Spec => []TypeOK
  <1>1. IInv => TypeOK
    BY DEF IInv
  <1> QED BY <1>1, Invariant, PTL
=============================================================================
