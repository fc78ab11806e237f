------------------------------- MODULE Crypto -------------------------------
(***************************************************************************)
(* aes_256_encrypt() and aes_256_decrypt() of klib (src/crypto.cpp) with the *)
(* aes_256_crypt() they share, by the number of bytes that go where.  The   *)
(* result is allocated before the cipher runs, from the size of the input;  *)
(* the cipher is then fed in chunks, holds bytes back between them, and     *)
(* writes where the bytes before it ended.                                  *)
(*                                                                          *)
(* The cipher (BoringSSL's EVP interface) is external.  A CBC cipher works  *)
(* in blocks of 16 bytes, pads the last one when it encrypts and removes    *)
(* the padding when it decrypts; for that it keeps the last whole block     *)
(* back.  GCM passes every byte through.                                    *)
(***************************************************************************)
EXTENDS Integers

CONSTANTS
  Sizes,  \* sizes of what a client encrypts, and of the foreign data it has
  Chunk   \* bytes handed to the cipher at a time: 16384

ASSUME CryptoAssumption ==
  /\ Sizes \subseteq Nat
  /\ Chunk \in Nat \ {0}

VARIABLES
  pc,     \* "idle", in the loop ("update"), "final", or thrown out ("throw")
  mode,   \* AesMode
  encrypt,
  origin, \* where the input is from: "client" or "foreign"
  size,   \* std::size(data) of aes_256_crypt()
  left,   \* what of it the loop has not come to
  room,   \* std::size(result) while the cipher writes
  total,  \* bytes of output so far
  held,   \* bytes the cipher has taken and not given out
  reach,  \* end of the furthest write into result
  plain   \* size of the client's data of which this is the ciphertext

input == <<mode, encrypt, origin, size, plain>>
progress == <<left, room, total, held, reach>>
vars == <<pc, input, progress>>

Modes == {"GCM", "CBC"}

TypeOK ==
  /\ pc \in {"idle", "update", "final", "done", "throw"}
  /\ mode \in Modes
  /\ encrypt \in BOOLEAN
  /\ origin \in {"client", "foreign"}
  /\ size \in Nat
  /\ left \in 0 .. size
  /\ room \in Nat
  /\ total \in Nat
  /\ held \in 0 .. 16
  /\ reach \in Nat
  /\ plain \in Nat

Init ==
  /\ pc = "idle"
  /\ mode = "GCM"
  /\ encrypt = TRUE
  /\ origin = "client"
  /\ size = 0
  /\ left = 0
  /\ room = 0
  /\ total = 0
  /\ held = 0
  /\ reach = 0
  /\ plain = 0

BlockSize(m) == IF m = "CBC" THEN 16 ELSE 1

\* What stands before and after the ciphertext in a message.
IvSize(m) == IF m = "GCM" THEN 12 ELSE 16
TagSize(m) == IF m = "GCM" THEN 16 ELSE 0

\* Mutant of Room: padding forgotten.
RoomForData(m, enc, n) == n

\* max_len: a whole block more than needed when the data fills its last one.
Room(m, enc, n) ==
  IF enc THEN n + (BlockSize(m) - (n % BlockSize(m))) ELSE n

-----------------------------------------------------------------------------
(* aes_256_crypt() up to its loop *)

Begin(m, enc, from, n, p) ==
  /\ pc' = "update"
  /\ mode' = m
  /\ encrypt' = enc
  /\ origin' = from
  /\ size' = n
  /\ plain' = p
  /\ left' = n
  /\ room' = Room(m, enc, n)
  /\ total' = 0
  /\ held' = 0
  /\ reach' = 0

Idle == pc \in {"idle", "done", "throw"}

Encrypt(m, n) ==
  /\ Idle
  /\ Begin(m, TRUE, "client", n, n)

\* A message is the initial vector, the ciphertext and, with GCM, the tag;
\* decryption takes it apart again.  Here: the message just made, with the same
\* key and additional data.
MessageSize(m, ciphertext) == IvSize(m) + ciphertext + TagSize(m)
Decrypt ==
  /\ pc = "done"
  /\ encrypt
  /\ Begin(mode, FALSE, "client",
           MessageSize(mode, total) - IvSize(mode) - TagSize(mode), plain)

\* Another message with n bytes of ciphertext, or aes_256_cbc_decrypt_no_iv().
DecryptForeign(m, n) ==
  /\ Idle
  /\ Begin(m, FALSE, "foreign", n, 0)

\* A wrong key size, a failing random generator...
Refuse ==
  /\ Idle
  /\ pc' = "throw"
  /\ UNCHANGED <<input, progress>>

-----------------------------------------------------------------------------
(* The cipher *)

\* What stays behind of n bytes, and how far it writes meanwhile: decryption
\* writes the block it keeps back too, and takes it out of the length.
Kept(n) ==
  IF mode = "GCM" THEN 0
  ELSE IF encrypt \/ n = 0 \/ (n % 16) # 0 THEN n % 16 ELSE 16
Written(n) == IF mode = "GCM" THEN n ELSE n - (n % 16)

Furthest(end) == IF end > reach THEN end ELSE reach

\* EVP_CipherUpdate()
Update(n) ==
  /\ held' = Kept(held + n)
  /\ total' = total + (held + n - held')
  /\ reach' = Furthest(total + Written(held + n))

\* EVP_CipherFinal_ex(): the bytes it writes.  GCM checks the tag of what it
\* decrypted; CBC removes between 1 and 16 bytes of padding, which for a
\* message made by Encrypt() are those Encrypt() added.
Padding == 16 - (plain % 16)
FinalLengths ==
  CASE mode = "GCM" -> {0}
    [] mode = "CBC" /\ encrypt -> {16}
    [] mode = "CBC" /\ ~ encrypt /\ held = 16 ->
         IF origin = "client" THEN {16 - Padding} ELSE {16 - p : p \in 1 .. 16}
    [] OTHER -> {}
MayFail == ~ encrypt /\ (origin = "foreign" \/ (mode = "CBC" /\ held # 16))

-----------------------------------------------------------------------------
(* The loop, and what follows it *)

Todo == IF left < Chunk THEN left ELSE Chunk

\* Mutants of FeedChunk: the last, shorter chunk dropped, or taken for whole.
FeedWholeChunks ==
  /\ pc = "update"
  /\ left > 0
  /\ Update(IF left < Chunk THEN 0 ELSE Chunk)
  /\ left' = left - Todo
  /\ UNCHANGED <<pc, input, room>>

FeedBeyond ==
  /\ pc = "update"
  /\ left > 0
  /\ Update(Chunk)
  /\ left' = left - Chunk
  /\ UNCHANGED <<pc, input, room>>

FeedChunk ==
  /\ pc = "update"
  /\ left > 0
  /\ Update(Todo)
  /\ left' = left - Todo
  /\ UNCHANGED <<pc, input, room>>

EndLoop ==
  /\ pc = "update"
  /\ left = 0
  /\ pc' = "final"
  /\ UNCHANGED <<input, progress>>

Finish ==
  /\ pc = "final"
  /\ \E length \in FinalLengths :
       /\ total' = total + length
       /\ reach' = Furthest(total + length)
  /\ held' = 0
  /\ pc' = "done"
  /\ UNCHANGED <<input, left, room>>

FinishFails ==
  /\ pc = "final"
  /\ MayFail
  /\ pc' = "throw"
  /\ UNCHANGED <<input, progress>>

Next ==
  \/ \E m \in Modes, n \in Sizes : Encrypt(m, n) \/ DecryptForeign(m, n)
  \/ Decrypt
  \/ Refuse
  \/ FeedChunk
  \/ EndLoop
  \/ Finish
  \/ FinishFails

Spec == Init /\ [][Next]_vars

-----------------------------------------------------------------------------
(* Correctness *)

\* aes_256_crypt() never writes past the end of result: the room it computes
\* from the size of the input is enough for every write of the cipher, the
\* padding and the blocks it writes only to take back included, whatever the
\* size of the chunks.
WritesFit == reach <= room

\* aes_256_decrypt() of what aes_256_encrypt() made, with the same key, does
\* not fail, and gives back as many bytes as went in; the ciphertext has the
\* size the format requires.
RoundTrip ==
  origin = "client" =>
    /\ pc = "final" => ~ MayFail
    /\ pc = "done" /\ ~ encrypt => total = plain
    /\ pc = "done" /\ encrypt =>
         total = IF mode = "GCM" THEN plain ELSE plain + (16 - (plain % 16))

\* The inductive invariant of CryptoProofs.  Every byte taken is given out or
\* held back; a ciphertext of the client has the size of a padded plaintext.
Consumed == size - left
Ciphertext(m, n) == IF m = "GCM" THEN n ELSE n + (16 - (n % 16))
BytesTraced ==
  /\ pc \in {"update", "final", "done"} => room = Room(mode, encrypt, size)
  /\ pc \in {"update", "final"} =>
       /\ total + held = Consumed
       /\ held = Kept(Consumed)
       /\ reach <= Consumed
  /\ pc = "final" => left = 0
  /\ encrypt => origin = "client"
  /\ origin = "client" => size = IF encrypt THEN plain ELSE Ciphertext(mode, plain)

IInv == TypeOK /\ WritesFit /\ RoundTrip /\ BytesTraced
=============================================================================
