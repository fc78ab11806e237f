------------------------------- MODULE Files -------------------------------
(***************************************************************************)
(* read_file() and write_file(), src/util.cpp, on one file, by threads.     *)
(* Both open, throw if that fails, and then look at no result any more:     *)
(* the buffer of an ofstream reaches the file, or a part of it does, when   *)
(* the stream is destroyed; an ifstream reads as many bytes as the file had *)
(* when it was asked for its size, and what it cannot get stays zero.       *)
(***************************************************************************)
EXTENDS Naturals, Sequences

CONSTANTS
  Threads,  \* the threads, each with its own kind of byte to write
  MaxSize   \* bound: the bytes a thread writes

\* A byte that no thread wrote.
Zero == "zero"

VARIABLES
  file,    \* the bytes of the file, by who wrote them
  pc,      \* "idle"; "writing": opened for it; "reading": its size known
  size,    \* how many bytes a thread writes, or expects
  result,  \* what the last read_file() of a thread returned
  whole,   \* ghost: the bytes of the last write_file(), none if some of them were
           \* lost or another write overlapped it
  undisturbed \* ghost: no write of another thread overlaps this call

vars == <<file, pc, size, result, whole, undisturbed>>

Contents == UNION {[1 .. n -> Threads \cup {Zero}] : n \in 0 .. MaxSize}

TypeOK ==
  /\ file \in Contents
  /\ pc \in [Threads -> {"idle", "writing", "reading"}]
  /\ size \in [Threads -> 0 .. MaxSize]
  /\ result \in [Threads -> Contents]
  /\ whole \in {<<d>> : d \in Contents} \cup {<<>>}
  /\ undisturbed \in [Threads -> BOOLEAN]

Init ==
  /\ file = <<>>
  /\ pc = [t \in Threads |-> "idle"]
  /\ size = [t \in Threads |-> 0]
  /\ result = [t \in Threads |-> <<>>]
  /\ whole = <<<<>>>>
  /\ undisturbed = [t \in Threads |-> FALSE]

Bytes(b, n) == [i \in 1 .. n |-> b]
Shorter(m, n) == IF m < n THEN m ELSE n
NoWriterBut(t) == \A u \in Threads \ {t} : pc[u] # "writing"
DisturbAllBut(t) == [u \in Threads |-> u = t /\ undisturbed[u]]

Opened(old) == old  \* mutant of Truncated: std::ios::in too
\* What ofstream::open() leaves of the file.
Truncated(old) == <<>>

OpenToWrite(t, n) ==
  /\ pc[t] = "idle"
  /\ file' = Truncated(file)
  /\ size' = [size EXCEPT ![t] = n]
  /\ pc' = [pc EXCEPT ![t] = "writing"]
  /\ whole' = <<>>
  /\ undisturbed' = [DisturbAllBut(t) EXCEPT ![t] = NoWriterBut(t)]
  /\ UNCHANGED result

\* The first n bytes of the stream's buffer go to the start of the file, the rest
\* is lost and nobody hears of it.
Flush(t, n) ==
  /\ pc[t] = "writing"
  /\ n <= size[t]
  /\ file' = Bytes(t, n) \o SubSeq(file, n + 1, Len(file))
  /\ pc' = [pc EXCEPT ![t] = "idle"]
  /\ whole' = IF n = size[t] /\ undisturbed[t] THEN <<Bytes(t, n)>> ELSE <<>>
  /\ size' = [size EXCEPT ![t] = 0]
  /\ undisturbed' = DisturbAllBut(t)
  /\ UNCHANGED result

OpenToRead(t) ==
  /\ pc[t] = "idle"
  /\ size' = [size EXCEPT ![t] = Len(file)]
  /\ pc' = [pc EXCEPT ![t] = "reading"]
  /\ undisturbed' = [undisturbed EXCEPT ![t] = NoWriterBut(t)]
  /\ UNCHANGED <<file, result, whole>>

ReadBytes(n) ==
  SubSeq(file, 1, Shorter(n, Len(file))) \o Bytes(Zero, n - Shorter(n, Len(file)))

Read(t) ==
  /\ pc[t] = "reading"
  /\ result' = [result EXCEPT ![t] = ReadBytes(size[t])]
  /\ pc' = [pc EXCEPT ![t] = "idle"]
  /\ size' = [size EXCEPT ![t] = 0]
  /\ UNCHANGED <<file, whole, undisturbed>>

Next == \E t \in Threads :
  \/ \E n \in 0 .. MaxSize : OpenToWrite(t, n) \/ Flush(t, n)
  \/ OpenToRead(t)
  \/ Read(t)

Spec == Init /\ [][Next]_vars

-----------------------------------------------------------------------------
(* Correctness *)

\* A read that no write overlaps returns the file, without a zero byte of its own
\* making; and that is exactly what the last write was given, if no other overlapped
\* that one and the disk took all of it.
ReadsWhatWasWritten ==
  [][\A t \in Threads : pc[t] = "reading" /\ pc'[t] = "idle" /\ undisturbed[t] =>
       /\ result'[t] = file
       /\ whole # <<>> => file = whole[1]]_vars
=============================================================================
