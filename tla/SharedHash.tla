----------------------------- MODULE SharedHash -----------------------------
(***************************************************************************)
(* fast_hash(), src/hash.cpp: reset, update and digest of one static state  *)
(* that all threads use, without a lock.  xxHash is external; what two of   *)
(* its calls at the same time leave in the state is anything.               *)
(***************************************************************************)
EXTENDS Naturals, Sequences

CONSTANTS
  Threads,
  Data      \* what a thread may hash; the hash of it is told apart from others

VARIABLES
  made,     \* XXH3_createState() has been called; without memory it made none
  state,    \* what was mixed into the state since it was reset, or "garbage"
  pc,       \* "idle", or the call of xxHash that comes next
  data,     \* what the last fast_hash() of a thread was to hash
  result,   \* what it hashed, nothing if it threw
  own       \* ghost: no other call has overlapped it

vars == <<made, state, pc, data, result, own>>

Garbage == <<"garbage">>

TypeOK ==
  /\ made \in {"no", "yes", "failed"}
  /\ state \in Seq(Data) \cup {Garbage}
  /\ pc \in [Threads -> {"idle", "reset", "update", "digest"}]
  /\ data \in [Threads -> {<<>>} \cup {<<d>> : d \in Data}]
  /\ result \in [Threads -> Seq(Data) \cup {Garbage}]
  /\ own \in [Threads -> BOOLEAN]

Init ==
  /\ made = "no"
  /\ state = <<>>
  /\ pc = [t \in Threads |-> "idle"]
  /\ data = [t \in Threads |-> <<>>]
  /\ result = [t \in Threads |-> <<>>]
  /\ own = [t \in Threads |-> FALSE]

InCall(t) == pc[t] # "idle"

\* The static is made by the first call, once; a second thread waits for that.
Begin(t, d) ==
  /\ ~ InCall(t)
  /\ made' \in IF made = "no" THEN {"yes", "failed"} ELSE {made}
  /\ data' = [data EXCEPT ![t] = <<d>>]
  /\ result' = [result EXCEPT ![t] = <<>>]
  /\ pc' = [pc EXCEPT ![t] = "reset"]
  /\ own' = [u \in Threads |->
               IF u = t THEN \A v \in Threads \ {t} : ~ InCall(v) ELSE own[u] /\ ~ InCall(u)]
  /\ UNCHANGED state

\* Mutant of Reset: a state that is reset once.
ResetFirst(t) ==
  /\ pc[t] = "reset" /\ made = "yes"
  /\ pc' = [pc EXCEPT ![t] = "update"]
  /\ UNCHANGED <<made, state, data, result, own>>

Reset(t) ==
  /\ pc[t] = "reset" /\ made = "yes"
  /\ state' = <<>>
  /\ pc' = [pc EXCEPT ![t] = "update"]
  /\ UNCHANGED <<made, data, result, own>>

\* XXH_ERROR: there is no state.
ResetThrows(t) ==
  /\ pc[t] = "reset" /\ made = "failed"
  /\ pc' = [pc EXCEPT ![t] = "idle"]
  /\ UNCHANGED <<made, state, data, result, own>>

Update(t) ==
  /\ pc[t] = "update"
  /\ state' = IF state = Garbage THEN Garbage ELSE state \o data[t]
  /\ pc' = [pc EXCEPT ![t] = "digest"]
  /\ UNCHANGED <<made, data, result, own>>

Digest(t) ==
  /\ pc[t] = "digest"
  /\ result' = [result EXCEPT ![t] = state]
  /\ pc' = [pc EXCEPT ![t] = "idle"]
  /\ UNCHANGED <<made, state, data, own>>

\* A data race of two calls of xxHash.
Race(t, u) ==
  /\ t # u
  /\ InCall(t) /\ InCall(u) /\ made = "yes"
  /\ state' = Garbage
  /\ UNCHANGED <<made, pc, data, result, own>>

Next == \E t \in Threads :
  \/ \E d \in Data : Begin(t, d)
  \/ Reset(t)
  \/ ResetThrows(t)
  \/ Update(t)
  \/ Digest(t)
  \/ \E u \in Threads : Race(t, u)

Spec == Init /\ [][Next]_vars

-----------------------------------------------------------------------------
(* Correctness *)

\* A fast_hash() that no other overlaps hashes its own data and nothing else, also
\* right after any number that raced each other and left garbage in the state.
HashOfOwnData ==
  \A t \in Threads : own[t] /\ result[t] # <<>> => result[t] = data[t]
=============================================================================
