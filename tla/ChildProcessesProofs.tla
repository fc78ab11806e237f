------------------------ MODULE ChildProcessesProofs ------------------------
(* Proofs about ChildProcesses for any threads and any children. *)
EXTENDS ChildProcesses, TLAPS

(* What a call is told of a child is how that child ended. *)
ToldTruly == \A c \in Children : child[c] \in Ended => status[c] = child[c]

(* A child is waited for by the call that started it and by no other; nobody   *)
(* but that call reaps it, so that while it waits the child is there or taken. *)
OneParent ==
  \A t, u \in Threads : mine[t] # NoChild /\ mine[t] = mine[u] => t = u

ThereOrTaken ==
  \A t \in Threads : pc[t] = "exec" => child[mine[t]] \in {"running", "taken"} \cup Ended

(* What a wait for all found never becomes a child that was not started. *)
OwedStarted == \A t \in Threads : \A c \in owed[t] : child[c] # "none"

IInv == TypeOK /\ ToldTruly /\ OneParent /\ ThereOrTaken /\ OwedStarted

-----------------------------------------------------------------------------

LEMMA InvInit == Init => IInv
BY ChildAssumption DEF Init, IInv, TypeOK, ToldTruly, OneParent, ThereOrTaken, OwedStarted, Ended

LEMMA MineIsChild ==
  ASSUME IInv, NEW t \in Threads, pc[t] = "exec"
  PROVE  mine[t] \in Children /\ mine[t] # NoChild
BY DEF IInv, TypeOK

\* A child of the program begins, or any child ends.
LEMMA ForkKeeps ==
  ASSUME IInv, NEW c \in Children, Fork(c)
  PROVE  IInv'
  <1>1. /\ child[c] = "none"
        /\ child' = [child EXCEPT ![c] = "running"]
        /\ UNCHANGED <<pc, mine, ret, owed, status>>
    BY DEF Fork
  <1>2. TypeOK'
    BY <1>1 DEF IInv, TypeOK, Ended
  <1>3. ToldTruly' /\ OneParent'
    BY <1>1 DEF IInv, TypeOK, ToldTruly, OneParent, Ended
  <1>4. ThereOrTaken'
    BY <1>1, MineIsChild DEF IInv, TypeOK, ThereOrTaken, Ended
  <1>5. OwedStarted'
    BY <1>1 DEF IInv, TypeOK, OwedStarted
  <1> QED BY <1>2, <1>3, <1>4, <1>5 DEF IInv

LEMMA ExitKeeps ==
  ASSUME IInv, NEW c \in Children, Exit(c)
  PROVE  IInv'
  <1>1. PICK how \in Ended : /\ child' = [child EXCEPT ![c] = how]
                             /\ status' = [status EXCEPT ![c] = how]
    BY DEF Exit
  <1>2. child[c] = "running" /\ UNCHANGED <<pc, mine, ret, owed>>
    BY DEF Exit
  <1>3. TypeOK'
    BY <1>1, <1>2 DEF IInv, TypeOK, Ended
  <1>4. ToldTruly' /\ OneParent'
    BY <1>1, <1>2 DEF IInv, TypeOK, ToldTruly, OneParent, Ended
  <1>5. ThereOrTaken'
    BY <1>1, <1>2, MineIsChild DEF IInv, TypeOK, ThereOrTaken, Ended
  <1>6. OwedStarted'
    BY <1>1, <1>2 DEF IInv, TypeOK, OwedStarted, Ended
  <1> QED BY <1>3, <1>4, <1>5, <1>6 DEF IInv

\* A call starts a child that nobody has started.
LEMMA StartKeeps ==
  ASSUME IInv, NEW t \in Threads, NEW c \in Children, Start(t, c)
  PROVE  IInv'
  <1>1. /\ pc[t] = "idle" /\ child[c] = "none"
        /\ child' = [child EXCEPT ![c] = "running"]
        /\ mine' = [mine EXCEPT ![t] = c]
        /\ pc' = [pc EXCEPT ![t] = "exec"]
        /\ UNCHANGED <<ret, owed, status>>
    BY DEF Start
  <1>2. c # NoChild
    BY ChildAssumption
  <1>3. TypeOK'
    BY <1>1, <1>2 DEF IInv, TypeOK, Ended
  <1>4. \A u \in Threads : mine[u] # c
    <2> SUFFICES ASSUME NEW u \in Threads, mine[u] = c PROVE FALSE
      OBVIOUS
    <2>1. pc[u] = "exec"
      BY <1>2 DEF IInv, TypeOK
    <2>2. child[c] \in {"running", "taken"} \cup Ended
      BY <2>1 DEF IInv, ThereOrTaken
    <2> QED BY <1>1, <2>2 DEF Ended
  <1>5. ToldTruly' /\ OwedStarted'
    BY <1>1 DEF IInv, TypeOK, ToldTruly, OwedStarted, Ended
  <1>6. OneParent'
    BY <1>1, <1>2, <1>4 DEF IInv, TypeOK, OneParent
  <1>7. ThereOrTaken'
    <2> SUFFICES ASSUME NEW u \in Threads, pc'[u] = "exec"
                 PROVE  child'[mine'[u]] \in {"running", "taken"} \cup Ended
      BY DEF ThereOrTaken
    <2>1. CASE u = t
      BY <1>1, <2>1 DEF IInv, TypeOK
    <2>2. CASE u # t
      <3>1. pc[u] = "exec" /\ mine'[u] = mine[u]
        BY <1>1, <2>2 DEF IInv, TypeOK
      <3>2. mine[u] \in Children /\ child'[mine[u]] = child[mine[u]]
        BY <1>1, <1>4, <3>1, MineIsChild DEF IInv, TypeOK
      <3> QED BY <3>1, <3>2 DEF IInv, ThereOrTaken
    <2> QED BY <2>1, <2>2
  <1> QED BY <1>3, <1>5, <1>6, <1>7 DEF IInv

\* A call ends, with its child reaped by it or taken by another.
LEMMA EndKeeps ==
  ASSUME IInv, NEW t \in Threads, pc[t] = "exec",
         NEW how \in {"ok", "throw"}, Return(t, how),
         child' \in {child, [child EXCEPT ![mine[t]] = "reaped"]},
         mine' = [mine EXCEPT ![t] = NoChild],
         UNCHANGED <<owed, status>>
  PROVE  IInv'
  <1>1. mine[t] \in Children /\ mine[t] # NoChild
    BY MineIsChild
  <1>2. child' \in [Children -> {"none", "running", "reaped", "taken"} \cup Ended]
    BY <1>1 DEF IInv, TypeOK
  <1>3. TypeOK'
    BY <1>2 DEF IInv, TypeOK, Return
  <1>4. \A c \in Children : c # mine[t] => child'[c] = child[c]
    BY DEF IInv, TypeOK
  <1>5. child'[mine[t]] \in {"reaped", child[mine[t]]}
    BY <1>1 DEF IInv, TypeOK
  <1>6. ToldTruly'
    BY <1>4, <1>5 DEF IInv, ToldTruly, Ended
  <1>7. OwedStarted'
    BY <1>4, <1>5 DEF IInv, TypeOK, OwedStarted
  <1>8. OneParent'
    BY DEF IInv, TypeOK, OneParent
  <1>9. ThereOrTaken'
    <2> SUFFICES ASSUME NEW u \in Threads, pc'[u] = "exec"
                 PROVE  child'[mine'[u]] \in {"running", "taken"} \cup Ended
      BY DEF ThereOrTaken
    <2>1. u # t /\ pc[u] = "exec" /\ mine'[u] = mine[u]
      BY DEF IInv, TypeOK, Return
    <2>2. mine[u] \in Children /\ mine[u] # mine[t]
      BY <1>1, <2>1, MineIsChild DEF IInv, OneParent
    <2> QED BY <1>4, <2>1, <2>2 DEF IInv, ThereOrTaken
  <1> QED BY <1>3, <1>6, <1>7, <1>8, <1>9 DEF IInv

\* A wait for all takes a child, whosever it is.
LEMMA CollectKeeps ==
  ASSUME IInv, NEW t \in Threads, Collect(t)
  PROVE  IInv'
  <1>1. PICK c \in Children :
          /\ child[c] \in Ended
          /\ child' = [child EXCEPT ![c] = "taken"]
          /\ IF child[c] = "failed" THEN Return(t, "throw") ELSE UNCHANGED <<pc, ret>>
    BY DEF Collect, Take
  <1>2. pc[t] = "wait" /\ UNCHANGED <<mine, owed, status>>
    BY DEF Collect
  <1>3. /\ pc' \in [Threads -> {"idle", "exec", "wait"}]
        /\ ret' \in [Threads -> {"none", "ok", "throw", "cut short"}]
        /\ \A u \in Threads : pc'[u] = "exec" <=> pc[u] = "exec"
    BY <1>1, <1>2 DEF IInv, TypeOK, Return
  <1>4. TypeOK'
    BY <1>1, <1>2, <1>3 DEF IInv, TypeOK
  <1>5. ToldTruly' /\ OneParent' /\ OwedStarted'
    BY <1>1, <1>2 DEF IInv, TypeOK, ToldTruly, OneParent, OwedStarted, Ended
  <1>6. ThereOrTaken'
    BY <1>1, <1>2, <1>3, MineIsChild DEF IInv, TypeOK, ThereOrTaken
  <1> QED BY <1>4, <1>5, <1>6 DEF IInv

\* A call that is not an exec() or a pipe() returns, and no child changes.
LEMMA QuietReturnKeeps ==
  ASSUME IInv, NEW t \in Threads, pc[t] # "exec",
         NEW how \in {"ok", "throw", "cut short"}, Return(t, how),
         UNCHANGED <<child, mine, owed, status>>
  PROVE  IInv'
  <1>1. TypeOK'
    BY DEF IInv, TypeOK, Return
  <1>2. ToldTruly' /\ OneParent' /\ OwedStarted'
    BY DEF IInv, ToldTruly, OneParent, OwedStarted
  <1>3. ThereOrTaken'
    BY DEF IInv, TypeOK, ThereOrTaken, Return
  <1> QED BY <1>1, <1>2, <1>3 DEF IInv

LEMMA WaitForAllKeeps ==
  ASSUME IInv, NEW t \in Threads, WaitForAll(t)
  PROVE  IInv'
  <1>1. /\ pc[t] = "idle" /\ pc' = [pc EXCEPT ![t] = "wait"]
        /\ owed' = [owed EXCEPT ![t] = Unreaped]
        /\ UNCHANGED <<child, mine, ret, status>>
    BY DEF WaitForAll
  <1>2. Unreaped \subseteq Children /\ \A c \in Unreaped : child[c] # "none"
    BY DEF Unreaped, Ended
  <1>3. TypeOK'
    BY <1>1, <1>2 DEF IInv, TypeOK
  <1>4. ToldTruly' /\ OneParent' /\ OwedStarted'
    BY <1>1, <1>2 DEF IInv, TypeOK, ToldTruly, OneParent, OwedStarted
  <1>5. ThereOrTaken'
    BY <1>1 DEF IInv, TypeOK, ThereOrTaken
  <1> QED BY <1>3, <1>4, <1>5 DEF IInv

LEMMA InvStep == IInv /\ [Next]_vars => IInv'
  <1> SUFFICES ASSUME IInv, [Next]_vars PROVE IInv'
    OBVIOUS
  <1>1. ASSUME NEW t \in Threads, Finish(t) PROVE IInv'
    <2> DEFINE how == IF child[mine[t]] = "succeeded" THEN "ok" ELSE "throw"
    <2>1. how \in {"ok", "throw"} /\ Return(t, how)
      BY <1>1 DEF Finish
    <2> HIDE DEF how
    <2> QED BY <1>1, <2>1, EndKeeps DEF Finish, Reap
  <1>2. ASSUME NEW t \in Threads, Stolen(t) PROVE IInv'
    BY <1>2, EndKeeps DEF Stolen
  <1>3. ASSUME NEW t \in Threads, StartFails(t) PROVE IInv'
    BY <1>3, QuietReturnKeeps DEF StartFails
  <1>4. ASSUME NEW t \in Threads, NoMoreChildren(t) PROVE IInv'
    BY <1>4, QuietReturnKeeps DEF NoMoreChildren
  <1>5. ASSUME NEW t \in Threads, Interrupted(t) PROVE IInv'
    BY <1>5, QuietReturnKeeps DEF Interrupted
  <1>6. CASE UNCHANGED vars
    BY <1>6 DEF vars, IInv, TypeOK, ToldTruly, OneParent, ThereOrTaken, OwedStarted
  <1> QED
    BY <1>1, <1>2, <1>3, <1>4, <1>5, <1>6, ForkKeeps, ExitKeeps, StartKeeps,
       WaitForAllKeeps, CollectKeeps DEF Next, Step

\* The inductive invariant of ChildProcesses: children are waited for by the call
\* that started them alone, and what is told of them is true.
THEOREM Invariant == Spec => []IInv
  <1> QED BY InvInit, InvStep, PTL DEF Spec

\* Every variable of ChildProcesses keeps its type, for any threads and children.
THEOREM TypeCorrect == Spec => []TypeOK
  <1>1. IInv => TypeOK
    BY DEF IInv
  <1> QED BY <1>1, Invariant, PTL

-----------------------------------------------------------------------------
(* How calls return. *)

\* The only ways out of exec() and pipe().
LEMMA WaysOut ==
  ASSUME IInv, [Next]_vars, NEW t \in Threads, pc[t] = "exec", pc'[t] = "idle"
  PROVE  Finish(t) \/ Stolen(t)
  <1>1. ASSUME NEW u \in Threads, u # t, Step(u) PROVE FALSE
    BY <1>1 DEF Step, Finish, Stolen, Collect, NoMoreChildren, Return, IInv, TypeOK
  <1>2. ASSUME Step(t) PROVE Finish(t) \/ Stolen(t)
    BY <1>2 DEF Step, Collect, NoMoreChildren
  <1>3. ASSUME NEW u \in Threads, StartFails(u) \/ Interrupted(u) \/ WaitForAll(u)
        PROVE  FALSE
    BY <1>3 DEF StartFails, Interrupted, WaitForAll, Return, IInv, TypeOK
  <1>4. ASSUME NEW u \in Threads, NEW c \in Children, Start(u, c) PROVE FALSE
    BY <1>4 DEF Start, IInv, TypeOK
  <1>5. ASSUME NEW c \in Children, Fork(c) \/ Exit(c) PROVE FALSE
    BY <1>5 DEF Fork, Exit
  <1>6. CASE UNCHANGED vars
    BY <1>6 DEF vars
  <1> QED BY <1>1, <1>2, <1>3, <1>4, <1>5, <1>6 DEF Next

\* exec() and pipe() report success only of a command of theirs that succeeded,
\* whatever other threads start and collect meanwhile.
THEOREM SuccessIsTrue == Spec => NoFalseSuccess
  <1>1. IInv /\ [Next]_vars =>
          \A t \in Threads : Returns(t, "exec", "ok") => status[mine[t]] = "succeeded"
    <2> SUFFICES ASSUME IInv, [Next]_vars, NEW t \in Threads, Returns(t, "exec", "ok")
                 PROVE  status[mine[t]] = "succeeded"
      OBVIOUS
    <2>1. Finish(t) \/ Stolen(t)
      BY WaysOut DEF Returns
    <2>2. ret'[t] = "ok" /\ mine[t] \in Children
      BY MineIsChild DEF Returns
    <2>3. ~ Stolen(t)
      BY <2>2 DEF Stolen, Return, IInv, TypeOK
    <2>4. child[mine[t]] = "succeeded"
      BY <2>1, <2>2, <2>3 DEF Finish, Return, IInv, TypeOK
    <2> QED BY <2>2, <2>4 DEF IInv, ToldTruly, Ended
  <1> QED BY <1>1, Invariant, PTL DEF Spec, NoFalseSuccess

\* They report failure only of a command of theirs that failed, or whose status a
\* wait for all has taken.
THEOREM FailureIsTrue == Spec => NoFalseFailure
  <1>1. IInv /\ [Next]_vars =>
          \A t \in Threads : Returns(t, "exec", "throw") =>
            status[mine[t]] = "failed" \/ child[mine[t]] = "taken"
    <2> SUFFICES ASSUME IInv, [Next]_vars, NEW t \in Threads, Returns(t, "exec", "throw")
                 PROVE  status[mine[t]] = "failed" \/ child[mine[t]] = "taken"
      OBVIOUS
    <2>1. pc[t] = "exec" /\ ret'[t] = "throw" /\ mine[t] \in Children
      BY MineIsChild DEF Returns
    <2>2. CASE Finish(t)
      <3>1. child[mine[t]] = "failed"
        BY <2>1, <2>2 DEF Finish, Return, IInv, TypeOK, Ended
      <3> QED BY <2>1, <3>1 DEF IInv, ToldTruly, Ended
    <2>3. CASE Stolen(t)
      <3>1. child[mine[t]] \in {"reaped", "taken"}
        BY <2>3 DEF Stolen, Collected
      <3> QED BY <2>1, <3>1 DEF IInv, ThereOrTaken, Ended
    <2> QED BY <2>2, <2>3, WaysOut DEF Returns
  <1> QED BY <1>1, Invariant, PTL DEF Spec, NoFalseFailure

\* A wait for all that returns because there is nothing left has left none of the
\* children it found uncollected.
THEOREM NothingLeft == Spec => NormalReturnMeansAll
  <1>1. IInv /\ [Next]_vars =>
          \A t \in Threads : Returns(t, "wait", "ok") => \A c \in owed[t] : Collected(c)
    <2> SUFFICES ASSUME IInv, [Next]_vars, NEW t \in Threads, Returns(t, "wait", "ok"),
                        NEW c \in owed[t]
                 PROVE  Collected(c)
      OBVIOUS
    <2>1. pc[t] = "wait" /\ pc'[t] = "idle" /\ ret'[t] = "ok" /\ c \in Children
      BY DEF Returns, IInv, TypeOK
    <2>2. NoMoreChildren(t)
      <3>1. ASSUME NEW u \in Threads, NEW d \in Children,
                   Fork(d) \/ Exit(d) \/ Start(u, d) \/ UNCHANGED vars
            PROVE  FALSE
        BY <2>1, <3>1 DEF Fork, Exit, Start, vars, IInv, TypeOK
      <3>2. ASSUME NEW u \in Threads, Finish(u) \/ Stolen(u) PROVE FALSE
        BY <2>1, <3>2 DEF Finish, Stolen, Return, IInv, TypeOK
      <3>3. ASSUME NEW u \in Threads, StartFails(u) \/ Interrupted(u) \/ WaitForAll(u)
            PROVE  FALSE
        BY <2>1, <3>3 DEF StartFails, Interrupted, WaitForAll, Return, IInv, TypeOK
      <3>4. ASSUME NEW u \in Threads, Collect(u) PROVE FALSE
        BY <2>1, <3>4 DEF Collect, Return, IInv, TypeOK
      <3>5. ASSUME NEW u \in Threads, NoMoreChildren(u), u # t PROVE FALSE
        BY <2>1, <3>5 DEF NoMoreChildren, Return, IInv, TypeOK
      <3> QED BY <2>1, <3>1, <3>2, <3>3, <3>4, <3>5 DEF Next, Step, vars
    <2>3. c \notin Unreaped /\ child[c] # "none"
      BY <2>2 DEF NoMoreChildren, IInv, OwedStarted
    <2> QED BY <2>1, <2>3 DEF Unreaped, Collected, IInv, TypeOK, Ended
  <1> QED BY <1>1, Invariant, PTL DEF Spec, NormalReturnMeansAll
=============================================================================
