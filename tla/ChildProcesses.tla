--------------------------- MODULE ChildProcesses ---------------------------
(***************************************************************************)
(* exec(), pipe() and wait_for_child_process() of klib (src/util.cpp).      *)
(* All three collect children of one process: exec() and pipe() each wait   *)
(* for the child they started, wait_for_child_process() for any child there *)
(* is, those of exec() and pipe() in other threads included.                *)
(*                                                                          *)
(* fork(), waitpid(), system(), popen() and pclose() are external.  A child *)
(* stands for one process id and is started at most once: the number of     *)
(* Children bounds a behaviour.                                             *)
(***************************************************************************)
EXTENDS FiniteSets

CONSTANTS
  Threads,
  Children,
  NoChild

ASSUME ChildAssumption == NoChild \notin Children

VARIABLES
  child,  \* the life of each child
  pc,     \* where each thread is: "idle", in exec() or pipe(), or waiting
  mine,   \* the child its exec() or pipe() has started
  ret,    \* how its last call ended; the caller takes "cut short" for "ok"
  owed,   \* ghost: children that existed when its wait for all began
  status  \* ghost: how each child ended

vars == <<child, pc, mine, ret, owed, status>>

Ended == {"succeeded", "failed"}

TypeOK ==
  /\ child \in [Children -> {"none", "running", "reaped", "taken"} \cup Ended]
  /\ pc \in [Threads -> {"idle", "exec", "wait"}]
  /\ mine \in [Threads -> Children \cup {NoChild}]
  /\ \A t \in Threads : pc[t] = "exec" <=> mine[t] # NoChild
  /\ ret \in [Threads -> {"none", "ok", "throw", "cut short"}]
  /\ owed \in [Threads -> SUBSET Children]
  /\ status \in [Children -> {"none"} \cup Ended]

Init ==
  /\ child = [c \in Children |-> "none"]
  /\ pc = [t \in Threads |-> "idle"]
  /\ mine = [t \in Threads |-> NoChild]
  /\ ret = [t \in Threads |-> "none"]
  /\ owed = [t \in Threads |-> {}]
  /\ status = [c \in Children |-> "none"]

Unreaped == {c \in Children : child[c] \in {"running"} \cup Ended}

-----------------------------------------------------------------------------
(* The operating system *)

\* The program itself forks: such children are what the wait for all is for.
Fork(c) ==
  /\ child[c] = "none"
  /\ child' = [child EXCEPT ![c] = "running"]
  /\ UNCHANGED <<pc, mine, ret, owed, status>>

Exit(c) ==
  /\ child[c] = "running"
  /\ \E how \in Ended :
       /\ child' = [child EXCEPT ![c] = how]
       /\ status' = [status EXCEPT ![c] = how]
  /\ UNCHANGED <<pc, mine, ret, owed>>

\* waitpid() hands out the status of a child once: to the call that started it,
\* or to a wait for all, which has then taken it.
Reap(c) == child' = [child EXCEPT ![c] = "reaped"]
Take(c) == child' = [child EXCEPT ![c] = "taken"]
Collected(c) == child[c] \in {"reaped", "taken"}

Return(t, how) ==
  /\ pc' = [pc EXCEPT ![t] = "idle"]
  /\ ret' = [ret EXCEPT ![t] = how]

-----------------------------------------------------------------------------
(* exec() and pipe().  What pipe() reads ends when its child closes the other *)
(* end, at its exit.                                                          *)

Start(t, c) ==
  /\ pc[t] = "idle"
  /\ child[c] = "none"
  /\ child' = [child EXCEPT ![c] = "running"]
  /\ mine' = [mine EXCEPT ![t] = c]
  /\ pc' = [pc EXCEPT ![t] = "exec"]
  /\ UNCHANGED <<ret, owed, status>>

\* No process could be created: system() returns -1, popen() NULL.
StartFails(t) ==
  /\ pc[t] = "idle"
  /\ Return(t, "throw")
  /\ UNCHANGED <<child, mine, owed, status>>

\* Mutants of Finish: the status not looked at, the status of any child taken
\* for that of this one.  Mutants of Stolen: the child not let go of, a wait
\* that is tried again when there is no such child.
FinishUnchecked(t) ==
  /\ pc[t] = "exec"
  /\ child[mine[t]] \in Ended
  /\ Reap(mine[t])
  /\ Return(t, "ok")
  /\ mine' = [mine EXCEPT ![t] = NoChild]
  /\ UNCHANGED <<owed, status>>

FinishAny(t) ==
  /\ pc[t] = "exec"
  /\ \E c \in Children :
       /\ child[c] \in Ended
       /\ Reap(c)
       /\ Return(t, IF child[c] = "succeeded" THEN "ok" ELSE "throw")
  /\ mine' = [mine EXCEPT ![t] = NoChild]
  /\ UNCHANGED <<owed, status>>

StolenKept(t) ==
  /\ pc[t] = "exec"
  /\ Collected(mine[t])
  /\ Return(t, "throw")
  /\ UNCHANGED <<child, mine, owed, status>>

StolenRetried(t) ==
  /\ pc[t] = "exec"
  /\ Collected(mine[t])
  /\ UNCHANGED vars

Finish(t) ==
  /\ pc[t] = "exec"
  /\ child[mine[t]] \in Ended
  /\ Reap(mine[t])
  /\ Return(t, IF child[mine[t]] = "succeeded" THEN "ok" ELSE "throw")
  /\ mine' = [mine EXCEPT ![t] = NoChild]
  /\ UNCHANGED <<owed, status>>

\* Somebody else has collected the child: the wait of system(), of pclose()
\* fails with ECHILD and the call cannot tell how the command ended.
Stolen(t) ==
  /\ pc[t] = "exec"
  /\ Collected(mine[t])
  /\ Return(t, "throw")
  /\ mine' = [mine EXCEPT ![t] = NoChild]
  /\ UNCHANGED <<child, owed, status>>

-----------------------------------------------------------------------------
(* wait_for_child_process() *)

WaitForAll(t) ==
  /\ pc[t] = "idle"
  /\ pc' = [pc EXCEPT ![t] = "wait"]
  /\ owed' = [owed EXCEPT ![t] = Unreaped]
  /\ UNCHANGED <<child, mine, ret, status>>

\* Mutant of Collect: one child and no loop.
CollectOne(t) ==
  /\ pc[t] = "wait"
  /\ \E c \in Children :
       /\ child[c] \in Ended
       /\ Take(c)
       /\ Return(t, IF child[c] = "failed" THEN "throw" ELSE "ok")
  /\ UNCHANGED <<mine, owed, status>>

\* One waitpid(-1): a child that failed ends the call there and then.
Collect(t) ==
  /\ pc[t] = "wait"
  /\ \E c \in Children :
       /\ child[c] \in Ended
       /\ Take(c)
       /\ IF child[c] = "failed" THEN Return(t, "throw") ELSE UNCHANGED <<pc, ret>>
  /\ UNCHANGED <<mine, owed, status>>

\* ECHILD, or EINTR from a signal handler: both end the loop.
NoMoreChildren(t) ==
  /\ pc[t] = "wait"
  /\ Unreaped = {}
  /\ Return(t, "ok")
  /\ UNCHANGED <<child, mine, owed, status>>

Interrupted(t) ==
  /\ pc[t] = "wait"
  /\ Return(t, "cut short")
  /\ UNCHANGED <<child, mine, owed, status>>

-----------------------------------------------------------------------------
Step(t) == Finish(t) \/ Stolen(t) \/ Collect(t) \/ NoMoreChildren(t)

Next ==
  \/ \E c \in Children : Fork(c) \/ Exit(c)
  \/ \E t \in Threads :
       \/ \E c \in Children : Start(t, c)
       \/ StartFails(t)
       \/ WaitForAll(t)
       \/ Step(t)
       \/ Interrupted(t)

\* Commands end, and a thread whose wait has something to report goes on.
Fairness ==
  /\ \A c \in Children : WF_vars(Exit(c))
  /\ \A t \in Threads : WF_vars(Step(t))

Spec == Init /\ [][Next]_vars
FairSpec == Spec /\ Fairness

-----------------------------------------------------------------------------
(* Correctness *)

Returns(t, from, how) == pc[t] = from /\ pc'[t] = "idle" /\ ret'[t] = how

\* exec() and pipe() return normally only when their own command succeeded,
\* even while other threads wait for, and take, each other's children.
NoFalseSuccess ==
  [][\A t \in Threads : Returns(t, "exec", "ok") => status[mine[t]] = "succeeded"]_vars

\* They throw only when it failed or when a wait for all has taken its status:
\* never because of the exec() or pipe() of another thread.
NoFalseFailure ==
  [][\A t \in Threads : Returns(t, "exec", "throw") =>
       status[mine[t]] = "failed" \/ child[mine[t]] = "taken"]_vars

\* wait_for_child_process() that returns normally, uninterrupted, has left none
\* of the children it found: each has exited and was collected, here or by
\* another thread.
NormalReturnMeansAll ==
  [][\A t \in Threads : Returns(t, "wait", "ok") =>
       \A c \in owed[t] : Collected(c)]_vars

\* Every call ends, whoever collects whose children: no thread waits for a
\* child that another one has taken.
EveryCallEnds == \A t \in Threads : pc[t] # "idle" ~> pc[t] = "idle"
=============================================================================
