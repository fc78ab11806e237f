------------------------------ MODULE SqlTable ------------------------------
(***************************************************************************)
(* What the SQL component of klib promises of the table its client works   *)
(* on, without the objects it takes: a session that works on a file, whose *)
(* changes are published one by one or, between begin and commit, all      *)
(* together or not at all.  A session may be closed while statements of it *)
(* are still in use; it then lingers until they are gone, and nothing can  *)
(* commit its transaction any more.                                        *)
(***************************************************************************)
CONSTANT Rows  \* what the table can be

VARIABLES
  session,    \* "closed", "open", "lingering" or "ended"
  pending,    \* a transaction is open
  committed,  \* the table in the file
  view        \* the table as the session sees it

vars == <<session, pending, committed, view>>

Init ==
  /\ session = "closed"
  /\ pending = FALSE
  /\ committed \in Rows
  /\ view = committed

Open == session = "closed" /\ session' = "open" /\ UNCHANGED <<pending, committed, view>>

Begin ==
  /\ session = "open"
  /\ ~ pending
  /\ pending' = TRUE
  /\ UNCHANGED <<session, committed, view>>

\* By any statement, one of a lingering session included.
Change ==
  /\ session \in {"open", "lingering"}
  /\ view' \in Rows
  /\ committed' = IF pending THEN committed ELSE view'
  /\ UNCHANGED <<session, pending>>

Commit ==
  /\ session = "open"
  /\ pending
  /\ committed' = view
  /\ pending' = FALSE
  /\ UNCHANGED <<session, view>>

\* On demand, or by an error of a statement.
Abandon ==
  /\ session \in {"open", "lingering"}
  /\ pending
  /\ view' = committed
  /\ pending' = FALSE
  /\ UNCHANGED <<session, committed>>

Linger ==
  /\ session = "open"
  /\ session' = "lingering"
  /\ UNCHANGED <<pending, committed, view>>

End ==
  /\ session \in {"open", "lingering"}
  /\ session' = "ended"
  /\ view' = committed
  /\ pending' = FALSE
  /\ UNCHANGED committed

Next == Open \/ Begin \/ Change \/ Commit \/ Abandon \/ Linger \/ End

Spec == Init /\ [][Next]_vars

\* Outside a transaction all there is to see is in the file; so it is when no
\* session is left, however it ended.
Settled ==
  /\ ~ pending => view = committed
  /\ session \in {"closed", "ended"} => ~ pending
=============================================================================
