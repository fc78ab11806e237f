------------------------------ MODULE HtmlTidy ------------------------------
(***************************************************************************)
(* html_tidy(), src/html.cpp: the calls of HTML Tidy, each with a status    *)
(* below 0 when it failed, above 1 when the document has errors.  A failure *)
(* skips the calls up to tidySaveBuffer(), which overwrites the status.     *)
(* Tidy is external; the document and its output are either there or not.   *)
(***************************************************************************)
EXTENDS Integers

VARIABLES
  pc,     \* the next call; "returned", "threw"
  ignore, \* ignore_error
  rc,     \* the status of the last call that was made
  errors, \* Tidy has met errors in the document, so far
  force,  \* TidyForceOutput
  output, \* output_buffer holds the document
  failed  \* ghost: the calls that failed

vars == <<pc, ignore, rc, errors, force, output, failed>>

Calls == {"error_buffer", "parse", "repair", "diagnose"}
Ended == {"returned", "threw"}

TypeOK ==
  /\ pc \in Calls \cup Ended \cup {"start", "force", "save"}
  /\ rc \in -1 .. 2
  /\ {ignore, errors, force, output} \subseteq BOOLEAN
  /\ failed \subseteq Calls \cup {"save"}

Init ==
  /\ pc = "start"
  /\ rc = 0 /\ failed = {}
  /\ ignore = FALSE /\ errors = FALSE /\ force = FALSE /\ output = FALSE

\* tidyCreate() and the options; CHECK_HTML_TIDY() throws for any of them.
Start ==
  /\ pc = "start"
  /\ ignore' \in BOOLEAN
  /\ pc' \in {"error_buffer", "threw"}
  /\ UNCHANGED <<rc, errors, force, output, failed>>

\* tidyDocStatus(), of a document with these errors, and warnings or not.
Status(e) == IF e THEN {2} ELSE {0, 1}

After(call) == CASE call = "error_buffer" -> "parse"
                 [] call = "parse" -> "repair"
                 [] call = "repair" -> "diagnose"
                 [] call = "diagnose" -> "force"

\* A call made because none before it failed.
Call(call) ==
  /\ pc = call
  /\ \/ /\ errors' \in IF call = "error_buffer" THEN {FALSE} ELSE {errors, TRUE}
        /\ rc' \in IF call = "error_buffer" THEN {0} ELSE Status(errors')
        /\ pc' = After(call)
        /\ UNCHANGED failed
     \/ /\ rc' = -1
        /\ failed' = failed \cup {call}
        /\ pc' = "force"
        /\ UNCHANGED errors
  /\ UNCHANGED <<ignore, force, output>>

\* Mutant of Force: not asked for.
ForceNothing ==
  /\ pc = "force"
  /\ pc' = "save"
  /\ UNCHANGED <<ignore, rc, errors, force, output, failed>>

Force ==
  /\ pc = "force"
  /\ \/ pc' = "save" /\ force' = (rc > 1)
     \/ pc' = "threw" /\ rc > 1 /\ UNCHANGED force
  /\ UNCHANGED <<ignore, rc, errors, output, failed>>

Returns(status) == status >= 0 /\ ~ (status > 1 /\ ~ ignore)

\* tidySaveBuffer() writes a document with errors only when it is forced to.
Save ==
  /\ pc = "save"
  /\ \/ /\ rc' \in Status(errors)
        /\ output' = (force \/ ~ errors)
        /\ UNCHANGED failed
     \/ /\ rc' = -1
        /\ failed' = failed \cup {"save"}
        /\ output' \in BOOLEAN
  /\ pc' = IF Returns(rc') THEN "returned" ELSE "threw"
  /\ UNCHANGED <<ignore, errors, force>>

Next == Start \/ (\E call \in Calls : Call(call)) \/ Force \/ Save

Spec == Init /\ [][Next]_vars

-----------------------------------------------------------------------------
(* Correctness *)

\* What is returned when no call failed is the document, whatever errors it has;
\* it has some only if they are to be ignored.  That holds for the errors met
\* before a call that failed, too, but a document cut short is returned as if it
\* were whole, since the status of the failure is overwritten.
TidyReturnsDocument ==
  pc = "returned" =>
    /\ "save" \notin failed
    /\ errors => ignore
    /\ failed = {} => output
=============================================================================
