----------------------------- MODULE AmqpHandle -----------------------------
(***************************************************************************)
(* What the owner of an AmqpHandle may rely on, whatever the broker does:  *)
(* the abstract specification of the reconnecting-amqp crate.  The owner   *)
(* sees two one-way tokens it sets (start, shutdown), one one-shot channel *)
(* it reads (the start result) and whether the background task has ended.  *)
(* AmqpConnection implements this module.                                  *)
(***************************************************************************)

VARIABLES startToken,     \* start() or wait_start() was called
          shutdownToken,  \* shutdown() was called
          startResult,    \* what the start one-shot holds
          phase           \* the background task: idle, active or done

vars == <<startToken, shutdownToken, startResult, phase>>

StartResults == {"pending", "ok", "error", "dropped"}

Init ==
    /\ startToken = FALSE
    /\ shutdownToken = FALSE
    /\ startResult = "pending"
    /\ phase = "idle"

CallStart ==
    /\ startToken' = TRUE
    /\ UNCHANGED <<shutdownToken, startResult, phase>>

CallShutdown ==
    /\ shutdownToken' = TRUE
    /\ UNCHANGED <<startToken, startResult, phase>>

\* The task was told to stop before it began: it ends without a result.
Refuse ==
    /\ phase = "idle" /\ startToken /\ shutdownToken
    /\ phase' = "done"
    /\ startResult' = "dropped"
    /\ UNCHANGED <<startToken, shutdownToken>>

Begin ==
    /\ phase = "idle" /\ startToken /\ ~shutdownToken
    /\ phase' = "active"
    /\ UNCHANGED <<startToken, shutdownToken, startResult>>

ReportOk ==
    /\ phase = "active" /\ startResult = "pending"
    /\ startResult' = "ok"
    /\ UNCHANGED <<startToken, shutdownToken, phase>>

\* The first attempt failed: the error is handed over and the task ends.
ReportError ==
    /\ phase = "active" /\ startResult = "pending"
    /\ startResult' = "error"
    /\ phase' = "done"
    /\ UNCHANGED <<startToken, shutdownToken>>

\* Once started, only the owner can end the task.
Stop ==
    /\ phase = "active" /\ startResult = "ok" /\ shutdownToken
    /\ phase' = "done"
    /\ UNCHANGED <<startToken, shutdownToken, startResult>>

Next ==
    \/ CallStart \/ CallShutdown
    \/ Refuse \/ Begin \/ ReportOk \/ ReportError \/ Stop

Spec == Init /\ [][Next]_vars
=============================================================================
