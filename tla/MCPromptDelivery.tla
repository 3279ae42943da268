-------------------------- MODULE MCPromptDelivery --------------------------
(***************************************************************************)
(* Instances of PromptDelivery for TLC. Every behaviour follows one plan:  *)
(* concurrent flushes under a lost call, a retry or discard and a crash,   *)
(* a queue of two behind a turn, and each way the session can fail.        *)
(***************************************************************************)
EXTENDS PromptDelivery

Plan(prompts, flushes, may) ==
    [prompts |-> prompts, flushes |-> flushes, idle |-> FALSE, may |-> may]
FromIdle(p) == [p EXCEPT !.idle = TRUE]

AllPlans ==
    {FromIdle(Plan(2, 2, {"loss"})), FromIdle(Plan(2, 2, {"crash"})),
     Plan(2, 1, {"loss", "retry"}), Plan(1, 2, {"loss", "retry", "crash"}),
     Plan(1, 2, {"retry", "receipt"}), FromIdle(Plan(3, 1, {}))}
    \cup {Plan(2, 1, {kind}) : kind \in {"cancel", "fail", "boot", "exit", "reject"}}
    \cup {FromIdle(Plan(2, 1, {"usage"}))}

CancelPlans == {Plan(2, 1, {"cancel"})}
=============================================================================
