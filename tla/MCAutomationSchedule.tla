-------------------------- MODULE MCAutomationSchedule -------------------------
(* Definitions for the model checker: every kind, with and without limits.      *)
EXTENDS AutomationSchedule

Unlimited == 99

Definition(kind, starts, gap, rounds, ends) ==
    [kind |-> kind, starts |-> starts, gap |-> gap, rounds |-> rounds, ends |-> ends]

MCDefinitions == {
    Definition("once", 2, 0, Unlimited, Unlimited),
    Definition("interval", 1, 1, 3, 4),
    Definition("afterCompletion", 1, 0, 3, Unlimited),
    Definition("afterCompletion", 0, 1, Unlimited, 4)}
===============================================================================
