---------------------------- MODULE MCDispatcher ----------------------------
(* Dispatcher on a task, an interrupt handler and the dispatcher task.      *)
EXTENDS Dispatcher

CONSTANTS t1, t2, isr
MCCallers == {t1, t2, isr}
MCIsrs == {isr}
=============================================================================
