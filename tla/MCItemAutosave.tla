--------------------------- MODULE MCItemAutosave ---------------------------
(* Small instances of ItemAutosave for TLC.                                *)
EXTENDS ItemAutosave, TLC

ScreensQueues == Permutations(Screens) \cup Permutations(Queues)
=============================================================================
