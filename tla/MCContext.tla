----------------------------- MODULE MCContext -----------------------------
(***************************************************************************)
(* Small instances of Context: which of the calls may fail.                *)
(***************************************************************************)
EXTENDS Context, TLC

NoFailure  == {}
AnyFailure == {"domain", "ppant", "pub", "sub", "gc", "start", "node",
               "setup", "wait"}
\* one failure of each kind of clean-up: before, with and after the thread
SomeFailures == {"ppant", "start", "node", "setup"}

ThreadSymmetry == Permutations(Threads)
=============================================================================
