---------------------------- MODULE MCFileReads -----------------------------
(* Lists of two chunks and of one, with a path listed twice in two chunks, in  *)
(* one chunk, and none at all; budgets at the limits and beside them.          *)
EXTENDS FileReads
CONSTANTS a, b
MCBatches == {<< >>, <<a, b, a>>, <<b, b>>, <<a>>}
MCBudgets ==
  [maxBytes: {0, 1, 4, 14, -2}, timeoutMs: {4, 12}] \cup [maxBytes: {4}, timeoutMs: {0, 1, 7, 11, 13}]

(* Two calls that write, or one and a read beside it; a bounded read, of which  *)
(* the contents are BoundedReads' subject, before any.                          *)
MCCallsBeside == [whole |-> 1, list |-> 1, bounded |-> 0]
=============================================================================
