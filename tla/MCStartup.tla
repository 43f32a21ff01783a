----------------------------- MODULE MCStartup -----------------------------
(* Small instances of Startup for TLC. *)
EXTENDS Startup

\* Every kind of start: cache pages given or computed, graphs given, computed
\* or disabled, shared and separate tokenizers, with and without pynccl, shell
\* mode, and a refusal.
Plain == [shell |-> FALSE, tokenizers |-> 0, graphMax |-> 8, pages |-> None,
          dummy |-> FALSE, key |-> TRUE, requireKey |-> TRUE, pynccl |-> TRUE]

AllConfigs ==
  {[Plain EXCEPT !.graphMax = None, !.pages = 2],
   [Plain EXCEPT !.shell = TRUE],
   [Plain EXCEPT !.tokenizers = 1, !.graphMax = 0, !.pynccl = FALSE],
   [Plain EXCEPT !.pages = 1],
   [Plain EXCEPT !.key = FALSE]}
=============================================================================
