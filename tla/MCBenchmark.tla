---------------------------- MODULE MCBenchmark ----------------------------
(* Two nodes, an instance of another run, two pages over two rows.         *)
EXTENDS BenchmarkDashboard

CONSTANTS p1, p2

MCSession == {p1, p2}
MCForeign == {-1}
=============================================================================
