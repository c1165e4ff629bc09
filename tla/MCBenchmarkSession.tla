------------------------- MODULE MCBenchmarkSession -------------------------
(* Model checking of BenchmarkSession: the second parser accepts more.     *)
EXTENDS BenchmarkSession

MCRejected == {<<"old", "odd">>}
=============================================================================
