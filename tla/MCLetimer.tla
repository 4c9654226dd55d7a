----------------------------- MODULE MCLetimer -----------------------------
(***************************************************************************)
(* Letimer on a period of eight ticks and waits of 2 and 5 of them, so     *)
(* that waits start before and after the counter's wrap and outlive the    *)
(* preemption of their caller; and on the constants of the real timer.     *)
(***************************************************************************)
EXTENDS Letimer

ShortWaits == {2000, 5000}
RealWaits  == {3000, 80000, 300000}
=============================================================================
