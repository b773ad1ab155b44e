------------------------------- MODULE Polling -------------------------------
(***************************************************************************)
(* The polling loop of a screen: web/src/lib/usePolling.ts.                *)
(*                                                                         *)
(* One poll is under way at a time, and a landed poll sets the timer of    *)
(* the next.  How long the timer runs (interval, back-off, at once after a *)
(* refresh) is not told apart, and a tab that is hidden is one whose timer *)
(* is slow to run out.  `late' stands for a write counter that has moved   *)
(* on since the poll set off.                                              *)
(***************************************************************************)

CONSTANT Nothing   \* no data yet

\* A mounted screen: it polls at once and shows what it was handed.
Mounted(initial) ==
    [data |-> initial, inFlight |-> TRUE, result |-> Nothing, late |-> FALSE,
     timer |-> FALSE, stopped |-> FALSE]

tick(p) ==
    IF p.inFlight \/ p.stopped THEN p
    ELSE [p EXCEPT !.inFlight = TRUE, !.result = Nothing, !.late = FALSE, !.timer = FALSE]

schedule(p) == [p EXCEPT !.timer = ~p.stopped]

\* The API answers: what it reads now is on its way to the screen.
Served(p, answer) == [p EXCEPT !.result = answer]

Returned(p) == schedule([p EXCEPT !.inFlight = FALSE, !.result = Nothing, !.late = FALSE])

\* Mutant: an answer is painted whatever was written since it was asked for.
Landed_Always(p, isStale) ==
    Returned(IF isStale THEN p ELSE [p EXCEPT !.data = p.result])

\* The answer is painted unless the screen has been written to since it was asked
\* for, or it is no newer than what is shown.
Landed(p, isStale) ==
    Returned(IF p.late \/ isStale THEN p ELSE [p EXCEPT !.data = p.result])

Failed(p, isFatal) == Returned([p EXCEPT !.stopped = isFatal])

\* The caller writes what it learnt from an answer of its own.
setData(p, next) == [p EXCEPT !.data = next, !.late = p.inFlight]

refresh(p) == tick(p)
=============================================================================
