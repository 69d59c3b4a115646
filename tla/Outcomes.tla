------------------------------ MODULE Outcomes ------------------------------
(***************************************************************************)
(* A C call as an operator from a state w of what it works on to the set   *)
(* of its outcomes [ok, w].                                                *)
(***************************************************************************)
EXTENDS Integers

Done(w) == {[ok |-> TRUE, w |-> w]}

Failed(w) == {[ok |-> FALSE, w |-> w]}

(* if (rc) return rc; Rest runs when the calls before it succeeded. *)
Then(outcomes, Rest(_)) ==
  {o \in outcomes : ~o.ok} \cup UNION {Rest(o.w) : o \in {u \in outcomes : u.ok}}

(* A loop: what n passes make of start.  A pass leaves a loop that has     *)
(* ended as it is.                                                         *)
Loop(n, start, Pass(_)) ==
  LET after[i \in 0 .. n] ==
        IF i = 0 THEN {start} ELSE UNION {Pass(l) : l \in after[i - 1]}
  IN after[n]
=============================================================================
