---------------------------- MODULE RequestPath ----------------------------
(***************************************************************************)
(* What the workflow engine promises of a request, without its calls and   *)
(* tables: a request stands somewhere on its path; the steps of the place  *)
(* where it stands are given out and answered; it moves on once nothing    *)
(* but the step just answered is still open, and never past a step.        *)
(* Places are in tenths of a step, as in RequestWorkflow.                  *)
(***************************************************************************)
EXTENDS Integers

CONSTANTS Requests,
          Names, Steps,   \* what may be asked of users, and the steps among it
          Level           \* Level[s]: the place of step s

VARIABLES at,     \* where each request stands
          open,   \* the pairs <<r, n>> such that somebody has n of r to do
          done    \* the pairs <<r, n>> such that somebody has answered n of r

vars == <<at, open, done>>

Init ==
    /\ at = [r \in Requests |-> 0]
    /\ open = {} /\ done = {}

Untouched(r) == \A n \in Names : <<r, n>> \notin open \cup done

(* A request that nobody was asked anything about yet starts at step 1.     *)
Start(r) ==
    /\ Untouched(r)
    /\ at' = [at EXCEPT ![r] = 10]
    /\ UNCHANGED <<open, done>>

(* A step is given out only where it is; anything else only between steps.  *)
Give(r, n) ==
    /\ IF n \in Steps THEN at[r] = Level[n] ELSE \A s \in Steps : at[r] # Level[s]
    /\ open' = open \cup {<<r, n>>}
    /\ UNCHANGED <<at, done>>

(* One of its users answers; others may still have it to do.                *)
Answer(r, n) ==
    /\ <<r, n>> \in open
    /\ open' = open \/ open' = open \ {<<r, n>>}
    /\ done' = done \cup {<<r, n>>}
    /\ UNCHANGED at

Move(r) ==
    /\ \E n \in Names : /\ <<r, n>> \in done
                        /\ \A m \in Names : <<r, m>> \in open => m = n
    /\ \E i \in -10 .. at[r] + 10 : at' = [at EXCEPT ![r] = i]
    /\ UNCHANGED <<open, done>>

Next ==
    \E r \in Requests :
        \/ Start(r) \/ Move(r)
        \/ \E n \in Names : Give(r, n) \/ Answer(r, n)

Spec == Init /\ [][Next]_vars
=============================================================================
