------------------------------ MODULE Connecting ------------------------------
(***************************************************************************)
(* What synthetics/client.py's dial and synthetics/journeys.py's _egress   *)
(* both promise of the connections they try: within a budget of time, one  *)
(* try after another until one that will do, and no giving up while there  *)
(* is time for another.                                                    *)
(***************************************************************************)
EXTENDS Naturals

CONSTANTS
  Budget,   \* the time there is
  Grace     \* what may be left of it when it is given up

VARIABLES
  now,
  tries,    \* connections begun
  state     \* "trying", "connected" or "failed"

vars == <<now, tries, state>>

Init == now = 0 /\ tries = 0 /\ state = "trying"

\* No try begins once the time is spent; it may take some.
Try ==
  /\ state = "trying" /\ now < Budget
  /\ tries' = tries + 1 /\ now' \in Nat /\ now' >= now
  /\ UNCHANGED state

\* What else takes time: a pause, a name looked up, the try that was begun.
Pass == state = "trying" /\ now' \in Nat /\ now' > now /\ UNCHANGED <<tries, state>>

\* A connection made late is none.
Connect == state = "trying" /\ tries > 0 /\ now <= Budget /\ state' = "connected" /\ UNCHANGED <<now, tries>>

\* Not before the time is spent, but for less than a pause.
GiveUp == state = "trying" /\ now + Grace >= Budget /\ state' = "failed" /\ UNCHANGED <<now, tries>>

Next == Try \/ Pass \/ Connect \/ GiveUp

Spec == Init /\ [][Next]_vars
=============================================================================
