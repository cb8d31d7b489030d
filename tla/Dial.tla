--------------------------------- MODULE Dial ---------------------------------
(***************************************************************************)
(* synthetics/client.py, dial and _connect_once: the TCP connection of one *)
(* request, tried with a fresh socket until one connects or what the step  *)
(* has left is spent. Time is in ticks; a pause may overrun, and nothing   *)
(* bounds the time a name takes to resolve.                                *)
(***************************************************************************)
EXTENDS Naturals

CONSTANTS
  Budget,              \* the timeout: what the step has left
  CONNECT_ATTEMPT_S, CONNECT_PAUSE_S,
  MaxAddresses,        \* of a name
  MaxResolve,          \* the longest a name takes to resolve
  Overrun              \* the longest a pause runs over

ASSUME TimesAreNatural ==
  /\ Budget \in Nat /\ CONNECT_ATTEMPT_S \in Nat \ {0} /\ CONNECT_PAUSE_S \in Nat \ {0}
  /\ MaxAddresses \in Nat /\ MaxResolve \in Nat /\ Overrun \in Nat

VARIABLES
  now,
  pc,         \* "loop", "resolve", "addresses", "connecting", "caught", "opened", "connected", "failed"
  end,        \* of the attempt
  addresses,  \* still to be tried in it
  error,      \* the last one: "connect" or "timeout"
  open,       \* sockets open
  timeout,    \* of the socket that is returned
  attempts

vars == <<now, pc, end, addresses, error, open, timeout, attempts>>

Init ==
  /\ now = 0 /\ pc = "loop" /\ end = 0 /\ addresses = 0 /\ error = "connect"
  /\ open = 0 /\ timeout = 0 /\ attempts = 0

-----------------------------------------------------------------------------
(* dial's loop *)

\* Mutant: an attempt has its whole time, whatever the step has left.
AttemptEndWhole == now + CONNECT_ATTEMPT_S

\* An attempt's time, never past the step's.
AttemptEnd == IF CONNECT_ATTEMPT_S <= Budget - now THEN now + CONNECT_ATTEMPT_S ELSE Budget

Attempt ==
  /\ pc = "loop" /\ now < Budget
  /\ pc' = "resolve" /\ end' = AttemptEnd /\ error' = "connect" /\ attempts' = attempts + 1
  /\ UNCHANGED <<now, addresses, open, timeout>>

\* Mutant: a pause that ends on the step's end is not seen.
SpentOver ==
  /\ pc = "loop" /\ now > Budget
  /\ pc' = "failed" /\ error' = "timeout"
  /\ UNCHANGED <<now, end, addresses, open, timeout, attempts>>

\* The time was spent in the pause.
Spent ==
  /\ pc = "loop" /\ now >= Budget
  /\ pc' = "failed" /\ error' = "timeout"
  /\ UNCHANGED <<now, end, addresses, open, timeout, attempts>>

\* Mutant: there is another attempt only where it has its whole time.
LastSoon == now + CONNECT_ATTEMPT_S >= Budget

\* With a pause or less left there is no other attempt.
Last == now + CONNECT_PAUSE_S >= Budget

\* The last attempt's error stands.
Raise ==
  /\ pc = "caught" /\ Last
  /\ pc' = "failed"
  /\ UNCHANGED <<now, end, addresses, error, open, timeout, attempts>>

Pause ==
  /\ pc = "caught" /\ ~Last
  /\ \E late \in 0..Overrun : now' = now + CONNECT_PAUSE_S + late
  /\ pc' = "loop"
  /\ UNCHANGED <<end, addresses, error, open, timeout, attempts>>

\* Connected, with what is left of the step as the socket's timeout.
Return ==
  /\ pc = "opened" /\ now < Budget
  /\ pc' = "connected" /\ timeout' = Budget - now
  /\ UNCHANGED <<now, end, addresses, error, open, attempts>>

\* Connected as the step's time ran out: closed again.
TooLate ==
  /\ pc = "opened" /\ now >= Budget
  /\ pc' = "failed" /\ error' = "timeout" /\ open' = open - 1
  /\ UNCHANGED <<now, end, addresses, timeout, attempts>>

-----------------------------------------------------------------------------
(* _connect_once *)

\* The name is resolved, to no address at worst, or not at all.
Resolve ==
  /\ pc = "resolve"
  /\ \E d \in 0..MaxResolve : now' = now + d
  /\ \/ addresses' \in 0..MaxAddresses /\ pc' = "addresses"
     \/ UNCHANGED addresses /\ pc' = "caught"
  /\ UNCHANGED <<end, error, open, timeout, attempts>>

\* _open: a socket for the next address, unless the system has none for it.
Opens ==
  /\ pc = "addresses" /\ addresses > 0 /\ now < end
  /\ \/ pc' = "connecting" /\ open' = open + 1 /\ UNCHANGED <<addresses, error>>
     \/ addresses' = addresses - 1 /\ error' = "connect" /\ UNCHANGED <<pc, open>>
  /\ UNCHANGED <<now, end, timeout, attempts>>

\* Mutant: a socket that did not connect is left to the garbage collector.
ClosedNever == open

\* A socket that did not connect is closed before its error is raised.
Closed == open - 1

\* The address connects, refuses, or says nothing until the attempt's end.
Connects ==
  /\ pc = "connecting"
  /\ \E d \in 0..(end - now) : now' = now + d
  /\ pc' = "opened"
  /\ UNCHANGED <<end, addresses, error, open, timeout, attempts>>

Refuses ==
  /\ pc = "connecting"
  /\ \E d \in 0..(end - now) : now' = now + d
  /\ pc' = "addresses" /\ error' = "connect" /\ addresses' = addresses - 1 /\ open' = Closed
  /\ UNCHANGED <<end, timeout, attempts>>

Drops ==
  /\ pc = "connecting"
  /\ pc' = "addresses" /\ now' = end /\ error' = "timeout" /\ addresses' = addresses - 1 /\ open' = Closed
  /\ UNCHANGED <<end, timeout, attempts>>

\* The attempt's time is spent before its addresses are.
AttemptSpent ==
  /\ pc = "addresses" /\ addresses > 0 /\ now >= end
  /\ pc' = "caught" /\ error' = "timeout"
  /\ UNCHANGED <<now, end, addresses, open, timeout, attempts>>

NoneLeft ==
  /\ pc = "addresses" /\ addresses = 0
  /\ pc' = "caught"
  /\ UNCHANGED <<now, end, addresses, error, open, timeout, attempts>>

-----------------------------------------------------------------------------

Next == \/ Attempt \/ Spent \/ Raise \/ Pause \/ Return \/ TooLate
        \/ Resolve \/ Opens \/ Connects \/ Refuses \/ Drops \/ AttemptSpent \/ NoneLeft

Spec == Init /\ [][Next]_vars /\ WF_vars(Next)

-----------------------------------------------------------------------------
(***************************************************************************)
(* What dial promises, and that it is a Connecting.                        *)
(***************************************************************************)

\* The type of every variable.
TypeOK ==
  /\ now \in Nat /\ end \in Nat /\ addresses \in 0..MaxAddresses /\ attempts \in Nat
  /\ pc \in {"loop", "resolve", "addresses", "connecting", "caught", "opened", "connected", "failed"}
  /\ error \in {"connect", "timeout"} /\ open \in 0..1 /\ timeout \in 0..Budget

-----------------------------------------------------------------------------

\* dial is a Connecting that gives up with at most a pause left: no attempt
\* begins once the step's time is spent, and while there is time for another
\* none is given up.
Promise == INSTANCE Connecting WITH
  Grace <- CONNECT_PAUSE_S, tries <- attempts,
  state <- IF pc \in {"connected", "failed"} THEN pc ELSE "trying"
IsConnecting == Promise!Spec

\* A socket is open while its address is asked, until the connection is handed
\* over or found late, and at no other time: however many addresses a name has
\* and attempts there are, none that did not connect is left open.
NoSocketLeft == open = IF pc \in {"connecting", "opened", "connected"} THEN 1 ELSE 0

\* The socket that is returned has time, and no more than the step has left;
\* dial is back by the step's end, but for what a name took to resolve.
FitsTheStep ==
  /\ pc = "connected" => timeout > 0 /\ now + timeout = Budget
  /\ now <= Budget + MaxResolve + Overrun
  /\ end <= Budget

\* A refusal is never told as a timeout: the error is a timeout only where a
\* time was spent, the attempt's, the step's or, overrun, the pause's.
ErrorStands == pc = "failed" /\ error = "timeout" => now >= end

\* Where it ends.
Over == pc \in {"connected", "failed"}
=============================================================================
