----------------------------- MODULE ServerClock -----------------------------
(***************************************************************************)
(* What the parts of the server and of the analysis crates share: the wall *)
(* clock they stamp their records with, the calls their callers make, and  *)
(* the bounds of both.                                                     *)
(***************************************************************************)
EXTENDS Integers

CONSTANTS MaxTime,      \* bound on the clock
          MaxRequests,  \* bound on the calls that arrive
          Nothing       \* None, "no such entry", "idle"

ASSUME ClockAssumption ==
    /\ MaxTime \in Nat
    /\ MaxRequests \in Nat

VARIABLES clock,   \* Utc::now()
          served   \* calls that have arrived

clockVars == <<clock, served>>

ClockTypeOK ==
    /\ clock \in Nat
    /\ served \in Nat

ClockInit ==
    /\ clock = 0
    /\ served = 0

\* Time passes; with NTP or by hand the clock may also be set, which the code
\* does not handle and this model leaves out.
Passes ==
    /\ clock < MaxTime
    /\ clock' = clock + 1
    /\ UNCHANGED served

\* One more call arrives.
Request ==
    /\ served < MaxRequests
    /\ served' = served + 1
    /\ UNCHANGED clock

=============================================================================
