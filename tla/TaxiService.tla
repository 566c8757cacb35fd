---------------------------- MODULE TaxiService -----------------------------
(***************************************************************************)
(* What the vehicle promises the control server, without threads, sockets, *)
(* reports or motors: it serves one trip at a time; a trip to a caller is  *)
(* followed by the trip that carries that customer, and only by that; a    *)
(* trip ends with a confirmed arrival; an error halts it where it is and   *)
(* changes nothing else.  A trip under way may also be stranded: then the  *)
(* vehicle waits as though it had served it, and either takes it up again  *)
(* or accepts the trip that would follow it.                               *)
(***************************************************************************)
CONSTANTS
    Destinations,
    NoDestination

VARIABLES
    phase,          \* "waiting", "moving", "arrived" or "stranded"
    destination,    \* of the trip being served
    trip,           \* its kind
    boarded,        \* a customer who was picked up has not been brought yet
    halted          \* stopped by an error

serviceVars == <<phase, destination, trip, boarded, halted>>

TaxiInit ==
    /\ phase = "waiting"
    /\ destination = NoDestination
    /\ trip = "None"
    /\ boarded = FALSE
    /\ halted = FALSE

Accept(d) ==
    /\ phase \in {"waiting", "stranded"} /\ ~halted
    /\ phase' = "moving"
    /\ destination' = d
    /\ trip' = IF trip = "PICKUP" \/ (boarded /\ phase = "waiting") THEN "CARRY" ELSE "PICKUP"
    /\ boarded' = (trip' = "CARRY")
    /\ UNCHANGED halted

Arrive ==
    /\ phase = "moving" /\ ~halted
    /\ phase' = "arrived"
    /\ UNCHANGED <<destination, trip, boarded, halted>>

Confirm ==
    /\ phase = "arrived" /\ ~halted
    /\ phase' = "waiting"
    /\ destination' = NoDestination
    /\ trip' = "None"
    /\ boarded' = (trip = "PICKUP")
    /\ UNCHANGED halted

Strand ==
    /\ phase = "moving" /\ ~halted
    /\ phase' = "stranded"
    /\ UNCHANGED <<destination, trip, boarded, halted>>

TakeUpAgain ==
    /\ phase = "stranded"
    /\ phase' = "moving"
    /\ halted' = FALSE
    /\ UNCHANGED <<destination, trip, boarded>>

\* An error stop begins or ends.
HaltOrRelease ==
    /\ halted' = ~halted
    /\ UNCHANGED <<phase, destination, trip, boarded>>

TaxiNext ==
    \/ \E d \in Destinations : Accept(d)
    \/ Arrive
    \/ Confirm
    \/ Strand
    \/ TakeUpAgain
    \/ HaltOrRelease

TaxiSpec == TaxiInit /\ [][TaxiNext]_serviceVars
=============================================================================
