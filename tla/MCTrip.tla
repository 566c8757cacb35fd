------------------------------- MODULE MCTrip -------------------------------
EXTENDS Trip

AtStop == [within |-> TRUE, onLane |-> TRUE, aligned |-> TRUE]
MCPlaces == {AtStop, [AtStop EXCEPT !.onLane = FALSE]}

Move == [readable |-> TRUE, majorFits |-> TRUE, isCommand |-> TRUE, command |-> "move", loc |-> "inside"]
MCMessages == {Move, [Move EXCEPT !.loc = "outside"], [Move EXCEPT !.majorFits = FALSE],
               [Move EXCEPT !.command = "stop", !.loc = "none"], [Move EXCEPT !.command = "resume"]}
=============================================================================
