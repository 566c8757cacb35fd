---------------------------- MODULE ReportManager ---------------------------
(***************************************************************************)
(* The vehicle's reports to the control server                             *)
(* (network/report_manager.py) and the connection they leave by            *)
(* (network/control_client.py, send_json).                                 *)
(*                                                                         *)
(* A report is identified by its kind and the time stamp of the event it   *)
(* tells of; the time stamp of an arrival is the number of that arrival.   *)
(* The connection is "up", "dead" (broken but not yet noticed: the client  *)
(* still takes messages, and they are lost) or "down".  Reports in flight  *)
(* form a set, so that a resend of one still in flight adds nothing.       *)
(***************************************************************************)
EXTENDS Naturals

CONSTANTS
    MaxArrivals     \* bound on the arrivals that are numbered

VARIABLES
    completeTs,     \* _complete_ts, 0 for None
    errorResend,    \* _error_resend_ts is not None
    tickComplete,   \* tick's copy of _complete_ts, 0 when there is none
    tickError,      \* tick's copy of _error_resend_ts
    link,           \* the connection to the control server
    uplink          \* the reports in flight to the server

reportVars == <<completeTs, errorResend>>
tickVars   == <<tickComplete, tickError>>

ASSUME MaxArrivalsAssumption == MaxArrivals \in Nat

\* The reports that ask something of the server.
Reports == [report : {"error", "complete"}, timestamp : 0 .. MaxArrivals]

Report(kind, ts) == [report |-> kind, timestamp |-> ts]

ReportTypeOK ==
    /\ completeTs \in 0 .. MaxArrivals
    /\ errorResend \in BOOLEAN
    /\ tickComplete \in 0 .. MaxArrivals
    /\ tickError \in BOOLEAN
    /\ link \in {"down", "up", "dead"}
    /\ uplink \subseteq Reports

ReportInit ==
    /\ completeTs = 0
    /\ errorResend = FALSE
    /\ tickComplete = 0
    /\ tickError = FALSE
    /\ link = "down"
    /\ uplink = {}

-----------------------------------------------------------------------------

\* send_json schedules the message on the current connection and reports
\* success; without a connection it drops the message, and on a dead one the
\* message is lost.
SendAll(reports) == uplink' = IF link = "up" THEN uplink \cup reports ELSE uplink

SendErrorOnce == SendAll({Report("error", 0)})

\* Sent once, and nobody waits for an answer: they are not kept in flight.
SendAccept    == UNCHANGED uplink
SendRecovered == UNCHANGED uplink

\* The time stamp of an arrival whose complete is already outstanding is kept.
MarkComplete(now) ==
    /\ completeTs' = IF completeTs = 0 THEN now ELSE completeTs
    /\ SendAll({Report("complete", completeTs')})

ClearComplete == completeTs' = 0

StopErrorResend == errorResend' = FALSE

\* First half of tick: the two time stamps are copied under the lock.
ReportTickRead ==
    /\ tickComplete = 0 /\ ~tickError
    /\ completeTs # 0 \/ errorResend
    /\ tickComplete' = completeTs
    /\ tickError' = errorResend

\* Two slips: complete is sent once, by MarkComplete, and never again; the copies
\* are sent whatever the state has become.
ReportTickErrorOnly(state) ==
    /\ tickComplete # 0 \/ tickError
    /\ SendAll({r \in {Report("error", 0)} : tickError /\ state = "ERROR"})
    /\ tickComplete' = 0
    /\ tickError' = FALSE
ReportTickSendUntested(state) ==
    /\ tickComplete # 0 \/ tickError
    /\ SendAll({r \in {Report("complete", tickComplete)} : tickComplete # 0}
               \cup {r \in {Report("error", 0)} : tickError})
    /\ tickComplete' = 0
    /\ tickError' = FALSE

\* Second half: the driving state is read without that lock, and what it
\* allows is sent.
ReportTickSend(state) ==
    /\ tickComplete # 0 \/ tickError
    /\ SendAll({r \in {Report("complete", tickComplete)} :
                    tickComplete # 0 /\ state = "ARRIVED"}
               \cup {r \in {Report("error", 0)} : tickError /\ state = "ERROR"})
    /\ tickComplete' = 0
    /\ tickError' = FALSE
=============================================================================
