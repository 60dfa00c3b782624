---------------------------- MODULE BusConnection -----------------------------
(***************************************************************************)
(* The connection a DbusReader holds to the D-Bus daemon.  Nobody tells    *)
(* the reader that its connection broke: a call finds out, some calls drop *)
(* the connection then, and a later call replaces a missing one at most    *)
(* once per interval.                                                      *)
(***************************************************************************)
EXTENDS Integers

CONSTANT ReconnectInterval   \* _reconnect_interval, seconds

ASSUME ReconnectAssumption == ReconnectInterval \in Nat

VARIABLES daemon,      \* the D-Bus daemon accepts connections
          link,        \* DbusReader.bus: "none", "live", or "dead" (broken, unnoticed)
          attemptAge   \* seconds since _last_reconnect_attempt

connection == <<daemon, link, attemptAge>>

\* DbusReader.__init__
Connects == /\ link' = IF daemon THEN "live" ELSE "none"
            /\ attemptAge' = 0

(***************************************************************************)
(* _ensure_connected: a missing connection is retried at most once per     *)
(* interval.  Ensured is the connection a call is then made on.            *)
(***************************************************************************)
Retries == link = "none" /\ attemptAge = ReconnectInterval
Ensured == IF Retries THEN IF daemon THEN "live" ELSE "none" ELSE link

\* A call on a dead connection raises Disconnected; one on a live connection
\* answers, finds no such name or object, or raises another error (NoReply).
Breaks == Ensured = "dead"

\* Mutant: a broken connection is kept.
MutAfterCall(breaks) == /\ link' = Ensured
                        /\ attemptAge' = IF Retries THEN 0 ELSE attemptAge

\* A call that drops a lost connection.
AfterCall(breaks) == /\ link' = IF breaks THEN "none" ELSE Ensured
                     /\ attemptAge' = IF Retries THEN 0 ELSE attemptAge

\* The daemon stops: connections break, and their owners learn it at the next call.
LinkBreaks == /\ daemon
              /\ daemon' = FALSE
              /\ link' = IF link = "live" THEN "dead" ELSE link
              /\ UNCHANGED attemptAge

DaemonReturns == /\ ~daemon
                 /\ daemon' = TRUE
                 /\ UNCHANGED <<link, attemptAge>>

Older(n, limit) == IF n < limit THEN n + 1 ELSE limit

ConnectionType == /\ daemon \in BOOLEAN
                  /\ link \in {"none", "live", "dead"}
                  /\ attemptAge \in 0..ReconnectInterval
===============================================================================
