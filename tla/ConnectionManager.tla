------------------------- MODULE ConnectionManager -------------------------
(***************************************************************************)
(* The one connection a process has to the broker                          *)
(* (message-broker-library/src/connection.ts): how it is made, and made    *)
(* again after a close.  BrokerConnection adds the consumers of the        *)
(* message handler to it, and Publisher the producers of the other         *)
(* processes.                                                              *)
(***************************************************************************)
EXTENDS Integers

CONSTANTS
    MaxReconnectAttempts,
    MaxCloses       \* bound: closes of the connection

ASSUME MaxReconnectAttemptsAssumption == MaxReconnectAttempts \in Nat
ASSUME MaxClosesAssumption == MaxCloses \in Nat

VARIABLES
    running,            \* the process has not ended
    manager,            \* what the ConnectionManager waits for
    connectAttempts,
    errorEventAttempts,
    recent,             \* the last close is less than the period ago
    closes,             \* how often the connection was closed
    quick               \* history: closes in a row that were followed by a new
                        \* connection within the period

counterVars == <<connectAttempts, errorEventAttempts, recent, closes, quick>>
managerVars == <<running, manager, counterVars>>

\* "unused" is before the first call of getConnection.
Managers == {"unused", "connect", "delay", "up"}

ManagerTypeOK ==
    /\ running \in BOOLEAN
    /\ manager \in Managers
    /\ connectAttempts \in 0 .. MaxReconnectAttempts
    /\ errorEventAttempts \in 0 .. MaxReconnectAttempts
    /\ recent \in BOOLEAN
    /\ closes \in 0 .. MaxCloses
    /\ quick \in 0 .. MaxReconnectAttempts

ManagerInit ==
    /\ running = TRUE
    /\ connectAttempts = 0
    /\ errorEventAttempts = 0
    /\ recent = FALSE
    /\ closes = 0
    /\ quick = 0

-----------------------------------------------------------------------------

\* process.exit, or an error nobody handles.
Exit ==
    /\ running
    /\ running' = FALSE
    /\ UNCHANGED <<manager, counterVars>>

\* getConnection: the first call makes the connection.
GetConnection ==
    /\ manager' = IF manager = "unused" THEN "connect" ELSE manager
    /\ UNCHANGED <<running, counterVars>>

\* Mutant of Remembered: the counter of error events is never reset.
RememberedForever == errorEventAttempts

\* resetErrorEventCounter: the counter is reset when a connection is made, if
\* the last close is longer ago than the period.
Remembered == IF recent THEN errorEventAttempts ELSE 0

\* connect succeeds.
Connected ==
    /\ running
    /\ manager = "connect"
    /\ manager' = "up"
    /\ connectAttempts' = 0
    /\ errorEventAttempts' = Remembered
    /\ quick' = IF recent THEN quick + 1 ELSE 0
    /\ UNCHANGED <<running, recent, closes>>

ConnectFails ==
    /\ running
    /\ manager = "connect"
    /\ connectAttempts < MaxReconnectAttempts
    /\ connectAttempts' = connectAttempts + 1
    /\ manager' = "delay"
    /\ UNCHANGED <<running, errorEventAttempts, recent, closes, quick>>

\* The attempt after the last one ends the process.
GiveUp ==
    /\ manager = "connect"
    /\ connectAttempts >= MaxReconnectAttempts
    /\ Exit

Reconnect ==
    /\ running
    /\ manager = "delay"
    /\ manager' = "connect"
    /\ UNCHANGED <<running, counterVars>>

\* 'close' with CONNECTION_FORCED.
Closed ==
    /\ running
    /\ manager = "up"
    /\ closes < MaxCloses
    /\ errorEventAttempts < MaxReconnectAttempts
    /\ manager' = "delay"
    /\ closes' = closes + 1
    /\ errorEventAttempts' = errorEventAttempts + 1
    /\ recent' = TRUE
    /\ UNCHANGED <<running, connectAttempts, quick>>

\* One close too many ends the process.
CloseTooMany ==
    /\ manager = "up"
    /\ errorEventAttempts >= MaxReconnectAttempts
    /\ Exit

\* The period since the last close is over.
PeriodEnds ==
    /\ running
    /\ recent
    /\ recent' = FALSE
    /\ UNCHANGED <<running, manager, connectAttempts, errorEventAttempts, closes, quick>>

Retry == ConnectFails \/ GiveUp \/ Reconnect

\* The steps that leave consumers and producers alone.
ManagerStep == Retry \/ CloseTooMany \/ PeriodEnds \/ Exit

-----------------------------------------------------------------------------

\* The counter of error events is the number of closes in a row that were soon
\* followed by a new connection, and the last one if there is none yet.
QuickCounted ==
    errorEventAttempts = quick + (IF manager = "up" \/ closes = 0 THEN 0 ELSE 1)

\* Why, with the types, as an inductive invariant.
ManagerInv ==
    /\ ManagerTypeOK
    /\ QuickCounted
    /\ recent => closes > 0

\* The process gives up on a close only when each of the last ones, as many as
\* there are attempts, was followed by a new connection within the period: an
\* outage that takes longer wipes them out.  How long the connections lasted
\* does not count, so rare closes add up if each outage is short.
GivesUpWhenQuick == [][CloseTooMany => quick = MaxReconnectAttempts]_managerVars
=============================================================================
