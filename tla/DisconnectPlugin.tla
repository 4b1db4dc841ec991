--------------------------- MODULE DisconnectPlugin ---------------------------
(***************************************************************************)
(* connector/mqtt/vernemq/broker, dojot_disconnect_plugin: VerneMQ tells   *)
(* the plugin of the sessions that begin and end, and the plugin ends each *)
(* session of a device after some time.  A table has, for each client,     *)
(* the timer of its session.  A session is named by a number; its timer    *)
(* has the same number.                                                    *)
(***************************************************************************)
EXTENDS Naturals

CONSTANTS
    Clients,
    DojotUsers,     \* clients whose user name is tenant:device
    MaxSessions

ASSUME DisconnectAssumption == DojotUsers \subseteq Clients /\ MaxSessions \in Nat

None == 0

VARIABLES
    mqttSession,    \* VerneMQ: client -> its session
    timers,         \* timer:apply_after: client -> timers that run
    ets,            \* disconnect_ets_table: client -> timer
    sessions,       \* sessions so far
    takenOver,      \* clients that had a session taken over (history)
    early           \* clients that a timer of another session disconnected (history)

disconnectVars == <<mqttSession, timers, ets, sessions, takenOver, early>>

DisconnectInit ==
    /\ mqttSession = [c \in Clients |-> None]
    /\ timers = [c \in Clients |-> {}]
    /\ ets = [c \in Clients |-> None]
    /\ sessions = 0 /\ takenOver = {} /\ early = {}

\* The timers and the table, as the hooks see and leave them.
Table(c) == [timers |-> timers[c], ets |-> ets[c]]
Stored(c, t) ==
    /\ timers' = [timers EXCEPT ![c] = t.timers]
    /\ ets' = [ets EXCEPT ![c] = t.ets]

\* Mutant: the timer of the entry that is overwritten is cancelled.
RegisteredAnew(c, t, s) ==
    IF c \in DojotUsers THEN [timers |-> (t.timers \ {t.ets}) \cup {s}, ets |-> s] ELSE t

\* on_register, set_connection_timeout.
Registered(c, t, s) ==
    IF c \in DojotUsers THEN [timers |-> t.timers \cup {s}, ets |-> s] ELSE t

\* on_client_offline and on_client_gone, cancel_connection_timeout.  A client
\* without an entry is a badmatch, which VerneMQ logs.
Gone(t) == IF t.ets = None THEN t ELSE [timers |-> t.timers \ {t.ets}, ets |-> None]

-----------------------------------------------------------------------------
New(c) ==
    /\ sessions < MaxSessions
    /\ sessions' = sessions + 1
    /\ mqttSession' = [mqttSession EXCEPT ![c] = sessions']

Starts(c) ==
    /\ mqttSession[c] = None
    /\ New(c)
    /\ Stored(c, Registered(c, Table(c), sessions'))
    /\ UNCHANGED <<takenOver, early>>

\* The client connects again before its session ended.  The plugin hears of the
\* end of the old session before it hears of the new one, after it, or never.
TakesOver(c) ==
    /\ mqttSession[c] # None
    /\ New(c)
    /\ Stored(c, Registered(c, Gone(Table(c)), sessions'))
       \/ Stored(c, Gone(Registered(c, Table(c), sessions')))
       \/ Stored(c, Registered(c, Table(c), sessions'))
    /\ takenOver' = takenOver \cup {c}
    /\ UNCHANGED early

Ends(c) ==
    /\ mqttSession[c] # None
    /\ mqttSession' = [mqttSession EXCEPT ![c] = None]
    /\ Stored(c, Gone(Table(c)))
    /\ UNCHANGED <<sessions, takenOver, early>>

\* disconnect_client: whatever session the client has by now ends.
Fires(c, t) ==
    /\ t \in timers[c]
    /\ mqttSession' = [mqttSession EXCEPT ![c] = None]
    /\ LET left == [timers |-> timers[c] \ {t}, ets |-> ets[c]] IN
       Stored(c, IF mqttSession[c] = None THEN left ELSE Gone(left))
    /\ early' = IF mqttSession[c] \in {None, t} THEN early ELSE early \cup {c}
    /\ UNCHANGED <<sessions, takenOver>>

DisconnectNext ==
    \E c \in Clients :
        \/ Starts(c) \/ TakesOver(c) \/ Ends(c)
        \/ \E t \in 1..MaxSessions : Fires(c, t)

\* A timer that runs fires.
DisconnectFairness == \A c \in Clients, t \in 1..MaxSessions : WF_disconnectVars(Fires(c, t))

DisconnectSpec == DisconnectInit /\ [][DisconnectNext]_disconnectVars
DisconnectFairSpec == DisconnectSpec /\ DisconnectFairness

-----------------------------------------------------------------------------
DisconnectTypeOK ==
    /\ mqttSession \in [Clients -> 0..MaxSessions]
    /\ ets \in [Clients -> 0..MaxSessions]
    /\ timers \in [Clients -> SUBSET (1..MaxSessions)]

\* Whatever sessions a device had before, a timer runs that will end the one
\* it has, and a timer ends only the session it was set for, unless a session of that client was
\* taken over: the entry of the table was overwritten, and the timer forgotten runs on.
TimersFollowSessions ==
    /\ \A c \in DojotUsers : mqttSession[c] # None => timers[c] # {}
    /\ early \subseteq takenOver

\* No session of a device lasts (README of the plugin: it disconnects clients after
\* some time).
DevicesAreDisconnected ==
    \A c \in DojotUsers, s \in 1..MaxSessions : mqttSession[c] = s ~> mqttSession[c] # s
=============================================================================
