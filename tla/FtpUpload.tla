----------------------------- MODULE FtpUpload -----------------------------
(***************************************************************************)
(* connector/kafka2ftp, for one tenant: each message of {tenant}.dojot.ftp *)
(* is a file to send over one of the connections of FTPClientPool.  The    *)
(* callback of the message returns at once, so that uploads wait for, and  *)
(* take, connections concurrently.  The consumer does not acknowledge, and *)
(* has the SDK commit what the callback was given.                         *)
(***************************************************************************)
EXTENDS Naturals

CONSTANTS
    FtpFiles,
    Connections,     \* maxConcurrentConnections, at least 1
    Retries,         \* of async-retry
    MaxFtpFaults     \* failures of the server, and kills

ASSUME FtpAssumption ==
    /\ Connections \in Nat \ {0}
    /\ Retries \in Nat /\ MaxFtpFaults \in Nat

VARIABLES
    currentIndex,    \* -1 is written Connections + 1
    isSending,       \* connections held
    connected,
    transfer,        \* uploads: step, connection, retries, and whether the stream was read
    onServer,        \* files on the server, and as what
    ftpFaults

ftpVars == <<currentIndex, isSending, connected, transfer, onServer, ftpFaults>>

Pool == 0..(Connections - 1)
Unset == Connections + 1
Unsent == [step |-> "topic", conn |-> Unset, tries |-> 0, drained |-> FALSE]

FtpInit ==
    /\ currentIndex = Unset /\ isSending = {} /\ connected = {}
    /\ transfer = [f \in FtpFiles |-> Unsent]
    /\ onServer = [f \in FtpFiles |-> "none"]
    /\ ftpFaults = 0

FtpFails == ftpFaults < MaxFtpFaults /\ ftpFaults' = ftpFaults + 1

\* initConnections, which initService does not wait for.
Connects(c) ==
    /\ c \notin connected /\ c \notin isSending
    /\ connected' = connected \cup {c}
    /\ UNCHANGED <<currentIndex, isSending, transfer, onServer, ftpFaults>>

\* createCallbackToHandleMsgAndUpload; uploadFile returns no promise.
HandlesFile(f) ==
    /\ transfer[f].step = "topic"
    /\ transfer' = [transfer EXCEPT ![f].step = "ask"]
    /\ UNCHANGED <<currentIndex, isSending, connected, onServer, ftpFaults>>

\* nextConnectionIndex: the first index is 1, whatever the size of the pool.
NextIndex == IF currentIndex = Unset THEN 1
             ELSE IF currentIndex < Connections - 1 THEN currentIndex + 1 ELSE 0

\* Mutant: a circular list, whether the connection is in use or not.
TakesNext(f) ==
    /\ transfer[f].step = "ask"
    /\ currentIndex' = NextIndex
    /\ IF NextIndex \in Pool
       THEN /\ isSending' = isSending \cup {NextIndex}
            /\ transfer' = [transfer EXCEPT ![f].step = "send", ![f].conn = NextIndex]
       ELSE UNCHANGED <<isSending, transfer>>
    /\ UNCHANGED <<connected, onServer, ftpFaults>>

\* nextConnection: a connection in use, or an index outside of the pool, makes it sleep and try the next.
Takes(f) ==
    /\ transfer[f].step = "ask"
    /\ currentIndex' = NextIndex
    /\ IF NextIndex \in Pool \ isSending
       THEN /\ isSending' = isSending \cup {NextIndex}
            /\ transfer' = [transfer EXCEPT ![f].step = "send", ![f].conn = NextIndex]
       ELSE UNCHANGED <<isSending, transfer>>
    /\ UNCHANGED <<connected, onServer, ftpFaults>>

\* The promise of upload settles: uploadFile frees the connection.
Settles(f) ==
    /\ transfer' = [transfer EXCEPT ![f] = [Unsent EXCEPT !.step = "settled"]]
    /\ isSending' = isSending \ {transfer[f].conn}

\* A stream that was read already has nothing more to send.
Content(f) == IF transfer[f].drained THEN "empty" ELSE "whole"

\* upload, the first time or within a retry: it connects when it has to, and an error starts
\* uploadRetry, from its first attempt.
SendsFile(f) ==
    /\ transfer[f].step = "send"
    /\ \/ /\ onServer' = [onServer EXCEPT ![f] = Content(f)]
          /\ connected' = connected \cup {transfer[f].conn}
          /\ Settles(f) /\ UNCHANGED ftpFaults
       \/ /\ FtpFails
          /\ \E read \in BOOLEAN :
                transfer' = [transfer EXCEPT ![f].step = "retry", ![f].tries = 0, ![f].drained = @ \/ read]
          /\ connected' \in {connected, connected \ {transfer[f].conn}}
          /\ UNCHANGED <<isSending, onServer>>
    /\ UNCHANGED currentIndex

\* uploadRetry: connect; its error is retried, and in the end only logged.
Reconnects(f) ==
    /\ transfer[f].step = "retry"
    /\ \/ /\ connected' = connected \cup {transfer[f].conn}
          /\ transfer' = [transfer EXCEPT ![f].step = "send"]
          /\ UNCHANGED <<isSending, ftpFaults>>
       \/ /\ FtpFails /\ UNCHANGED connected
          /\ IF transfer[f].tries < Retries
             THEN transfer' = [transfer EXCEPT ![f].tries = @ + 1] /\ UNCHANGED isSending
             ELSE Settles(f)
    /\ UNCHANGED <<currentIndex, onServer>>

\* The server ends a connection; the handler of 'end' connects again (Connects) unless an upload does.
Drops(c) ==
    /\ c \in connected /\ FtpFails
    /\ connected' = connected \ {c}
    /\ UNCHANGED <<currentIndex, isSending, transfer, onServer>>

\* unhandledRejection, of a connect for instance: what was handled and not sent is lost.
Dies ==
    /\ FtpFails
    /\ currentIndex' = Unset /\ isSending' = {} /\ connected' = {}
    /\ transfer' = [f \in FtpFiles |-> IF transfer[f].step = "topic" THEN Unsent
                                    ELSE [Unsent EXCEPT !.step = "settled"]]
    /\ UNCHANGED onServer

FtpNext ==
    \/ \E c \in Pool : Connects(c) \/ Drops(c)
    \/ \E f \in FtpFiles : HandlesFile(f) \/ Takes(f) \/ SendsFile(f) \/ Reconnects(f)
    \/ Dies

FtpSpec == FtpInit /\ [][FtpNext]_ftpVars

-----------------------------------------------------------------------------
FtpTypeOK ==
    /\ currentIndex \in Pool \cup {1, Unset}
    /\ isSending \subseteq Pool /\ connected \subseteq Pool
    /\ transfer \in [FtpFiles -> [step : {"topic", "ask", "send", "retry", "settled"}, conn : Pool \cup {Unset},
                               tries : 0..Retries, drained : BOOLEAN]]
    /\ onServer \in [FtpFiles -> {"none", "whole", "empty"}]
    /\ ftpFaults \in 0..MaxFtpFaults

\* A connection sends one file at a time, and is held exactly as long as some upload uses it: through
\* retries within retries, errors that are only logged and restarts, the pool neither shares a
\* connection nor loses one (FTPClientPool.js, nextConnection and uploadFile).
ConnectionsAreExclusive ==
    /\ isSending = {transfer[f].conn : f \in {g \in FtpFiles : transfer[g].step \in {"send", "retry"}}}
    /\ \A f, g \in FtpFiles : (f # g /\ transfer[f].conn = transfer[g].conn) => transfer[f].conn = Unset
=============================================================================
