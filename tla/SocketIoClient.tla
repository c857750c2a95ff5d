---------------------------- MODULE SocketIoClient ----------------------------
(***************************************************************************)
(* SocketIoWebSocketClient of the TunerStudio plugin: connect, emit and    *)
(* close are synchronized; each connection starts a reader thread that     *)
(* answers pings and resets connected when its connection ends.  A reader  *)
(* reads the fields input and output and, for a close frame, writes        *)
(* connected without the monitor, and the monitor may be held for as long  *)
(* as a reconnection takes.                                                *)
(*                                                                         *)
(* Connections are numbered in the order they are opened; reader c is the  *)
(* one started for connection c.  0 is Java's null.                        *)
(***************************************************************************)
EXTENDS Naturals

CONSTANTS
    Callers,            \* the threads that call emit and close
    MaxConnections      \* bound on the number of connections opened

ASSUME MaxConnectionsAssumption == MaxConnections \in Nat
ASSUME CallersAssumption == "free" \notin Callers

VARIABLES
    monitor,    \* the caller inside a synchronized method, or Free
    place,      \* place[t]: where caller t stands
    retrying,   \* the caller is in the catch clause of emit
    socket, input, output, connected,       \* the fields
    reader,     \* reader[c]: where reader c stands
    stream,     \* stream[c]: the connection reader c reads from
    \* LIVI and the network
    peer,       \* peer[c]: "none", "up", "ended" (end of stream), "gone" (silent)
    sockets,    \* number of connections opened
    closed,     \* the connections closed by this client
    \* history
    spurned,    \* connections for which a reader of another one reset connected
    shared      \* connections that a reader of an earlier one reads from

Connections == 1..MaxConnections
Null == 0
Free == "free"

fields == <<socket, input, output, connected>>
readerVars == <<reader, stream>>
networkVars == <<peer, sockets, closed>>
monitorVars == <<monitor, place, retrying>>
historyVars == <<spurned, shared>>
clientVars == <<monitorVars, fields, readerVars, networkVars, historyVars>>

ClientInit ==
    /\ monitor = Free
    /\ place = [t \in Callers |-> "idle"]
    /\ retrying = FALSE
    /\ socket = Null
    /\ input = Null
    /\ output = Null
    /\ connected = FALSE
    /\ reader = [c \in Connections |-> "none"]
    /\ stream = [c \in Connections |-> Null]
    /\ peer = [c \in Connections |-> "none"]
    /\ sockets = 0
    /\ closed = {}
    /\ spurned = {}
    /\ shared = {}

------------------------------------------------------------------------------
(* connect, emit, close *)

IsAt(t, l) == monitor = t /\ place[t] = l

MoveTo(t, l) ==
    /\ place' = [place EXCEPT ![t] = l]
    /\ UNCHANGED monitor

\* The synchronized method returns or throws.
Leave(t) ==
    /\ place' = [place EXCEPT ![t] = "idle"]
    /\ monitor' = Free

\* Fault: emit always connects.
BeginEmitConnecting(t) ==
    /\ monitor = Free
    /\ place[t] = "idle"
    /\ monitor' = t
    /\ place' = [place EXCEPT ![t] = "connect"]
    /\ retrying' = FALSE
    /\ UNCHANGED <<fields, readerVars, networkVars, historyVars>>

\* emit: if (!connected) connect()
BeginEmit(t) ==
    /\ monitor = Free
    /\ place[t] = "idle"
    /\ monitor' = t
    /\ place' = [place EXCEPT ![t] = IF connected THEN "write" ELSE "connect"]
    /\ retrying' = FALSE
    /\ UNCHANGED <<fields, readerVars, networkVars, historyVars>>

\* Fault: closeSocketOnly forgets the socket without closing it.
DropSocketOnly ==
    /\ connected' = FALSE
    /\ socket' = Null /\ input' = Null /\ output' = Null
    /\ UNCHANGED closed

CloseSocketOnly ==
    /\ connected' = FALSE
    /\ closed' = closed \cup ({socket} \ {Null})
    /\ socket' = Null /\ input' = Null /\ output' = Null

\* connect begins: the old connection is closed before the new one is tried.
ConnectCloses(t) ==
    /\ IsAt(t, "connect")
    /\ CloseSocketOnly
    /\ MoveTo(t, "open")
    /\ UNCHANGED <<retrying, readerVars, peer, sockets, historyVars>>

\* The TCP connection fails.  The new Socket stays in the field socket, but has
\* no connection: as good as null.
ConnectRefused(t) ==
    /\ IsAt(t, "open")
    /\ Leave(t)
    /\ UNCHANGED <<retrying, fields, readerVars, networkVars, historyVars>>

\* The fields are those of a new connection; the HTTP upgrade is sent.
ConnectOpens(t) ==
    /\ IsAt(t, "open")
    /\ sockets < MaxConnections
    /\ LET c == sockets + 1 IN
       /\ sockets' = c
       /\ peer' = [peer EXCEPT ![c] = "up"]
       /\ socket' = c /\ input' = c /\ output' = c
    /\ MoveTo(t, "handshake")
    /\ UNCHANGED <<retrying, connected, closed, readerVars, historyVars>>

\* The upgrade or a handshake fails or times out: the socket stays open and in
\* its field until the next connect or close.
HandshakeFails(t) ==
    /\ IsAt(t, "handshake")
    /\ Leave(t)
    /\ UNCHANGED <<retrying, fields, readerVars, networkVars, historyVars>>

\* Fault: the reader thread is only started for the first connection.
HandshakeNoReader(t) ==
    /\ IsAt(t, "handshake")
    /\ peer[socket] = "up"
    /\ connected' = TRUE
    /\ reader' = [reader EXCEPT ![socket] = IF socket = 1 THEN "fetch" ELSE "none"]
    /\ stream' = [stream EXCEPT ![socket] = socket]
    /\ MoveTo(t, "write")
    /\ UNCHANGED <<retrying, socket, input, output, networkVars, historyVars>>

\* connected = true; startReaderThread(); then emit goes on to write.
Handshake(t) ==
    /\ IsAt(t, "handshake")
    /\ peer[socket] = "up"
    /\ connected' = TRUE
    /\ reader' = [reader EXCEPT ![socket] = "fetch"]
    /\ stream' = [stream EXCEPT ![socket] = socket]
    /\ MoveTo(t, "write")
    /\ UNCHANGED <<retrying, socket, input, output, networkVars, historyVars>>

\* writeTextFrame returns; the system accepts data even for a lost connection.
WritePayload(t) ==
    /\ IsAt(t, "write")
    /\ Leave(t)
    /\ UNCHANGED <<retrying, fields, readerVars, networkVars, historyVars>>

\* writeTextFrame throws: connect and write again, once.
WriteFails(t) ==
    /\ IsAt(t, "write")
    /\ peer[output] # "up"
    /\ \/ /\ ~retrying
          /\ retrying' = TRUE
          /\ connected' = FALSE
          /\ MoveTo(t, "connect")
       \/ /\ retrying
          /\ Leave(t)
          /\ UNCHANGED <<retrying, connected>>
    /\ UNCHANGED <<socket, input, output, readerVars, networkVars, historyVars>>

\* close(), with its last message, whose failure is ignored.
CloseByCaller(t) ==
    /\ monitor = Free
    /\ place[t] = "idle"
    /\ CloseSocketOnly
    /\ UNCHANGED <<monitorVars, readerVars, peer, sockets, historyVars>>

InsideMonitor(t) ==
    \/ ConnectCloses(t) \/ ConnectRefused(t) \/ ConnectOpens(t)
    \/ HandshakeFails(t) \/ Handshake(t) \/ WritePayload(t) \/ WriteFails(t)

------------------------------------------------------------------------------
(* readLoop of reader c *)

ReaderGoes(c, from, to) ==
    /\ reader[c] = from
    /\ reader' = [reader EXCEPT ![c] = to]

\* readFrame(input).  The field is read without the monitor, so that the reader
\* may see null, as during a connect, or still the stream it had before.  With
\* null a NullPointerException ends the thread.
Fetch(c) ==
    \E i \in {input, stream[c]} \cup (IF input = stream[c] THEN {} ELSE {Null}) :
        /\ ReaderGoes(c, "fetch", IF i = Null THEN "dead" ELSE "read")
        /\ stream' = [stream EXCEPT ![c] = i]
        /\ shared' = shared \cup ({i} \ {c, Null})
        /\ UNCHANGED <<monitorVars, fields, networkVars, spurned>>

StreamOpen(c) ==
    /\ reader[c] = "read"
    /\ stream[c] \notin closed
    /\ peer[stream[c]] = "up"

OutputLost == output \notin {c \in Connections : peer[c] = "up"}

\* A message of no interest.
ReadMessage(c) ==
    /\ StreamOpen(c)
    /\ ReaderGoes(c, "read", "fetch")
    /\ UNCHANGED <<stream, monitorVars, fields, networkVars, historyVars>>

\* A WebSocket ping (opcode 9), answered without the monitor.
ReadOpcode9(c) ==
    /\ StreamOpen(c)
    /\ ReaderGoes(c, "read", "answer")
    /\ UNCHANGED <<stream, monitorVars, fields, networkVars, historyVars>>

Answer(c) ==
    /\ output # Null
    /\ ReaderGoes(c, "answer", "fetch")
    /\ UNCHANGED <<stream, monitorVars, fields, networkVars, historyVars>>

\* The answer cannot be written: output is null by now, still that of a closed
\* connection, or that of a lost one.
AnswerFails(c) ==
    /\ ReaderGoes(c, "answer", "reset")
    /\ OutputLost \/ stream[c] \in closed
    /\ UNCHANGED <<stream, monitorVars, fields, networkVars, historyVars>>

\* Two readers of one stream take bytes out of each other's frames: a length can
\* be anything, an IOException or an exception that ends the thread at once.
ReadGarbled(c) ==
    /\ StreamOpen(c)
    /\ stream[c] \in shared
    /\ \E to \in {"reset", "dead"} : ReaderGoes(c, "read", to)
    /\ UNCHANGED <<stream, monitorVars, fields, networkVars, historyVars>>

\* The Engine.IO ping "2".
ReadPing(c) ==
    /\ StreamOpen(c)
    /\ ReaderGoes(c, "read", "pong")
    /\ UNCHANGED <<stream, monitorVars, fields, networkVars, historyVars>>

Spurned(c) == IF connected /\ c # socket THEN spurned \cup {socket} ELSE spurned

\* A close frame: connected is reset at once, without the monitor.
ReadCloseFrame(c) ==
    /\ StreamOpen(c)
    /\ ReaderGoes(c, "read", "reset")
    /\ connected' = FALSE
    /\ peer' = [peer EXCEPT ![stream[c]] = "ended"]
    /\ spurned' = Spurned(stream[c])
    /\ UNCHANGED <<stream, monitorVars, socket, input, output, sockets, closed, shared>>

\* The read fails or finds the end of the stream: the stream is closed, has
\* ended, or was in its handshake, when reads have a timeout, as the read began.
ReadFails(c) ==
    /\ ReaderGoes(c, "read", "reset")
    /\ \/ stream[c] \in closed
       \/ peer[stream[c]] = "ended"
       \/ stream[c] # c
    /\ UNCHANGED <<stream, monitorVars, fields, networkVars, historyVars>>

\* Fault: the thread ends without resetting connected.
EndSilently(c) ==
    /\ monitor = Free
    /\ ReaderGoes(c, "reset", "dead")
    /\ UNCHANGED <<stream, monitorVars, fields, networkVars, historyVars>>

\* synchronized (this) { connected = false }, and the thread ends.
Reset(c) ==
    /\ monitor = Free
    /\ ReaderGoes(c, "reset", "dead")
    /\ connected' = FALSE
    /\ spurned' = Spurned(c)
    /\ UNCHANGED <<stream, monitorVars, socket, input, output, networkVars, shared>>

\* synchronized (this) { if (connected) writeTextFrame("3") }
Pong(c) ==
    /\ monitor = Free
    /\ ReaderGoes(c, "pong", "fetch")
    /\ UNCHANGED <<stream, monitorVars, fields, networkVars, historyVars>>

PongFails(c) ==
    /\ monitor = Free
    /\ connected
    /\ OutputLost
    /\ ReaderGoes(c, "pong", "reset")
    /\ UNCHANGED <<stream, monitorVars, fields, networkVars, historyVars>>

Reader(c) ==
    \/ Fetch(c) \/ ReadMessage(c) \/ ReadOpcode9(c) \/ Answer(c) \/ AnswerFails(c)
    \/ ReadGarbled(c) \/ ReadPing(c) \/ ReadCloseFrame(c) \/ ReadFails(c)
    \/ Reset(c) \/ Pong(c) \/ PongFails(c)

------------------------------------------------------------------------------
\* LIVI ends a connection, or becomes unreachable without ending it.
Lose(c) ==
    /\ peer[c] = "up"
    /\ \E s \in {"ended", "gone"} : peer' = [peer EXCEPT ![c] = s]
    /\ UNCHANGED <<monitorVars, fields, readerVars, sockets, closed, historyVars>>

ClientNext ==
    \/ \E t \in Callers : BeginEmit(t) \/ InsideMonitor(t) \/ CloseByCaller(t)
    \/ \E c \in Connections : Reader(c) \/ Lose(c)

ClientSpec == ClientInit /\ [][ClientNext]_clientVars

\* While LIVI takes what it is sent, socket operations time out or return, so the
\* monitor is given back; the flush timer leaves it free between two runs, so a
\* reader gets it in the end.
FairClientSpec ==
    /\ ClientSpec
    /\ \A t \in Callers : WF_clientVars(InsideMonitor(t))
    /\ \A c \in Connections : WF_clientVars(Fetch(c)) /\ WF_clientVars(ReadFails(c))
                              /\ WF_clientVars(Answer(c) \/ AnswerFails(c))
                              /\ SF_clientVars(Reset(c)) /\ SF_clientVars(Pong(c) \/ PongFails(c))

------------------------------------------------------------------------------
(* Properties *)

\* Every variable has its type.
ClientTypeOK ==
    /\ monitor \in Callers \cup {Free}
    /\ place \in [Callers -> {"idle", "connect", "open", "handshake", "write"}]
    /\ retrying \in BOOLEAN
    /\ {socket, input, output} \subseteq Connections \cup {Null}
    /\ connected \in BOOLEAN
    /\ reader \in [Connections -> {"none", "fetch", "read", "answer", "pong", "reset", "dead"}]
    /\ stream \in [Connections -> Connections \cup {Null}]
    /\ peer \in [Connections -> {"none", "up", "ended", "gone"}]
    /\ sockets \in 0..MaxConnections
    /\ closed \subseteq 1..sockets
    /\ spurned \cup shared \subseteq 1..sockets

\* However connect, emit, close and the readers interleave, and wherever a
\* connect fails, every connection but the one in the field socket is closed.
NoConnectionLeaks == \A c \in 1..sockets : c \in closed \/ c = socket

\* A connected client has its own reader at work, which answers LIVI's pings,
\* or one that is about to reset connected, unless the reader of an earlier
\* connection came to read from this one too.
ConnectedIsWatched ==
    connected /\ socket \notin shared =>
        /\ socket # Null /\ input = socket /\ output = socket
        /\ socket \notin closed
        /\ \/ reader[socket] \in {"fetch", "reset"}
           \/ reader[socket] \in {"read", "answer", "pong"} /\ stream[socket] = socket

\* A reader blocked on a stream that is no longer the current one wakes: no
\* reader waits for ever on a connection that was replaced.
NoReaderLeftBehind ==
    \A c \in Connections :
        reader[c] = "read" /\ stream[c] # input => stream[c] \in closed

\* A connection that works is replaced only because of a reader of an earlier
\* one: it reset connected late, when it got the monitor after the reconnection,
\* or read from the new connection.
ReplacedOnlyWhenSpurned ==
    [][\A c \in closed' \ closed :
         peer[c] = "up" /\ reader[c] # "none" /\ place' # place => c \in spurned \cup shared]_clientVars

\* A connection that LIVI ends is given up, even if nothing is emitted, unless
\* the reader of an earlier one took bytes from it.
EndedIsGivenUp ==
    \A c \in Connections :
        connected /\ socket = c /\ peer[c] = "ended"
            ~> ~connected \/ socket # c \/ c \in shared
==============================================================================
