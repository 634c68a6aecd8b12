------------------------------ MODULE DeviceRelay ------------------------------
(***************************************************************************)
(* The server's relay for the devices of one user: the actor of each       *)
(* WebSocket (device_link_ws.rs), the table of connections with the buffer *)
(* of events (device_connection_manager.rs), the sessions that can be      *)
(* resumed (relay_session_store.rs), and the part of a device's client     *)
(* that keeps its session and its place in the events.                     *)
(*                                                                         *)
(* The actors run on several worker threads: every access to a shared map  *)
(* under its own lock is a step of its own.                                *)
(***************************************************************************)
EXTENDS Naturals, FiniteSets, SequencesExt

CONSTANTS
    Desktops, Mobiles,  \* the user's devices
    Conns,              \* WebSockets; each is used once
    Messages,           \* events that devices send
    Transient,          \* those among them that are never buffered
    History,            \* those that tell of one session's history: the last one counts
    BufferCap,          \* MAX_BUFFERED_EVENTS
    MaxRestarts,        \* bound: ends of the server
    MaxExpiries,        \* bound: sessions that expire or are logged out
    Nobody

Devices == Desktops \cup Mobiles

ASSUME RelayAssumption ==
    /\ Desktops \cap Mobiles = {} /\ Nobody \notin Devices \cup Conns
    /\ Messages \cap (Conns \X {"online", "offline", "gap"}) = {}
    /\ Transient \subseteq Messages /\ History \subseteq Messages \ Transient
    /\ BufferCap \in Nat \ {0} /\ MaxRestarts \in Nat /\ MaxExpiries \in Nat

VARIABLES
    conn,      \* the actors
    table,     \* connections[user]: device -> connection
    seq,       \* event_sequences[user]
    id,        \* the number each event was given, 0 before
    buffer,    \* event_buffers[user]
    pub,       \* how far the broadcast of each event is
    source,    \* the device each event comes from, which does not hear of it
    store,     \* the sessions of RelaySessionStore, named by the connection that made them
    online,    \* user_devices.is_connected in the database
    offline,   \* connections whose set_offline task has not run
    client,    \* the connection each device's client uses
    creds,     \* the session each client has stored
    cursor,    \* the last event id each client has stored
    got,       \* the events each client has handled
    bounds     \* restarts and expiries so far

tableVars == <<table>>
eventVars == <<seq, id, buffer, pub, source>>
sessionVars == <<store, creds>>
statusVars == <<online, offline>>
clientVars == <<client, cursor, got>>
vars == <<conn, tableVars, eventVars, sessionVars, statusVars, clientVars, bounds>>

\* Besides what devices send, a connection that comes or goes is announced, and a
\* device that has missed too much is told so.
Events == Messages \cup (Conns \X {"online", "offline", "gap"})

NoEntry == [d \in Devices |-> Nobody]

NoSocket == [dev |-> Nobody, at |-> "new", resume |-> Nobody, last |-> 0, closing |-> FALSE,
           copy |-> <<>>, gap |-> FALSE, goesOnline |-> FALSE, inbox |-> <<>>]

Init ==
    /\ conn = [c \in Conns |-> NoSocket] /\ table = NoEntry
    /\ seq = 0 /\ id = [e \in Events |-> 0] /\ buffer = <<>>
    /\ pub = [e \in Events |-> "new"] /\ source = [e \in Events |-> Nobody]
    /\ store = {} /\ creds = [d \in Devices |-> Nobody]
    /\ online = [d \in Devices |-> FALSE] /\ offline = {}
    /\ client = [d \in Devices |-> Nobody] /\ cursor = [d \in Devices |-> 0]
    /\ got = [d \in Devices |-> {}]
    /\ bounds = [restarts |-> 0, expiries |-> 0]

-------------------------------------------------------------------------------
(* Sending.                                                                   *)

Gone == {"new", "removing", "emptied", "gone"}

\* The messages ms are put into the mailboxes of the devices ds, if they have a
\* connection in the table whose actor still runs.
Deliver(cs, ds, ms) ==
    LET to == {table[d] : d \in ds} \ {Nobody}
    IN  [c \in Conns |->
            IF c \in to /\ cs[c].at \notin Gone
            THEN [cs[c] EXCEPT !.inbox = @ \o ms] ELSE cs[c]]

\* The entries of b that are in S (SelectSeq, as a function the proofs can open).
Only(b, S) ==
    LET only[n \in 0 .. Len(b)] ==
            IF n = 0 THEN <<>> ELSE IF b[n] \in S THEN Append(only[n - 1], b[n]) ELSE only[n - 1]
    IN  only[Len(b)]

\* A mutant: nothing is evicted.
PushedForever(b, e, keep) == Append(Only(b, Events \ {e}), e)

\* The buffer after e was put in: older entries about the same history leave it, and
\* then the oldest ones, because of their number or of their age (keep).
Pushed(b, e, keep) ==
    LET rest == IF e \in History THEN Only(b, Events \ History) ELSE b
        all == Append(rest, e)
    IN  IF Len(all) <= keep THEN all ELSE SubSeq(all, Len(all) - keep + 1, Len(all))

\* An event of device d, or of the server about connection e[1], gets its number.
Number(e, d) ==
    /\ pub[e] = "new"
    /\ IF e \in Messages
       THEN \E c \in Conns : conn[c].dev = d /\ conn[c].at \in {"replay", "up"}
       ELSE /\ d = conn[e[1]].dev
            /\ \/ e[2] = "online" /\ conn[e[1]].at \in {"replay", "up"}
               \/ e[2] = "offline" /\ conn[e[1]].at \in {"removing", "emptied", "gone"}
    /\ seq' = seq + 1
    /\ id' = [id EXCEPT ![e] = seq + 1]
    /\ pub' = [pub EXCEPT ![e] = "numbered"]
    /\ source' = [source EXCEPT ![e] = d]
    /\ UNCHANGED <<conn, table, buffer, sessionVars, statusVars, clientVars, bounds>>

\* It is put into the buffer, unless it is of a kind that is not kept.
Record(e) ==
    /\ pub[e] = "numbered"
    /\ pub' = [pub EXCEPT ![e] = "recorded"]
    /\ IF e \in Transient THEN UNCHANGED buffer
       ELSE \E keep \in 1 .. BufferCap : buffer' = Pushed(buffer, e, keep)
    /\ UNCHANGED <<conn, table, seq, id, source, sessionVars, statusVars, clientVars, bounds>>

\* It is sent to the devices connected now, except its source.
Send(e) ==
    /\ pub[e] = "recorded"
    /\ pub' = [pub EXCEPT ![e] = "sent"]
    /\ conn' = Deliver(conn, Devices \ {source[e]}, <<e>>)
    /\ UNCHANGED <<table, seq, id, buffer, source, sessionVars, statusVars, clientVars, bounds>>

-------------------------------------------------------------------------------
(* A connection.                                                              *)

\* A client without a connection opens one and sends "register" with what it stored.
Connect(c, d) ==
    /\ conn[c].at = "new" /\ client[d] = Nobody
    /\ conn' = [conn EXCEPT ![c].dev = d, ![c].at = "open",
                            ![c].resume = creds[d], ![c].last = cursor[d]]
    /\ client' = [client EXCEPT ![d] = c]
    /\ UNCHANGED <<table, eventVars, sessionVars, statusVars, cursor, got, bounds>>

\* The session can be resumed: it is in the store, and of this device.
Resumable(c) ==
    \E s \in store : s = conn[c].resume /\ conn[s].dev = conn[c].dev

\* It cannot: the client is told so ...
Refuse(c) ==
    /\ conn[c].at = "open" /\ conn[c].resume # Nobody /\ ~Resumable(c)
    /\ conn' = [conn EXCEPT ![c].at = "refused"]
    /\ UNCHANGED <<table, eventVars, sessionVars, statusVars, clientVars, bounds>>

\* ... forgets the session, not its place in the events, and registers again.
RegisterAgain(c) ==
    LET d == conn[c].dev IN
    /\ conn[c].at = "refused" /\ client[d] = c
    /\ creds' = [creds EXCEPT ![d] = Nobody]
    /\ conn' = [conn EXCEPT ![c].at = "open", ![c].resume = Nobody, ![c].last = cursor[d]]
    /\ UNCHANGED <<table, eventVars, store, statusVars, clientVars, bounds>>

\* "register": the session is resumed or made, the client is answered and the
\* device's old connection, if the table has one, is told to close.
Register(c) ==
    LET d == conn[c].dev IN
    /\ conn[c].at = "open"
    /\ IF conn[c].resume = Nobody
       THEN /\ store' = store \cup {c}
            /\ creds' = IF client[d] = c THEN [creds EXCEPT ![d] = c] ELSE creds
       ELSE Resumable(c) /\ UNCHANGED sessionVars
    /\ conn' = [x \in Conns |->
                  IF x = c THEN [conn[c] EXCEPT !.at = "registering", !.goesOnline = TRUE]
                  ELSE [conn[x] EXCEPT !.closing = @ \/ table[d] = x]]
    /\ UNCHANGED <<table, eventVars, statusVars, clientVars, bounds>>

\* The new connection takes the device's place in the table.
Insert(c) ==
    LET d == conn[c].dev IN
    /\ conn[c].at = "registering"
    /\ table' = [table EXCEPT ![d] = c]
    /\ conn' = [conn EXCEPT ![c].at = IF d \in Desktops THEN "inserted" ELSE "replay"]
    /\ UNCHANGED <<eventVars, sessionVars, statusVars, clientVars, bounds>>

\* A mutant: only those that are up are closed.
DesktopsUp(d) == {x \in Desktops \ {d} : table[x] # Nobody /\ conn[table[x]].at = "up"}

\* The desktops whose connection a registration of desktop d closes.
OtherDesktops(d) == {x \in Desktops \ {d} : table[x] # Nobody}

\* A user has one desktop: the others are closed and leave the table.
CloseOtherDesktops(c) ==
    LET others == OtherDesktops(conn[c].dev) IN
    /\ conn[c].at = "inserted"
    /\ table' = [d \in Devices |-> IF d \in others THEN Nobody ELSE table[d]]
    /\ conn' = [x \in Conns |->
                  IF x = c THEN [conn[c] EXCEPT !.at = "replay"]
                  ELSE [conn[x] EXCEPT !.closing = @ \/ x \in {table[d] : d \in others}]]
    /\ UNCHANGED <<eventVars, sessionVars, statusVars, clientVars, bounds>>

\* A mutant: the first missed event is taken for the last seen one.
MissedLater(b, last) == Only(b, {e \in Events : id[e] > last + 1})

\* The events a device that has seen those up to last has missed.
Missed(b, last) == Only(b, {e \in Events : id[e] > last})

\* The replay begins with a copy of the buffer.
ReplayCopy(c) ==
    LET last == conn[c].last IN
    /\ conn[c].at = "replay"
    /\ conn' = [conn EXCEPT ![c].at = "replaying", ![c].copy = Missed(buffer, last),
                            ![c].gap = buffer # <<>> /\ 0 < last /\ last < id[Head(buffer)]]
    /\ UNCHANGED <<table, eventVars, sessionVars, statusVars, clientVars, bounds>>

\* The oldest event left is too new: the device is told, by an event like any other
\* (numbered, recorded and sent in one step here: only this device asks for it).
ReplayGap(c) ==
    LET e == <<c, "gap">> IN
    /\ conn[c].at = "replaying" /\ conn[c].gap
    /\ seq' = seq + 1 /\ id' = [id EXCEPT ![e] = seq + 1]
    /\ pub' = [pub EXCEPT ![e] = "private"]
    /\ \E keep \in 1 .. BufferCap : buffer' = Pushed(buffer, e, keep)
    /\ conn' = [Deliver(conn, {conn[c].dev}, <<e>>) EXCEPT ![c].gap = FALSE]
    /\ UNCHANGED <<table, source, sessionVars, statusVars, clientVars, bounds>>

\* The copied events go to the connection the device has now (looked up once here).
ReplaySend(c) ==
    /\ conn[c].at = "replaying" /\ ~conn[c].gap
    /\ conn' = [Deliver(conn, {conn[c].dev}, conn[c].copy) EXCEPT ![c].at = "up", ![c].copy = <<>>]
    /\ UNCHANGED <<table, eventVars, sessionVars, statusVars, clientVars, bounds>>

\* A mutant: a connection that stops before its replay is not cleaned up.
StopEarly(c) ==
    /\ conn[c].at \in {"open", "refused", "replay", "up"}
    /\ conn' = [conn EXCEPT ![c].at = IF conn[c].at = "up" THEN "removing" ELSE "gone",
                            ![c].goesOnline = FALSE]
    /\ offline' = IF conn[c].at = "up" THEN offline \cup {c} ELSE offline
    /\ UNCHANGED <<table, eventVars, sessionVars, online, clientVars, bounds>>

\* The actor stops: it was told to, its client closed the socket, or no heartbeat came.
\* What it has spawned in its own context ends with it; set_offline does not.
Stop(c) ==
    /\ conn[c].at \in {"open", "refused", "replay", "up"}
    /\ LET registered == conn[c].at \in {"replay", "up"} IN
       /\ conn' = [conn EXCEPT ![c].at = IF registered THEN "removing" ELSE "gone",
                               ![c].goesOnline = FALSE]
       /\ offline' = IF registered THEN offline \cup {c} ELSE offline
    /\ UNCHANGED <<table, eventVars, sessionVars, online, clientVars, bounds>>

\* remove_connection leaves the entry of a newer connection alone.
RemoveConnection(c) ==
    LET d == conn[c].dev
        emptied == \A x \in Devices \ {d} : table[x] = Nobody
    IN
    /\ conn[c].at = "removing"
    /\ table' = IF table[d] = c THEN [table EXCEPT ![d] = Nobody] ELSE table
    /\ conn' = [conn EXCEPT ![c].at = IF table[d] = c /\ emptied THEN "emptied" ELSE "gone"]
    /\ UNCHANGED <<eventVars, sessionVars, statusVars, clientVars, bounds>>

\* No device was left: the user's entry goes, with the devices it has by now.
RemoveUser(c) ==
    /\ conn[c].at = "emptied"
    /\ table' = NoEntry
    /\ conn' = [conn EXCEPT ![c].at = "gone"]
    /\ UNCHANGED <<eventVars, sessionVars, statusVars, clientVars, bounds>>

SetOnline(c) ==
    /\ conn[c].goesOnline
    /\ online' = [online EXCEPT ![conn[c].dev] = TRUE]
    /\ conn' = [conn EXCEPT ![c].goesOnline = FALSE]
    /\ UNCHANGED <<table, eventVars, sessionVars, offline, clientVars, bounds>>

SetOffline(c) ==
    /\ c \in offline
    /\ online' = [online EXCEPT ![conn[c].dev] = FALSE]
    /\ offline' = offline \ {c}
    /\ UNCHANGED <<conn, table, eventVars, sessionVars, clientVars, bounds>>

-------------------------------------------------------------------------------
(* Clients, sessions and the server's end.                                   *)

\* The client handles the next event, and stores its number now or with a later one.
Read(d) ==
    LET c == client[d]
        e == Head(conn[c].inbox)
    IN
    /\ c # Nobody /\ conn[c].inbox # <<>>
    /\ got' = [got EXCEPT ![d] = @ \cup {e}]
    /\ \/ UNCHANGED cursor
       \/ id[e] > cursor[d] /\ cursor' = [cursor EXCEPT ![d] = id[e]]
    /\ conn' = [conn EXCEPT ![c].inbox = Tail(@)]
    /\ UNCHANGED <<table, eventVars, sessionVars, statusVars, client, bounds>>

\* The client loses its connection, with what it has not read; the server may still
\* believe in it.
Disconnect(d) ==
    /\ client[d] # Nobody
    /\ client' = [client EXCEPT ![d] = Nobody]
    /\ UNCHANGED <<conn, table, eventVars, sessionVars, statusVars, cursor, got, bounds>>

\* Sessions end by their TTL, or all at once when the user logs out.
Expire(gone) ==
    /\ bounds.expiries < MaxExpiries
    /\ gone \in {{s} : s \in store} \cup ({store} \ {{}})
    /\ store' = store \ gone
    /\ bounds' = [bounds EXCEPT !.expiries = @ + 1]
    /\ UNCHANGED <<conn, table, eventVars, creds, statusVars, clientVars>>

\* Nothing of the relay survives the server's process, the numbers of the events neither.
ServerEnds ==
    /\ bounds.restarts < MaxRestarts
    /\ bounds' = [bounds EXCEPT !.restarts = @ + 1]
    /\ conn' = [c \in Conns |->
                  IF conn[c].at = "new" THEN conn[c]
                  ELSE [conn[c] EXCEPT !.at = "dead", !.goesOnline = FALSE, !.copy = <<>>, !.gap = FALSE]]
    /\ table' = NoEntry /\ seq' = 0 /\ buffer' = <<>> /\ store' = {} /\ offline' = {}
    /\ pub' = [e \in Events |->
                 IF \/ pub[e] \in {"numbered", "recorded"}
                    \/ e \notin Messages /\ pub[e] = "new" /\ conn[e[1]].at # "new"
                 THEN "lost" ELSE pub[e]]
    /\ UNCHANGED <<id, source, creds, online, clientVars>>

Next ==
    \/ \E e \in Events :
          \/ \E d \in Devices : Number(e, d)
          \/ Record(e)
          \/ Send(e)
    \/ \E c \in Conns :
          \/ \E d \in Devices : Connect(c, d)
          \/ Refuse(c)
          \/ RegisterAgain(c)
          \/ Register(c)
          \/ Insert(c)
          \/ CloseOtherDesktops(c)
          \/ ReplayCopy(c)
          \/ ReplayGap(c)
          \/ ReplaySend(c)
          \/ Stop(c)
          \/ RemoveConnection(c)
          \/ RemoveUser(c)
          \/ SetOnline(c)
          \/ SetOffline(c)
    \/ \E d \in Devices :
          \/ Read(d)
          \/ Disconnect(d)
    \/ \E gone \in SUBSET store : Expire(gone)
    \/ ServerEnds

Spec == Init /\ [][Next]_vars

-------------------------------------------------------------------------------
(* Properties.                                                                *)

RelayTypeOK ==
    /\ table \in [Devices -> Conns \cup {Nobody}]
    /\ pub \in [Events -> {"new", "numbered", "recorded", "sent", "private", "lost"}]
    /\ Len(buffer) <= BufferCap /\ store \subseteq Conns
    /\ \A i, j \in 1 .. Len(buffer) : i # j => buffer[i] # buffer[j]

\* Two desktops may register at once, or one while the other one leaves: when nobody is
\* in the middle of it, the table has one at most (register_connection).
OneDesktop ==
    (\A c \in Conns : conn[c].at # "inserted") =>
        Cardinality({d \in Desktops : table[d] # Nobody}) <= 1

\* An entry does not outlive its connection, whoever closed or replaced whom
\* (stopped, remove_connection).
NoStaleEntry ==
    \A d \in Devices : table[d] # Nobody => conn[table[d]].at \notin {"new", "emptied", "gone", "dead"}

\* A device that has been away and is back, its replay over, has been sent every event of
\* others that is still in the buffer and newer than those it had stored, however
\* the replay and the broadcasts overlap (send_buffered_events_since).
BufferedReachesDevice ==
    \A d \in Devices, e \in ToSet(buffer) :
        LET c == table[d] IN
        c # Nobody /\ conn[c].at = "up" /\ id[e] > conn[c].last /\ pub[e] = "sent" /\ source[e] # d
        => e \in got[d] \cup ToSet(conn[c].inbox)

\* A connection leaves the table because it ends or is told to, never because another
\* one ended (the comment of remove_connection).  The code does not keep this: the
\* user's entry is removed after it was found empty.
NewConnectionStays ==
    [][\A d \in Devices : table[d] # Nobody /\ table'[d] = Nobody =>
          LET c == table[d] IN conn[c].at \in Gone \/ conn'[c].closing \/ conn'[c].at = "dead"]_vars

\* A device that came back, its replay over, and has read everything it was sent has
\* handled every message between its first event and the number it has stored, or was
\* told of a gap.  The code does not keep this: numbers pass each other, and begin again
\* with the server.
NothingMissed ==
    \A d \in Devices, e \in Messages \ Transient :
        LET c == client[d]
            later == {x \in History : id[x] > id[e]}
        IN  c # Nobody /\ table[d] = c /\ conn[c].at = "up" /\ conn[c].inbox = <<>>
            /\ pub[e] = "sent" /\ source[e] # d /\ id[e] <= cursor[d] /\ 0 < conn[c].last
            /\ (\E g \in got[d] : id[g] < id[e])
            => \/ e \in got[d]
               \/ e \in History /\ later # {}
               \/ \E n \in got[d] : n \notin Messages /\ n[2] = "gap"

\* When nothing is under way, the database says of each device whether it has a
\* connection.  The code does not keep this: set_offline of the old connection runs
\* when it likes.
StatusFollowsTable ==
    offline = {} /\ (\A c \in Conns : conn[c].at \in {"new", "up", "gone"}
                        /\ ~conn[c].goesOnline /\ ~conn[c].closing)
    => \A d \in Devices : online[d] = (table[d] # Nobody)
================================================================================
