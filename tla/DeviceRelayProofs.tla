--------------------------- MODULE DeviceRelayProofs ----------------------------
(***************************************************************************)
(* The relay for any number of devices, connections and events.  Its table   *)
(* of connections: one desktop at a time, and no entry without its           *)
(* connection.  Its buffer of events: what is in it has reached every device *)
(* that is connected and was meant to have it.                               *)
(***************************************************************************)
EXTENDS DeviceRelay, SequenceLemmas

\* The places of a connection that may be in the table.
Entered == {"inserted", "replay", "replaying", "up", "removing"}

\* An entry of the table is a connection of that device that has not left.
EntriesLive ==
    \A d \in Devices : table[d] # Nobody =>
        table[d] \in Conns /\ conn[table[d]].dev = d /\ conn[table[d]].at \in Entered

\* Two desktops are in the table only while one is about to close the others.
Crowded ==
    \A d, e \in Desktops : table[d] # Nobody /\ table[e] # Nobody /\ d # e =>
        \E c \in Conns : conn[c].at = "inserted"

\* What is needed of the type of an actor.
Shaped(cs) == DOMAIN cs = Conns /\ \A c \in Conns : "dev" \in DOMAIN cs[c] /\ "at" \in DOMAIN cs[c]

RInv ==
    /\ table \in [Devices -> Conns \cup {Nobody}]
    /\ Shaped(conn)
    /\ \A c \in Conns : conn[c].at # "new" => conn[c].dev \in Devices
    /\ EntriesLive /\ Crowded

\* Messages change no more of an actor than its mailbox.
LEMMA Delivered ==
    ASSUME NEW cs, NEW ds, NEW ms, NEW c \in Conns, Shaped(cs)
    PROVE  /\ Deliver(cs, ds, ms)[c].dev = cs[c].dev /\ Deliver(cs, ds, ms)[c].at = cs[c].at
           /\ Shaped(Deliver(cs, ds, ms))
BY DEF Deliver, Shaped

LEMMA InitRInv == Init => RInv
<1> SUFFICES ASSUME Init PROVE RInv
  OBVIOUS
<1>1. /\ table = NoEntry /\ Shaped(conn)
      /\ \A d \in Devices : table[d] = Nobody
      /\ \A c \in Conns : conn[c].at = "new"
  BY DEF Init, NoSocket, NoEntry, Shaped
<1>2. Desktops \subseteq Devices
  BY DEF Devices
<1>. QED
  BY <1>1, <1>2 DEF NoEntry, RInv, EntriesLive, Crowded

\* Steps that leave the table alone: no connection in it leaves its place but for another
\* one of those that may be there, and none ends the closing of the other desktops.
LEMMA TableStays ==
    ASSUME RInv, table' = table, Shaped(conn)',
           \A c \in Conns :
              /\ conn'[c].at # "new" => conn'[c].dev \in Devices
              /\ conn[c].at \in Entered => conn'[c].dev = conn[c].dev /\ conn'[c].at \in Entered
              /\ conn[c].at = "inserted" => conn'[c].at = "inserted"
    PROVE  RInv'
BY DEF RInv, EntriesLive, Crowded

\* The steps of events, clients and sessions.
LEMMA MessageSteps ==
    ASSUME RInv,
           \/ \E e \in Events : (\E d \in Devices : Number(e, d)) \/ Record(e) \/ Send(e)
           \/ \E d \in Devices : Read(d) \/ Disconnect(d)
           \/ \E gone \in SUBSET store : Expire(gone)
           \/ UNCHANGED vars
    PROVE  RInv'
<1>1. Shaped(conn) /\ \A c \in Conns : conn[c].at # "new" => conn[c].dev \in Devices
  BY DEF RInv
<1>2. table' = table
  BY DEF Number, Record, Send, Read, Disconnect, Expire, vars, tableVars
<1>3. Shaped(conn)' /\ \A c \in Conns : conn'[c].dev = conn[c].dev /\ conn'[c].at = conn[c].at
  <2>1. CASE \E e \in Events : Send(e)
    <3>1. PICK e \in Events : conn' = Deliver(conn, Devices \ {source[e]}, <<e>>)
      BY <2>1 DEF Send
    <3>2. ASSUME NEW c \in Conns
          PROVE  /\ conn'[c].dev = conn[c].dev /\ conn'[c].at = conn[c].at
                 /\ "dev" \in DOMAIN conn'[c] /\ "at" \in DOMAIN conn'[c]
      BY <1>1, <3>1, Delivered DEF Shaped
    <3>3. DOMAIN conn' = Conns
      BY <3>1 DEF Deliver
    <3>. QED
      BY <3>2, <3>3 DEF Shaped
  <2>2. CASE \E d \in Devices : Read(d)
    <3>1. PICK d \in Devices : conn' = [conn EXCEPT ![client[d]].inbox = Tail(@)]
      BY <2>2 DEF Read
    <3>. QED
      BY <1>1, <3>1 DEF Shaped
  <2>3. CASE conn' = conn
    BY <1>1, <2>3 DEF Shaped
  <2>. QED
    BY <2>1, <2>2, <2>3 DEF Number, Record, Disconnect, Expire, vars
<1>. QED
  BY <1>1, <1>2, <1>3, TableStays

\* The steps of a connection that leave the table alone.
LEMMA ConnSteps ==
    ASSUME RInv, NEW c \in Conns,
           \/ \E d \in Devices : Connect(c, d)
           \/ Refuse(c) \/ RegisterAgain(c) \/ Register(c) \/ ReplayCopy(c) \/ ReplayGap(c)
           \/ ReplaySend(c) \/ Stop(c) \/ SetOnline(c) \/ SetOffline(c)
    PROVE  RInv'
<1>1. Shaped(conn) /\ \A x \in Conns : conn[x].at # "new" => conn[x].dev \in Devices
  BY DEF RInv
<1>2. CASE \E d \in Devices : Connect(c, d)
  <2>1. PICK d \in Devices : Connect(c, d)
    BY <1>2
  <2>2. /\ table' = table /\ conn[c].at = "new" /\ Shaped(conn)'
        /\ conn'[c].dev = d /\ conn'[c].at = "open"
        /\ \A x \in Conns \ {c} : conn'[x] = conn[x]
    BY <1>1, <2>1 DEF Connect, Shaped
  <2>. QED
    BY <1>1, <2>2, TableStays DEF Entered
<1>3. CASE Refuse(c) \/ RegisterAgain(c)
  <2>1. /\ table' = table /\ conn[c].at \in {"open", "refused"} /\ Shaped(conn)'
        /\ conn'[c].dev = conn[c].dev
        /\ \A x \in Conns \ {c} : conn'[x] = conn[x]
    BY <1>1, <1>3 DEF Refuse, RegisterAgain, Shaped
  <2>. QED
    BY <1>1, <2>1, TableStays DEF Entered
<1>4. CASE Register(c)
  <2>1. /\ table' = table /\ conn[c].at = "open" /\ Shaped(conn)'
        /\ \A x \in Conns : conn'[x].dev = conn[x].dev
        /\ \A x \in Conns \ {c} : conn'[x].at = conn[x].at
    BY <1>1, <1>4 DEF Register, Shaped
  <2>. QED
    BY <1>1, <2>1, TableStays DEF Entered
<1>5. CASE ReplayCopy(c)
  <2>1. /\ table' = table /\ conn[c].at = "replay" /\ Shaped(conn)'
        /\ conn'[c].dev = conn[c].dev /\ conn'[c].at = "replaying"
        /\ \A x \in Conns \ {c} : conn'[x] = conn[x]
    BY <1>1, <1>5 DEF ReplayCopy, Shaped
  <2>. QED
    BY <1>1, <2>1, TableStays DEF Entered
<1>6. CASE ReplayGap(c)
  <2> DEFINE sent == Deliver(conn, {conn[c].dev}, <<<<c, "gap">>>>)
  <2>1. table' = table /\ conn' = [sent EXCEPT ![c].gap = FALSE]
    BY <1>6 DEF ReplayGap
  <2>2. Shaped(sent) /\ \A x \in Conns : sent[x].dev = conn[x].dev /\ sent[x].at = conn[x].at
    BY <1>1, Delivered
  <2>. HIDE DEF sent
  <2>3. Shaped(conn)' /\ \A x \in Conns : conn'[x].dev = conn[x].dev /\ conn'[x].at = conn[x].at
    BY <2>1, <2>2 DEF Shaped
  <2>. QED
    BY <1>1, <2>1, <2>3, TableStays
<1>7. CASE ReplaySend(c)
  <2> DEFINE sent == Deliver(conn, {conn[c].dev}, conn[c].copy)
  <2>1. /\ table' = table /\ conn' = [sent EXCEPT ![c].at = "up", ![c].copy = <<>>]
        /\ conn[c].at = "replaying"
    BY <1>7 DEF ReplaySend
  <2>2. Shaped(sent) /\ \A x \in Conns : sent[x].dev = conn[x].dev /\ sent[x].at = conn[x].at
    BY <1>1, Delivered
  <2>. HIDE DEF sent
  <2>3. /\ Shaped(conn)' /\ \A x \in Conns : conn'[x].dev = conn[x].dev
        /\ conn'[c].at = "up" /\ \A x \in Conns \ {c} : conn'[x].at = conn[x].at
    BY <2>1, <2>2 DEF Shaped
  <2>. QED
    BY <1>1, <2>1, <2>3, TableStays DEF Entered
<1>8. CASE Stop(c)
  <2>1. /\ table' = table /\ conn[c].at \in {"open", "refused", "replay", "up"} /\ Shaped(conn)'
        /\ conn'[c].dev = conn[c].dev
        /\ conn[c].at \in {"replay", "up"} => conn'[c].at = "removing"
        /\ \A x \in Conns \ {c} : conn'[x] = conn[x]
    BY <1>1, <1>8 DEF Stop, Shaped
  <2>. QED
    BY <1>1, <2>1, TableStays DEF Entered
<1>9. CASE SetOnline(c) \/ SetOffline(c)
  <2>1. /\ table' = table /\ Shaped(conn)'
        /\ \A x \in Conns : conn'[x].dev = conn[x].dev /\ conn'[x].at = conn[x].at
    BY <1>1, <1>9 DEF SetOnline, SetOffline, Shaped
  <2>. QED
    BY <1>1, <2>1, TableStays
<1>. QED
  BY <1>2, <1>3, <1>4, <1>5, <1>6, <1>7, <1>8, <1>9

\* The new connection takes its device's place; a desktop goes on to close the others.
LEMMA InsertStep ==
    ASSUME RInv, NEW c \in Conns, Insert(c)
    PROVE  RInv'
<1> DEFINE d == conn[c].dev
<1>1. /\ conn[c].at = "registering" /\ d \in Devices
      /\ table' = [table EXCEPT ![d] = c]
      /\ conn' = [conn EXCEPT ![c].at = IF d \in Desktops THEN "inserted" ELSE "replay"]
  BY DEF Insert, RInv
<1>2. /\ Shaped(conn)' /\ \A x \in Conns : conn'[x].dev = conn[x].dev
      /\ conn'[c].at = (IF d \in Desktops THEN "inserted" ELSE "replay")
      /\ \A x \in Conns \ {c} : conn'[x] = conn[x]
  BY <1>1 DEF RInv, Shaped
<1>3. /\ table' \in [Devices -> Conns \cup {Nobody}] /\ table'[d] = c
      /\ \A e \in Devices \ {d} : table'[e] = table[e]
  BY <1>1 DEF RInv
<1>4. \A e \in Devices : table[e] # c
  BY <1>1, RelayAssumption DEF RInv, EntriesLive, Entered
<1>. HIDE DEF d
<1>5. EntriesLive'
  BY <1>1, <1>2, <1>3, <1>4, RelayAssumption DEF RInv, EntriesLive, Entered, d
<1>6. Crowded'
  <2>1. CASE d \in Desktops
    BY <1>2, <2>1 DEF Crowded
  <2>2. CASE d \notin Desktops
    <3>1. \A x \in Conns : conn[x].at = "inserted" => conn'[x].at = "inserted"
      BY <1>1, <1>2
    <3>2. \A e \in Desktops : table'[e] = table[e]
      BY <1>3, <2>2 DEF Devices
    <3>. QED
      BY <3>1, <3>2 DEF RInv, Crowded
  <2>. QED
    BY <2>1, <2>2
<1>. QED
  BY <1>1, <1>2, <1>3, <1>5, <1>6 DEF RInv

LEMMA CloseStep ==
    ASSUME RInv, NEW c \in Conns, CloseOtherDesktops(c)
    PROVE  RInv'
<1> DEFINE d == conn[c].dev
           others == OtherDesktops(d)
<1>1. /\ conn[c].at = "inserted" /\ d \in Devices
      /\ table' = [x \in Devices |-> IF x \in others THEN Nobody ELSE table[x]]
      /\ Shaped(conn)'
      /\ \A x \in Conns : conn'[x].dev = conn[x].dev
      /\ conn'[c].at = "replay" /\ \A x \in Conns \ {c} : conn'[x].at = conn[x].at
  BY DEF CloseOtherDesktops, RInv, Shaped
<1>2. /\ table' \in [Devices -> Conns \cup {Nobody}]
      /\ \A e \in Devices : table'[e] # Nobody => table'[e] = table[e]
  BY <1>1 DEF RInv
<1>3. \A e \in Desktops : table'[e] # Nobody => e = d
  BY <1>1 DEF OtherDesktops, Devices
<1>4. EntriesLive'
  BY <1>1, <1>2 DEF RInv, EntriesLive, Entered
<1>5. Crowded'
  BY <1>3 DEF Crowded
<1>. QED
  BY <1>1, <1>2, <1>4, <1>5 DEF RInv

\* A connection leaves, and with it its entry, or the whole of an empty table.
LEMMA RemoveSteps ==
    ASSUME RInv, NEW c \in Conns, RemoveConnection(c) \/ RemoveUser(c)
    PROVE  RInv'
<1> DEFINE d == conn[c].dev
<1>1. /\ conn[c].at \in {"removing", "emptied"} /\ d \in Devices
      /\ Shaped(conn)'
      /\ \A x \in Conns : conn'[x].dev = conn[x].dev
      /\ \A x \in Conns \ {c} : conn'[x].at = conn[x].at
  BY DEF RemoveConnection, RemoveUser, RInv, Shaped
<1>2. /\ table' \in [Devices -> Conns \cup {Nobody}]
      /\ \A e \in Devices : table'[e] # Nobody => table'[e] = table[e]
      /\ \A e \in Devices : table'[e] # Nobody => table[e] # c
  <2>1. CASE RemoveConnection(c)
    <3>1. \A e \in Devices : table[e] = c => e = d
      BY RelayAssumption DEF RInv, EntriesLive
    <3>2. \/ table' = [table EXCEPT ![d] = Nobody] /\ table[d] = c
          \/ table' = table /\ table[d] # c
      BY <2>1 DEF RemoveConnection
    <3>. QED
      BY <1>1, <3>1, <3>2 DEF RInv
  <2>2. CASE RemoveUser(c)
    BY <2>2 DEF RemoveUser, NoEntry
  <2>. QED
    BY <2>1, <2>2
<1>3. EntriesLive'
  BY <1>1, <1>2 DEF RInv, EntriesLive
<1>4. Crowded'
  BY <1>1, <1>2 DEF RInv, Crowded, Devices
<1>. QED
  BY <1>1, <1>2, <1>3, <1>4 DEF RInv

LEMMA ServerEndsStep ==
    ASSUME RInv, ServerEnds
    PROVE  RInv'
<1>1. /\ table' = NoEntry /\ Shaped(conn)'
      /\ \A c \in Conns : \/ conn[c].at = "new" /\ conn'[c] = conn[c]
                          \/ conn[c].at # "new" /\ conn'[c].dev = conn[c].dev
  BY DEF ServerEnds, RInv, Shaped
<1>2. table' \in [Devices -> Conns \cup {Nobody}] /\ \A d \in Devices : table'[d] = Nobody
  BY <1>1 DEF NoEntry
<1>3. Desktops \subseteq Devices
  BY DEF Devices
<1>. QED
  BY <1>1, <1>2, <1>3 DEF RInv, EntriesLive, Crowded

LEMMA NextRInv == RInv /\ [Next]_vars => RInv'
<1> SUFFICES ASSUME RInv, [Next]_vars PROVE RInv'
  OBVIOUS
<1>. QED
  BY MessageSteps, ConnSteps, InsertStep, CloseStep, RemoveSteps, ServerEndsStep DEF Next

\* The invariant of every reachable state: every entry of the table is of a connection that is
\* there, and two desktops have entries only while one of them is being registered.
THEOREM RelayInvariant == Spec => []RInv
<1>. QED
  BY InitRInv, NextRInv, PTL DEF Spec

\* While nobody is in the middle of a registration, the table has one desktop at most.
THEOREM OneDesktopOnly == Spec => []OneDesktop
<1>1. RInv => OneDesktop
  <2> SUFFICES ASSUME RInv, \A c \in Conns : conn[c].at # "inserted"
               PROVE  Cardinality({d \in Desktops : table[d] # Nobody}) <= 1
    BY DEF OneDesktop
  <2> DEFINE present == {d \in Desktops : table[d] # Nobody}
  <2>1. \A d, e \in present : d = e
    BY DEF RInv, Crowded
  <2>2. CASE present = {}
    BY <2>2, FS_EmptySet
  <2>3. CASE present # {}
    <3>1. PICK d \in present : TRUE
      BY <2>3
    <3>2. present = {d}
      BY <2>1, <3>1
    <3>. HIDE DEF present
    <3>3. Cardinality(present) = 1
      BY <3>2, FS_Singleton
    <3>. QED
      BY <3>3 DEF present
  <2>. QED
    BY <2>2, <2>3
<1>. QED
  BY <1>1, RelayInvariant, PTL

\* An entry of the table does not outlive its connection.
THEOREM NoStaleEntries == Spec => []NoStaleEntry
<1>1. RInv => NoStaleEntry
  BY DEF RInv, EntriesLive, Entered, NoStaleEntry
<1>. QED
  BY <1>1, RelayInvariant, PTL

-------------------------------------------------------------------------------
(* The buffer and what the devices have of it.                               *)

\* What is needed of the type of an actor's mailbox and of its copy of the buffer.
Mailed(cs) ==
    /\ DOMAIN cs = Conns
    /\ \A c \in Conns :
          /\ {"dev", "at", "last", "gap", "copy", "inbox"} \subseteq DOMAIN cs[c]
          /\ cs[c].copy \in Seq(Events) /\ cs[c].inbox \in Seq(Events)

\* No element twice.
Different(b) == \A i, j \in 1 .. Len(b) : i # j => b[i] # b[j]

\* The types of what is sent and kept.
EventTypes ==
    /\ Mailed(conn)
    /\ seq \in Nat /\ id \in [Events -> Nat]
    /\ pub \in [Events -> {"new", "numbered", "recorded", "sent", "private", "lost"}]
    /\ DOMAIN source = Events /\ DOMAIN got = Devices
    /\ buffer \in Seq(Events) /\ Len(buffer) <= BufferCap
    /\ store \subseteq Conns

\* A client's connection is one of its device.
ClientsKnown ==
    /\ DOMAIN client = Devices
    /\ \A d \in Devices : client[d] # Nobody =>
          client[d] \in Conns /\ conn[client[d]].at # "new" /\ conn[client[d]].dev = d

\* The places of a connection before its replay.
Early == {"new", "open", "refused", "registering", "inserted", "replay"}

\* An event is put into the buffer once: not before it has its number, and a gap only by the
\* one replay of its connection, which is still to come or has found the gap.
BufferedOnce ==
    /\ Different(buffer)
    /\ \A e \in ToSet(buffer) : pub[e] \notin {"new", "numbered"}
    /\ \A c \in Conns :
          conn[c].gap \/ conn[c].at \in Early
          => pub[<<c, "gap">>] = "new"

\* What a device has, or has on its way: from its replay on, its copy of the buffer too.
Held(d, c) ==
    got[d] \cup ToSet(conn[c].inbox) \cup
    (IF conn[c].at = "replaying" THEN ToSet(conn[c].copy) ELSE {})

\* From the moment the buffer was copied for its connection, a device lacks no event of others that
\* is in the buffer, was sent, and is newer than those it had stored.
Reached ==
    \A d \in Devices, e \in ToSet(buffer) :
        /\ table[d] # Nobody /\ conn[table[d]].at \in {"replaying", "up"}
        /\ id[e] > conn[table[d]].last /\ pub[e] = "sent" /\ source[e] # d
        => e \in Held(d, table[d])

\* All of it.
Kept == EventTypes /\ ClientsKnown /\ BufferedOnce /\ Reached

\* What Append adds.
LEMMA AppendedSet ==
    ASSUME NEW A, NEW a \in Seq(A), NEW x \in A
    PROVE  ToSet(Append(a, x)) = ToSet(a) \cup {x}
  <1>1. /\ Append(a, x) \in Seq(A) /\ Len(a) \in Nat /\ Len(Append(a, x)) = Len(a) + 1
        /\ Append(a, x)[Len(a) + 1] = x
        /\ \A i \in 1..Len(a) : Append(a, x)[i] = a[i]
    OBVIOUS
  <1>2. DOMAIN Append(a, x) = (1..Len(a)) \cup {Len(a) + 1} /\ DOMAIN a = 1..Len(a)
    BY <1>1
  <1> DEFINE t == Append(a, x)
  <1> HIDE DEF t
  <1>3. \A i \in DOMAIN t : t[i] \in ToSet(a) \cup {x}
    BY <1>1, <1>2 DEF ToSet, t
  <1>4. \A y \in ToSet(a) \cup {x} : \E i \in DOMAIN t : y = t[i]
    BY <1>1, <1>2 DEF ToSet, t
  <1> QED
    BY <1>3, <1>4 DEF ToSet, t

\* A new element keeps the elements different.
LEMMA AppendedDifferent ==
    ASSUME NEW A, NEW a \in Seq(A), NEW x \in A, Different(a), x \notin ToSet(a)
    PROVE  Different(Append(a, x))
  <1>1. /\ Append(a, x) \in Seq(A) /\ Len(a) \in Nat /\ Len(Append(a, x)) = Len(a) + 1
        /\ Append(a, x)[Len(a) + 1] = x
        /\ \A i \in 1..Len(a) : Append(a, x)[i] = a[i] /\ a[i] # x
    BY DEF ToSet
  <1> QED
    BY <1>1 DEF Different

\* What Only returns: the elements of b that are in S, none twice that b has once.
LEMMA OnlyIs ==
    ASSUME NEW b \in Seq(Events), NEW S
    PROVE  /\ Only(b, S) \in Seq(Events) /\ Len(Only(b, S)) <= Len(b)
           /\ ToSet(Only(b, S)) = ToSet(b) \cap S
           /\ Different(b) => Different(Only(b, S))
  <1> DEFINE A == Events
             Add(a, e) == IF e \in S THEN Append(a, e) ELSE a
             F == [p \in Seq(A) \X (1..Len(b)) |-> Add(p[1], b[p[2]])]
             G(f) == f = [n \in 0..Len(b) |-> IF n = 0 THEN <<>> ELSE Add(f[n - 1], b[n])]
             only == CHOOSE f : G(f)
  <1>0. Len(b) \in Nat /\ \A n \in 1..Len(b) : b[n] \in A
    OBVIOUS
  <1>1. Only(b, S) = only[Len(b)]
    BY DEF Only
  <1> HIDE DEF A
  <1>2. F \in [Seq(A) \X (1..Len(b)) -> Seq(A)]
    <2>1. \A p \in Seq(A) \X (1..Len(b)) : p[1] \in Seq(A) /\ b[p[2]] \in A
      BY <1>0
    <2>2. \A a \in Seq(A), e \in A : Add(a, e) \in Seq(A)
      OBVIOUS
    <2>3. \A p \in Seq(A) \X (1..Len(b)) : Add(p[1], b[p[2]]) \in Seq(A)
      <3> HIDE DEF Add
      <3> QED
        BY <2>1, <2>2
    <2> QED
      BY <2>3
  <1>3. \A a \in Seq(A) : \A k \in 1..Len(b) : F[<<a, k>>] = Add(a, b[k])
    OBVIOUS
  <1> HIDE DEF F
  <1>4. PICK f \in [0..Len(b) -> Seq(A)] : IsFold(f, <<>>, F, Len(b))
    <2>1. <<>> \in Seq(A)
      OBVIOUS
    <2> QED
      BY <1>0, <1>2, <2>1, FoldExists
  <1>5. G(f)
    <2>1. ASSUME NEW n \in 0..Len(b)
          PROVE (IF n = 0 THEN <<>> ELSE F[<<f[n - 1], n>>])
                  = (IF n = 0 THEN <<>> ELSE Add(f[n - 1], b[n]))
      <3>1. CASE n = 0
        BY <3>1
      <3>2. CASE n # 0
        <4>1. n \in 1..Len(b) /\ n - 1 \in 0..Len(b)
          BY <1>0, <3>2
        <4>2. f[n - 1] \in Seq(A)
          BY <4>1
        <4>3. F[<<f[n - 1], n>>] = Add(f[n - 1], b[n])
          BY <1>3, <4>1, <4>2
        <4> QED
          BY <3>2, <4>3
      <3> QED
        BY <3>1, <3>2
    <2> QED
      BY <1>4, <2>1 DEF IsFold
  <1>6. G(only)
    BY <1>5
  <1> HIDE DEF only
  <1>7. 0 \in 0..Len(b) /\ 1..Len(b) \subseteq 0..Len(b)
    BY <1>0
  <1>8. /\ only[0] = <<>>
        /\ \A n \in 1..Len(b) : only[n] = Add(only[n - 1], b[n])
    <2> HIDE DEF Add
    <2> QED
      BY <1>6, <1>7
  <1> DEFINE Pre(n) == {b[k] : k \in 1..n}
             T == {n \in Nat : n <= Len(b) =>
                     /\ only[n] \in Seq(A) /\ Len(only[n]) <= n
                     /\ ToSet(only[n]) = Pre(n) \cap S
                     /\ Different(b) => Different(only[n])}
  <1>9. 0 \in T
    <2>1. <<>> \in Seq(A) /\ Len(<<>>) = 0 /\ ToSet(<<>>) = {} /\ Different(<<>>)
      BY DEF ToSet, Different
    <2>2. Pre(0) = {}
      OBVIOUS
    <2>3. ToSet(only[0]) = Pre(0) \cap S
      BY <1>8, <2>1, <2>2
    <2>4. 0 \in Nat /\ only[0] \in Seq(A) /\ Len(only[0]) <= 0 /\ Different(only[0])
      BY <1>8, <2>1
    <2> HIDE DEF Pre
    <2> QED
      BY <2>3, <2>4
  <1>10. ASSUME NEW n \in Nat, n \in T PROVE n + 1 \in T
    <2>1. SUFFICES ASSUME n + 1 <= Len(b)
                   PROVE  /\ only[n + 1] \in Seq(A) /\ Len(only[n + 1]) <= n + 1
                          /\ ToSet(only[n + 1]) = Pre(n + 1) \cap S
                          /\ Different(b) => Different(only[n + 1])
      OBVIOUS
    <2>2. n <= Len(b) /\ n + 1 \in 1..Len(b) /\ n + 1 - 1 = n
      BY <1>0, <2>1
    <2>3. PICK a \in Seq(A) : a = only[n]
      BY <1>10, <2>2
    <2>4. Len(a) <= n /\ ToSet(a) = Pre(n) \cap S /\ (Different(b) => Different(a))
      BY <1>10, <2>2, <2>3
    <2>5. PICK x \in A : x = b[n + 1]
      BY <1>0, <2>2
    <2>6. only[n + 1] = IF x \in S THEN Append(a, x) ELSE a
      <3>1. PICK m \in 1..Len(b) : m = n + 1
        BY <2>2
      <3>2. m - 1 = n /\ only[m] = Add(only[m - 1], b[m])
        <4> HIDE DEF Add
        <4> QED
          BY <1>8, <2>2, <3>1
      <3> QED
        BY <3>1, <3>2, <2>3, <2>5
    <2>7. Pre(n + 1) = Pre(n) \cup {x}
      <3>1. 1..(n + 1) = (1..n) \cup {n + 1}
        OBVIOUS
      <3> QED
        BY <3>1, <2>5
    <2>8. Different(b) => x \notin Pre(n)
      <3>1. \A k \in 1..n : k \in 1..Len(b) /\ k # n + 1
        BY <1>0, <2>2
      <3> QED
        BY <2>2, <2>5, <3>1 DEF Different
    <2>9. CASE x \in S
      <3>1. Append(a, x) \in Seq(A) /\ Len(Append(a, x)) = Len(a) + 1
        OBVIOUS
      <3>2. ToSet(Append(a, x)) = ToSet(a) \cup {x}
        BY AppendedSet
      <3>3. Different(a) /\ x \notin ToSet(a) => Different(Append(a, x))
        BY AppendedDifferent
      <3> HIDE DEF Pre
      <3>4. Len(a) \in Nat
        OBVIOUS
      <3> QED
        BY <2>9, <2>4, <2>6, <2>7, <2>8, <3>1, <3>2, <3>3, <3>4
    <2>10. CASE x \notin S
      <3> HIDE DEF Pre
      <3>1. Len(a) \in Nat
        OBVIOUS
      <3> QED
        BY <2>10, <2>3, <2>4, <2>6, <2>7, <3>1
    <2> QED
      BY <2>9, <2>10
  <1> HIDE DEF T
  <1>11. Len(b) \in T
    BY <1>0, <1>9, <1>10, SetInduction
  <1>12. ToSet(b) = Pre(Len(b))
    BY DEF ToSet
  <1>13. /\ only[Len(b)] \in Seq(A) /\ Len(only[Len(b)]) <= Len(b)
         /\ ToSet(only[Len(b)]) = Pre(Len(b)) \cap S
         /\ Different(b) => Different(only[Len(b)])
    BY <1>0, <1>11 DEF T
  <1> QED
    BY <1>1, <1>12, <1>13 DEF A

\* A concatenation has the elements of both.
LEMMA ConcatenatedSet ==
    ASSUME NEW a \in Seq(Events), NEW b \in Seq(Events)
    PROVE  a \o b \in Seq(Events) /\ ToSet(a) \subseteq ToSet(a \o b) /\ ToSet(b) \subseteq ToSet(a \o b)
  <1>1. /\ a \o b \in Seq(Events) /\ Len(a \o b) = Len(a) + Len(b) /\ Len(a) \in Nat /\ Len(b) \in Nat
        /\ \A i \in 1..Len(a) : (a \o b)[i] = a[i]
        /\ \A i \in 1..Len(b) : (a \o b)[Len(a) + i] = b[i]
    OBVIOUS
  <1>2. \A i \in 1..Len(a) : i \in 1..Len(a \o b)
    BY <1>1
  <1>3. \A i \in 1..Len(b) : Len(a) + i \in 1..Len(a \o b)
    BY <1>1
  <1>4. DOMAIN a = 1..Len(a) /\ DOMAIN b = 1..Len(b) /\ DOMAIN (a \o b) = 1..Len(a \o b)
    BY <1>1
  <1>5. ToSet(a) \subseteq ToSet(a \o b)
    BY <1>1, <1>2, <1>4 DEF ToSet
  <1>6. ToSet(b) \subseteq ToSet(a \o b)
    BY <1>1, <1>3, <1>4 DEF ToSet
  <1> QED
    BY <1>1, <1>5, <1>6

\* The end of a sequence, from position m on.
LEMMA EndOfSequence ==
    ASSUME NEW a \in Seq(Events), NEW m \in 1..Len(a)
    PROVE  /\ SubSeq(a, m, Len(a)) \in Seq(Events) /\ Len(SubSeq(a, m, Len(a))) = Len(a) - m + 1
           /\ ToSet(SubSeq(a, m, Len(a))) \subseteq ToSet(a)
           /\ Different(a) => Different(SubSeq(a, m, Len(a)))
  <1> DEFINE t == SubSeq(a, m, Len(a))
  <1>1. /\ t \in Seq(Events) /\ Len(t) = Len(a) - m + 1 /\ Len(a) \in Nat
        /\ \A i \in 1..(Len(a) - m + 1) : t[i] = a[m + i - 1]
    BY SubSeqProperties
  <1> HIDE DEF t
  <1>2. \A i \in 1..(Len(a) - m + 1) : m + i - 1 \in 1..Len(a)
    BY <1>1
  <1>3. DOMAIN t = 1..(Len(a) - m + 1) /\ DOMAIN a = 1..Len(a)
    BY <1>1
  <1>4. ToSet(t) \subseteq ToSet(a)
    BY <1>1, <1>2, <1>3 DEF ToSet
  <1>5. ASSUME Different(a) PROVE Different(t)
    <2>1. \A i, j \in 1..(Len(a) - m + 1) : i # j => m + i - 1 # m + j - 1
      BY <1>1
    <2> QED
      BY <1>1, <1>2, <1>5, <2>1 DEF Different
  <1> QED
    BY <1>1, <1>4, <1>5 DEF t

\* The buffer after e was put in: within its capacity, nothing but e new, and different elements
\* if e is not there yet.
LEMMA PushedIs ==
    ASSUME NEW b \in Seq(Events), NEW e \in Events, NEW keep \in 1..BufferCap
    PROVE  /\ Pushed(b, e, keep) \in Seq(Events) /\ Len(Pushed(b, e, keep)) <= BufferCap
           /\ ToSet(Pushed(b, e, keep)) \subseteq ToSet(b) \cup {e}
           /\ Different(b) /\ e \notin ToSet(b) => Different(Pushed(b, e, keep))
  <1> DEFINE rest == IF e \in History THEN Only(b, Events \ History) ELSE b
             all == Append(rest, e)
  <1>1. rest \in Seq(Events) /\ ToSet(rest) \subseteq ToSet(b) /\ (Different(b) => Different(rest))
    BY OnlyIs
  <1>2. Pushed(b, e, keep) = IF Len(all) <= keep THEN all ELSE SubSeq(all, Len(all) - keep + 1, Len(all))
    BY DEF Pushed
  <1> HIDE DEF rest
  <1>3. all \in Seq(Events) /\ Len(all) \in Nat
    BY <1>1
  <1>4. ToSet(all) = ToSet(rest) \cup {e}
    BY <1>1, AppendedSet
  <1>5. Different(rest) /\ e \notin ToSet(rest) => Different(all)
    BY <1>1, AppendedDifferent
  <1> HIDE DEF all
  <1>6. keep \in Nat /\ keep >= 1 /\ keep <= BufferCap /\ BufferCap \in Nat
    BY RelayAssumption
  <1>7. CASE Len(all) <= keep
    BY <1>1, <1>2, <1>3, <1>4, <1>5, <1>6, <1>7
  <1>8. CASE ~(Len(all) <= keep)
    <2>0. Len(all) - keep + 1 \in 1..Len(all)
      BY <1>3, <1>6, <1>8
    <2>1. PICK m \in 1..Len(all) : m = Len(all) - keep + 1
      BY <2>0
    <2>2. Pushed(b, e, keep) = SubSeq(all, m, Len(all))
      BY <1>2, <1>8, <2>1
    <2>3. Len(all) - m + 1 = keep
      BY <1>3, <1>6, <2>1
    <2>4. /\ SubSeq(all, m, Len(all)) \in Seq(Events) /\ Len(SubSeq(all, m, Len(all))) = Len(all) - m + 1
          /\ ToSet(SubSeq(all, m, Len(all))) \subseteq ToSet(all)
          /\ Different(all) => Different(SubSeq(all, m, Len(all)))
      BY <1>3, EndOfSequence
    <2> QED
      BY <1>1, <1>4, <1>5, <1>6, <2>2, <2>3, <2>4
  <1> QED
    BY <1>7, <1>8

\* The missed events are all those of the buffer above the number.
LEMMA MissedIs ==
    ASSUME NEW b \in Seq(Events), NEW last
    PROVE  /\ Missed(b, last) \in Seq(Events)
           /\ \A e \in ToSet(b) : id[e] > last => e \in ToSet(Missed(b, last))
  <1>1. ToSet(b) \subseteq Events
    BY DEF ToSet
  <1>2. /\ Missed(b, last) \in Seq(Events)
        /\ ToSet(Missed(b, last)) = ToSet(b) \cap {e \in Events : id[e] > last}
    BY OnlyIs DEF Missed
  <1> QED
    BY <1>1, <1>2

\* A message goes to the mailboxes of the connections in the table that still run, and
\* changes nothing else.
LEMMA DeliveredTo ==
    ASSUME NEW cs, Mailed(cs), NEW ds, NEW ms \in Seq(Events)
    PROVE  /\ Mailed(Deliver(cs, ds, ms))
           /\ \A c \in Conns :
                 LET x == Deliver(cs, ds, ms)[c] IN
                 /\ x.dev = cs[c].dev /\ x.at = cs[c].at /\ x.last = cs[c].last
                 /\ x.gap = cs[c].gap /\ x.copy = cs[c].copy
                 /\ ToSet(cs[c].inbox) \subseteq ToSet(x.inbox)
           /\ \A d \in ds : table[d] # Nobody /\ table[d] \in Conns /\ cs[table[d]].at \notin Gone
                 => ToSet(ms) \subseteq ToSet(Deliver(cs, ds, ms)[table[d]].inbox)
  <1> DEFINE to == {table[d] : d \in ds} \ {Nobody}
             sent == Deliver(cs, ds, ms)
  <1>1. sent = [c \in Conns |-> IF c \in to /\ cs[c].at \notin Gone
                               THEN [cs[c] EXCEPT !.inbox = @ \o ms] ELSE cs[c]]
    BY DEF Deliver
  <1>2. \A d \in ds : table[d] # Nobody => table[d] \in to
    OBVIOUS
  <1> HIDE DEF to, sent
  <1>3. ASSUME NEW c \in Conns
        PROVE  /\ {"dev", "at", "last", "gap", "copy", "inbox"} \subseteq DOMAIN sent[c]
               /\ sent[c].copy \in Seq(Events) /\ sent[c].inbox \in Seq(Events)
               /\ sent[c].dev = cs[c].dev /\ sent[c].at = cs[c].at /\ sent[c].last = cs[c].last
               /\ sent[c].gap = cs[c].gap /\ sent[c].copy = cs[c].copy
               /\ ToSet(cs[c].inbox) \subseteq ToSet(sent[c].inbox)
               /\ c \in to /\ cs[c].at \notin Gone => ToSet(ms) \subseteq ToSet(sent[c].inbox)
    <2>1. /\ {"dev", "at", "last", "gap", "copy", "inbox"} \subseteq DOMAIN cs[c]
          /\ cs[c].copy \in Seq(Events) /\ cs[c].inbox \in Seq(Events)
      BY DEF Mailed
    <2>2. CASE c \in to /\ cs[c].at \notin Gone
      <3>1. sent[c] = [cs[c] EXCEPT !.inbox = cs[c].inbox \o ms]
        BY <1>1, <2>2
      <3>2. sent[c].inbox = cs[c].inbox \o ms /\ DOMAIN sent[c] = DOMAIN cs[c]
        BY <2>1, <3>1
      <3>3. /\ sent[c].dev = cs[c].dev /\ sent[c].at = cs[c].at /\ sent[c].last = cs[c].last
            /\ sent[c].gap = cs[c].gap /\ sent[c].copy = cs[c].copy
        BY <2>1, <3>1
      <3>4. /\ cs[c].inbox \o ms \in Seq(Events) /\ ToSet(cs[c].inbox) \subseteq ToSet(cs[c].inbox \o ms)
            /\ ToSet(ms) \subseteq ToSet(cs[c].inbox \o ms)
        BY <2>1, ConcatenatedSet
      <3> QED
        BY <2>1, <3>2, <3>3, <3>4
    <2>3. CASE ~(c \in to /\ cs[c].at \notin Gone)
      <3>1. sent[c] = cs[c]
        BY <1>1, <2>3
      <3> QED
        BY <2>1, <2>3, <3>1
    <2> QED
      BY <2>2, <2>3
  <1>4. Mailed(sent)
    BY <1>1, <1>3 DEF Mailed
  <1> QED
    BY <1>2, <1>3, <1>4 DEF sent

\* Steps that leave the events alone.
LEMMA Quiet ==
    ASSUME RInv, RInv', Kept, eventVars' = eventVars, got' = got, store' \subseteq Conns, Mailed(conn)',
           DOMAIN client' = Devices,
           \A d \in Devices :
              \/ client'[d] \in {Nobody, client[d]}
              \/ client'[d] \in Conns /\ conn'[client'[d]].at # "new" /\ conn'[client'[d]].dev = d,
           \A c \in Conns :
              /\ conn'[c].gap = conn[c].gap /\ conn'[c].inbox = conn[c].inbox /\ conn'[c].copy = conn[c].copy
              /\ conn[c].at # "new" => conn'[c].at # "new" /\ conn'[c].dev = conn[c].dev
              /\ conn'[c].at \in Early => conn[c].at \in Early
              /\ conn'[c].at \in {"replaying", "up"} => conn'[c].at = conn[c].at /\ conn'[c].last = conn[c].last,
           \A d \in Devices : table'[d] # Nobody /\ table'[d] # table[d] =>
              conn'[table'[d]].at \notin {"replaying", "up"}
    PROVE  Kept'
<1>1. /\ seq' = seq /\ id' = id /\ buffer' = buffer /\ pub' = pub /\ source' = source
  BY DEF eventVars
<1>2. EventTypes'
  BY <1>1 DEF Kept, EventTypes
<1>3. ClientsKnown'
  BY <1>1 DEF Kept, ClientsKnown
<1>4. BufferedOnce'
  <2>1. Different(buffer)' /\ \A e \in ToSet(buffer)' : pub'[e] \notin {"new", "numbered"}
    BY <1>1 DEF Kept, BufferedOnce, Different
  <2>2. \A c \in Conns : conn'[c].gap \/ conn'[c].at \in Early => pub'[<<c, "gap">>] = "new"
    BY <1>1 DEF Kept, BufferedOnce, Early
  <2> QED
    BY <2>1, <2>2 DEF BufferedOnce, Early
<1>5. Reached'
  <2> SUFFICES ASSUME NEW d \in Devices, NEW e \in ToSet(buffer)',
                      table'[d] # Nobody, conn'[table'[d]].at \in {"replaying", "up"},
                      id'[e] > conn'[table'[d]].last, pub'[e] = "sent", source'[e] # d
               PROVE  e \in Held(d, table[d])'
    BY DEF Reached
  <2>1. table'[d] = table[d] /\ table[d] \in Conns
    BY DEF RInv
  <2>2. PICK c \in Conns : c = table[d]
    BY <2>1
  <2>3. conn'[c].at = conn[c].at /\ conn'[c].last = conn[c].last
    BY <2>1, <2>2
  <2>4. e \in Held(d, c)
    BY <1>1, <2>1, <2>2, <2>3 DEF Kept, Reached
  <2>5. conn'[c].inbox = conn[c].inbox /\ conn'[c].copy = conn[c].copy /\ got'[d] = got[d]
    BY <2>2
  <2>6. e \in Held(d, c)'
    BY <2>3, <2>4, <2>5 DEF Held
  <2> QED
    BY <2>1, <2>2, <2>6 DEF Held
<1> QED
  BY <1>2, <1>3, <1>4, <1>5 DEF Kept

\* It holds at first.
LEMMA InitKept == Init => Kept
<1> SUFFICES ASSUME Init PROVE Kept
  OBVIOUS
<1>1. /\ conn = [c \in Conns |-> NoSocket] /\ buffer = <<>> /\ ToSet(buffer) = {}
  BY DEF Init, ToSet
<1>2. Mailed(conn)
  <2>1. <<>> \in Seq(Events)
    OBVIOUS
  <2> QED
    BY <1>1, <2>1 DEF Mailed, NoSocket
<1>3. EventTypes
  BY <1>1, <1>2, RelayAssumption DEF Init, EventTypes
<1>4. ClientsKnown
  BY DEF Init, ClientsKnown
<1>5. BufferedOnce
  <2>1. \A c \in Conns : <<c, "gap">> \in Events
    BY DEF Events
  <2> QED
    BY <1>1, <2>1 DEF Init, BufferedOnce, Different
<1>6. Reached
  BY <1>1 DEF Reached
<1> QED
  BY <1>3, <1>4, <1>5, <1>6 DEF Kept

\* The steps of a connection, a client or a session that tell nobody of an event.
LEMMA QuietSteps ==
    ASSUME RInv, RInv', Kept,
           \/ \E c \in Conns :
                 \/ \E d \in Devices : Connect(c, d)
                 \/ Refuse(c) \/ RegisterAgain(c) \/ Register(c) \/ Insert(c) \/ CloseOtherDesktops(c)
                 \/ Stop(c) \/ RemoveConnection(c) \/ RemoveUser(c) \/ SetOnline(c) \/ SetOffline(c)
           \/ \E d \in Devices : Disconnect(d)
           \/ \E gone \in SUBSET store : Expire(gone)
           \/ UNCHANGED vars
    PROVE  Kept'
<1>1. /\ Mailed(conn) /\ store \subseteq Conns /\ DOMAIN client = Devices
      /\ table \in [Devices -> Conns \cup {Nobody}]
  BY DEF Kept, EventTypes, ClientsKnown, RInv
<1>2. CASE \E c \in Conns, d \in Devices : Connect(c, d)
  <2>1. PICK c \in Conns, d \in Devices : Connect(c, d)
    BY <1>2
  <2>2. /\ conn[c].at = "new"
        /\ conn' = [conn EXCEPT ![c].dev = d, ![c].at = "open", ![c].resume = creds[d], ![c].last = cursor[d]]
        /\ client' = [client EXCEPT ![d] = c]
        /\ table' = table /\ eventVars' = eventVars /\ store' = store /\ got' = got
    BY <2>1 DEF Connect, sessionVars
  <2>3. /\ Mailed(conn)' /\ \A x \in Conns \ {c} : conn'[x] = conn[x]
        /\ conn'[c].gap = conn[c].gap /\ conn'[c].inbox = conn[c].inbox /\ conn'[c].copy = conn[c].copy
        /\ conn'[c].at = "open" /\ conn'[c].dev = d
    BY <1>1, <2>2 DEF Mailed
  <2>4. DOMAIN client' = Devices /\ client'[d] = c /\ \A x \in Devices \ {d} : client'[x] = client[x]
    BY <1>1, <2>2
  <2> QED
    BY <1>1, <2>2, <2>3, <2>4, Quiet DEF Early
<1>3. CASE \E c \in Conns : Refuse(c) \/ RegisterAgain(c)
  <2>1. PICK c \in Conns : Refuse(c) \/ RegisterAgain(c)
    BY <1>3
  <2>2. /\ conn[c].at \in {"open", "refused"}
        /\ \/ conn' = [conn EXCEPT ![c].at = "refused"]
           \/ conn' = [conn EXCEPT ![c].at = "open", ![c].resume = Nobody, ![c].last = cursor[conn[c].dev]]
        /\ client' = client
        /\ table' = table /\ eventVars' = eventVars /\ store' = store /\ got' = got
    BY <2>1 DEF Refuse, RegisterAgain, sessionVars, clientVars
  <2>3. /\ Mailed(conn)' /\ \A x \in Conns \ {c} : conn'[x] = conn[x]
        /\ conn'[c].gap = conn[c].gap /\ conn'[c].inbox = conn[c].inbox /\ conn'[c].copy = conn[c].copy
        /\ conn'[c].at \in {"open", "refused"} /\ conn'[c].dev = conn[c].dev
    <3>1. CASE conn' = [conn EXCEPT ![c].at = "refused"]
      BY <1>1, <3>1 DEF Mailed
    <3>2. CASE conn' = [conn EXCEPT ![c].at = "open", ![c].resume = Nobody, ![c].last = cursor[conn[c].dev]]
      BY <1>1, <3>2 DEF Mailed
    <3> QED
      BY <2>2, <3>1, <3>2
  <2> QED
    BY <1>1, <2>2, <2>3, Quiet DEF Early
<1>4. CASE \E c \in Conns : Register(c)
  <2>1. PICK c \in Conns : Register(c)
    BY <1>4
  <2>2. /\ conn[c].at = "open"
        /\ conn' = [x \in Conns |->
                  IF x = c THEN [conn[c] EXCEPT !.at = "registering", !.goesOnline = TRUE]
                  ELSE [conn[x] EXCEPT !.closing = @ \/ table[conn[c].dev] = x]]
        /\ client' = client /\ store' \subseteq Conns
        /\ table' = table /\ eventVars' = eventVars /\ got' = got
    BY <1>1, <2>1 DEF Register, sessionVars, clientVars
  <2>3. /\ Mailed(conn)'
        /\ \A x \in Conns : /\ conn'[x].gap = conn[x].gap /\ conn'[x].inbox = conn[x].inbox
                            /\ conn'[x].copy = conn[x].copy /\ conn'[x].dev = conn[x].dev
                            /\ conn'[x].last = conn[x].last
        /\ conn'[c].at = "registering" /\ \A x \in Conns \ {c} : conn'[x].at = conn[x].at
    BY <1>1, <2>2 DEF Mailed
  <2> QED
    BY <1>1, <2>2, <2>3, Quiet DEF Early
<1>5. CASE \E c \in Conns : Insert(c)
  <2>1. PICK c \in Conns : Insert(c)
    BY <1>5
  <2>2. /\ conn[c].at = "registering" /\ table' = [table EXCEPT ![conn[c].dev] = c]
        /\ conn' = [conn EXCEPT ![c].at = IF conn[c].dev \in Desktops THEN "inserted" ELSE "replay"]
        /\ client' = client /\ store' = store /\ eventVars' = eventVars /\ got' = got
    BY <2>1 DEF Insert, sessionVars, clientVars
  <2>3. /\ Mailed(conn)' /\ \A x \in Conns \ {c} : conn'[x] = conn[x]
        /\ conn'[c].gap = conn[c].gap /\ conn'[c].inbox = conn[c].inbox /\ conn'[c].copy = conn[c].copy
        /\ conn'[c].at \in {"inserted", "replay"} /\ conn'[c].dev = conn[c].dev
    BY <1>1, <2>2 DEF Mailed
  <2>4. \A d \in Devices : table'[d] \in {c, table[d]}
    BY <1>1, <2>2
  <2> QED
    BY <1>1, <2>2, <2>3, <2>4, Quiet DEF Early
<1>6. CASE \E c \in Conns : CloseOtherDesktops(c)
  <2>1. PICK c \in Conns : CloseOtherDesktops(c)
    BY <1>6
  <2> DEFINE others == OtherDesktops(conn[c].dev)
  <2>2. /\ conn[c].at = "inserted"
        /\ table' = [d \in Devices |-> IF d \in others THEN Nobody ELSE table[d]]
        /\ conn' = [x \in Conns |->
                  IF x = c THEN [conn[c] EXCEPT !.at = "replay"]
                  ELSE [conn[x] EXCEPT !.closing = @ \/ x \in {table[d] : d \in others}]]
        /\ client' = client /\ store' = store /\ eventVars' = eventVars /\ got' = got
    BY <2>1 DEF CloseOtherDesktops, sessionVars, clientVars
  <2> HIDE DEF others
  <2>3. /\ Mailed(conn)'
        /\ \A x \in Conns : /\ conn'[x].gap = conn[x].gap /\ conn'[x].inbox = conn[x].inbox
                            /\ conn'[x].copy = conn[x].copy /\ conn'[x].dev = conn[x].dev
                            /\ conn'[x].last = conn[x].last
        /\ conn'[c].at = "replay" /\ \A x \in Conns \ {c} : conn'[x].at = conn[x].at
    BY <1>1, <2>2 DEF Mailed
  <2>4. \A d \in Devices : table'[d] \in {Nobody, table[d]}
    BY <1>1, <2>2
  <2> QED
    BY <1>1, <2>2, <2>3, <2>4, Quiet DEF Early
<1>7. CASE \E c \in Conns : Stop(c)
  <2>1. PICK c \in Conns : Stop(c)
    BY <1>7
  <2>2. /\ conn[c].at # "new"
        /\ \E s \in {"removing", "gone"} : conn' = [conn EXCEPT ![c].at = s, ![c].goesOnline = FALSE]
        /\ client' = client /\ store' = store /\ table' = table /\ eventVars' = eventVars /\ got' = got
    BY <2>1 DEF Stop, sessionVars, clientVars
  <2>3. /\ Mailed(conn)' /\ \A x \in Conns \ {c} : conn'[x] = conn[x]
        /\ conn'[c].gap = conn[c].gap /\ conn'[c].inbox = conn[c].inbox /\ conn'[c].copy = conn[c].copy
        /\ conn'[c].at \in {"removing", "gone"} /\ conn'[c].dev = conn[c].dev
    BY <1>1, <2>2 DEF Mailed
  <2> QED
    BY <1>1, <2>2, <2>3, Quiet DEF Early
<1>8. CASE \E c \in Conns : RemoveConnection(c) \/ RemoveUser(c)
  <2>1. PICK c \in Conns : RemoveConnection(c) \/ RemoveUser(c)
    BY <1>8
  <2>2. /\ conn[c].at \in {"removing", "emptied"}
        /\ \E s \in {"emptied", "gone"} : conn' = [conn EXCEPT ![c].at = s]
        /\ client' = client /\ store' = store /\ eventVars' = eventVars /\ got' = got
    BY <2>1 DEF RemoveConnection, RemoveUser, sessionVars, clientVars
  <2>3. /\ Mailed(conn)' /\ \A x \in Conns \ {c} : conn'[x] = conn[x]
        /\ conn'[c].gap = conn[c].gap /\ conn'[c].inbox = conn[c].inbox /\ conn'[c].copy = conn[c].copy
        /\ conn'[c].at \in {"emptied", "gone"} /\ conn'[c].dev = conn[c].dev
    BY <1>1, <2>2 DEF Mailed
  <2>4. \A d \in Devices : table'[d] \in {Nobody, table[d]}
    BY <1>1, <2>1 DEF RemoveConnection, RemoveUser, NoEntry
  <2> QED
    BY <1>1, <2>2, <2>3, <2>4, Quiet DEF Early
<1>9. CASE \E c \in Conns : SetOnline(c) \/ SetOffline(c)
  <2>1. PICK c \in Conns : SetOnline(c) \/ SetOffline(c)
    BY <1>9
  <2>2. /\ conn' = [conn EXCEPT ![c].goesOnline = FALSE] \/ conn' = conn
        /\ client' = client /\ store' = store /\ table' = table /\ eventVars' = eventVars /\ got' = got
    BY <2>1 DEF SetOnline, SetOffline, sessionVars, clientVars
  <2>3. /\ Mailed(conn)'
        /\ \A x \in Conns : /\ conn'[x].gap = conn[x].gap /\ conn'[x].inbox = conn[x].inbox
                            /\ conn'[x].copy = conn[x].copy /\ conn'[x].dev = conn[x].dev
                            /\ conn'[x].last = conn[x].last /\ conn'[x].at = conn[x].at
    <3>1. CASE conn' = [conn EXCEPT ![c].goesOnline = FALSE]
      BY <1>1, <3>1 DEF Mailed
    <3>2. CASE conn' = conn
      BY <1>1, <3>2 DEF Mailed
    <3> QED
      BY <2>2, <3>1, <3>2
  <2> QED
    BY <1>1, <2>2, <2>3, Quiet
<1>10. CASE \/ \E d \in Devices : Disconnect(d)
            \/ \E gone \in SUBSET store : Expire(gone)
            \/ UNCHANGED vars
  <2>1. /\ conn' = conn /\ table' = table /\ eventVars' = eventVars /\ got' = got /\ store' \subseteq Conns
        /\ client' = client \/ \E d \in Devices : client' = [client EXCEPT ![d] = Nobody]
    BY <1>1, <1>10 DEF Disconnect, Expire, vars, sessionVars, clientVars, tableVars
  <2>2. DOMAIN client' = Devices /\ \A d \in Devices : client'[d] \in {Nobody, client[d]}
    BY <1>1, <2>1
  <2>3. Mailed(conn)'
    BY <1>1, <2>1 DEF Mailed
  <2> QED
    BY <1>1, <2>1, <2>2, <2>3, Quiet
<1> QED
  BY <1>2, <1>3, <1>4, <1>5, <1>6, <1>7, <1>8, <1>9, <1>10

\* Steps that change no connection's place or place in the table: events that are not sent
\* after the step, or were before, do not concern the devices.
LEMMA StillReached ==
    ASSUME RInv, Kept, conn' = conn, table' = table, got' = got,
           \A e \in ToSet(buffer)' : pub'[e] = "sent" =>
              e \in ToSet(buffer) /\ pub[e] = "sent" /\ id'[e] = id[e] /\ source'[e] = source[e]
    PROVE  Reached'
BY DEF Kept, Reached, Held

\* An event that has only its number is not in the buffer.
LEMMA NumberKeeps ==
    ASSUME RInv, Kept, NEW e \in Events, NEW d \in Devices, Number(e, d)
    PROVE  Kept'
<1>1. /\ pub[e] = "new" /\ seq' = seq + 1 /\ id' = [id EXCEPT ![e] = seq + 1]
      /\ pub' = [pub EXCEPT ![e] = "numbered"] /\ source' = [source EXCEPT ![e] = d]
      /\ conn' = conn /\ table' = table /\ buffer' = buffer /\ store' = store
      /\ client' = client /\ got' = got
  BY DEF Number, sessionVars, clientVars
<1>2. \A c \in Conns : e # <<c, "gap">>
  <2>1. CASE e \in Messages
    BY <2>1, RelayAssumption
  <2>2. CASE e \notin Messages
    BY <2>2 DEF Number
  <2> QED
    BY <2>1, <2>2
<1>3. EventTypes
  BY DEF Kept
<1>4. EventTypes'
  BY <1>1, <1>3 DEF EventTypes, Mailed
<1>5. ClientsKnown'
  BY <1>1 DEF Kept, ClientsKnown
<1>6. \A x \in ToSet(buffer) : x # e /\ x \in Events
  BY <1>1, <1>3 DEF Kept, BufferedOnce, EventTypes, ToSet
<1>7. \A x \in Events \ {e} : pub'[x] = pub[x] /\ id'[x] = id[x] /\ source'[x] = source[x]
  BY <1>1, <1>3 DEF EventTypes
<1>8. BufferedOnce'
  <2>1. \A c \in Conns : <<c, "gap">> \in Events \ {e}
    BY <1>2 DEF Events
  <2>2. Different(buffer)' /\ \A x \in ToSet(buffer)' : pub'[x] \notin {"new", "numbered"}
    BY <1>1, <1>6, <1>7 DEF Kept, BufferedOnce, Different
  <2>3. \A c \in Conns : pub'[<<c, "gap">>] = pub[<<c, "gap">>]
    BY <1>7, <2>1
  <2> QED
    BY <1>1, <2>2, <2>3 DEF Kept, BufferedOnce
<1>9. Reached'
  BY <1>1, <1>6, <1>7, StillReached
<1> QED
  BY <1>4, <1>5, <1>8, <1>9 DEF Kept

\* An event in the buffer that was not sent yet is owed to nobody.
LEMMA RecordKeeps ==
    ASSUME RInv, Kept, NEW e \in Events, Record(e)
    PROVE  Kept'
<1>1. /\ pub[e] = "numbered" /\ seq' = seq /\ id' = id
      /\ pub' = [pub EXCEPT ![e] = "recorded"] /\ source' = source
      /\ conn' = conn /\ table' = table /\ store' = store /\ client' = client /\ got' = got
      /\ buffer' = buffer \/ \E keep \in 1 .. BufferCap : buffer' = Pushed(buffer, e, keep)
  BY DEF Record, sessionVars, clientVars
<1>2. EventTypes
  BY DEF Kept
<1>3. buffer \in Seq(Events) /\ e \notin ToSet(buffer) /\ Different(buffer)
  BY <1>1, <1>2 DEF Kept, BufferedOnce, EventTypes
<1>4. /\ buffer' \in Seq(Events) /\ Len(buffer') <= BufferCap /\ Different(buffer)'
      /\ ToSet(buffer') \subseteq ToSet(buffer) \cup {e}
  <2>1. CASE buffer' = buffer
    BY <1>2, <1>3, <2>1 DEF EventTypes, Different
  <2>2. CASE \E keep \in 1 .. BufferCap : buffer' = Pushed(buffer, e, keep)
    <3>1. PICK keep \in 1 .. BufferCap : buffer' = Pushed(buffer, e, keep)
      BY <2>2
    <3>2. /\ Pushed(buffer, e, keep) \in Seq(Events) /\ Len(Pushed(buffer, e, keep)) <= BufferCap
          /\ ToSet(Pushed(buffer, e, keep)) \subseteq ToSet(buffer) \cup {e}
          /\ Different(Pushed(buffer, e, keep))
      BY <1>3, PushedIs
    <3> QED
      BY <3>1, <3>2 DEF Different
  <2> QED
    BY <1>1, <2>1, <2>2
<1>5. EventTypes'
  BY <1>1, <1>2, <1>4 DEF EventTypes, Mailed
<1>6. ClientsKnown'
  BY <1>1 DEF Kept, ClientsKnown
<1>7. pub'[e] = "recorded" /\ \A x \in Events \ {e} : pub'[x] = pub[x]
  BY <1>1, <1>2 DEF EventTypes
<1>8. \A x \in ToSet(buffer') : x = e \/ (x \in ToSet(buffer) /\ x \in Events /\ pub'[x] = pub[x])
  <2>1. ToSet(buffer) \subseteq Events
    BY <1>3 DEF ToSet
  <2> QED
    BY <1>4, <1>7, <1>3, <2>1
<1>9. BufferedOnce'
  <2>1. \A x \in ToSet(buffer') : pub'[x] \notin {"new", "numbered"}
    BY <1>7, <1>8 DEF Kept, BufferedOnce
  <2>2. ASSUME NEW c \in Conns,
               conn'[c].gap \/ conn'[c].at \in Early
        PROVE  pub'[<<c, "gap">>] = "new"
    <3>1. pub[<<c, "gap">>] = "new" /\ <<c, "gap">> \in Events
      BY <1>1, <2>2 DEF Kept, BufferedOnce, Events
    <3> QED
      BY <1>1, <1>7, <3>1
  <2> QED
    BY <1>4, <2>1, <2>2 DEF BufferedOnce
<1>10. Reached'
  BY <1>1, <1>7, <1>8, StillReached
<1> QED
  BY <1>5, <1>6, <1>9, <1>10 DEF Kept

\* What is sent goes into the mailbox of every other device that has a connection.
LEMMA SendKeeps ==
    ASSUME RInv, RInv', Kept, NEW e \in Events, Send(e)
    PROVE  Kept'
<1> DEFINE to == Devices \ {source[e]}
<1>1. /\ pub[e] = "recorded" /\ pub' = [pub EXCEPT ![e] = "sent"]
      /\ conn' = Deliver(conn, to, <<e>>)
      /\ seq' = seq /\ id' = id /\ source' = source /\ buffer' = buffer
      /\ table' = table /\ store' = store /\ client' = client /\ got' = got
  BY DEF Send, sessionVars, clientVars
<1>2. EventTypes /\ Mailed(conn)
  BY DEF Kept, EventTypes
<1>3. <<e>> \in Seq(Events) /\ ToSet(<<e>>) = {e}
  BY DEF ToSet
<1>4. /\ Mailed(conn)'
      /\ \A c \in Conns :
            /\ conn'[c].dev = conn[c].dev /\ conn'[c].at = conn[c].at /\ conn'[c].last = conn[c].last
            /\ conn'[c].gap = conn[c].gap /\ conn'[c].copy = conn[c].copy
            /\ ToSet(conn[c].inbox) \subseteq ToSet(conn'[c].inbox)
      /\ \A d \in to : table[d] # Nobody /\ table[d] \in Conns /\ conn[table[d]].at \notin Gone
            => e \in ToSet(conn'[table[d]].inbox)
  <2> HIDE DEF to
  <2>1. Mailed(Deliver(conn, to, <<e>>))
    BY <1>2, <1>3, DeliveredTo
  <2>2. \A c \in Conns :
           LET x == Deliver(conn, to, <<e>>)[c] IN
           /\ x.dev = conn[c].dev /\ x.at = conn[c].at /\ x.last = conn[c].last
           /\ x.gap = conn[c].gap /\ x.copy = conn[c].copy
           /\ ToSet(conn[c].inbox) \subseteq ToSet(x.inbox)
    BY <1>2, <1>3, DeliveredTo
  <2>3. \A d \in to : table[d] # Nobody /\ table[d] \in Conns /\ conn[table[d]].at \notin Gone
            => ToSet(<<e>>) \subseteq ToSet(Deliver(conn, to, <<e>>)[table[d]].inbox)
    BY <1>2, <1>3, DeliveredTo
  <2>4. Mailed(conn)'
    BY <1>1, <2>1 DEF Mailed
  <2> QED
    BY <1>1, <1>3, <2>2, <2>3, <2>4
<1>5. EventTypes'
  BY <1>1, <1>2, <1>4 DEF EventTypes
<1>6. ClientsKnown'
  BY <1>1, <1>4 DEF Kept, ClientsKnown
<1>7. pub'[e] = "sent" /\ \A x \in Events \ {e} : pub'[x] = pub[x]
  BY <1>1, <1>2 DEF EventTypes
<1>8. BufferedOnce'
  <2>1. \A x \in ToSet(buffer') : x \in Events /\ pub'[x] \notin {"new", "numbered"}
    BY <1>1, <1>2, <1>7 DEF Kept, BufferedOnce, EventTypes, ToSet
  <2>2. ASSUME NEW c \in Conns,
               conn'[c].gap \/ conn'[c].at \in Early
        PROVE  pub'[<<c, "gap">>] = "new"
    <3>1. pub[<<c, "gap">>] = "new" /\ <<c, "gap">> \in Events
      BY <1>4, <2>2 DEF Kept, BufferedOnce, Events
    <3> QED
      BY <1>1, <1>7, <3>1
  <2>3. Different(buffer)'
    BY <1>1 DEF Kept, BufferedOnce, Different
  <2> QED
    BY <2>1, <2>2, <2>3 DEF BufferedOnce
<1>9. Reached'
  <2> SUFFICES ASSUME NEW d \in Devices, NEW x \in ToSet(buffer)',
                      table'[d] # Nobody, conn'[table'[d]].at \in {"replaying", "up"},
                      id'[x] > conn'[table'[d]].last, pub'[x] = "sent", source'[x] # d
               PROVE  x \in Held(d, table[d])'
    BY DEF Reached
  <2>1. PICK c \in Conns : c = table[d]
    BY <1>1 DEF RInv
  <2>2. /\ c # Nobody /\ conn[c].at \in {"replaying", "up"} /\ id[x] > conn[c].last /\ source[x] # d
        /\ x \in ToSet(buffer) /\ x \in Events
    <3>1. ToSet(buffer) \subseteq Events
      BY <1>2 DEF EventTypes, ToSet
    <3>2. x \in ToSet(buffer)
      BY <1>1
    <3> QED
      BY <1>1, <1>4, <2>1, <3>1, <3>2
  <2>3. CASE x = e
    <3>1. d \in to /\ conn[c].at \notin Gone
      BY <2>2, <2>3 DEF Gone
    <3>2. e \in ToSet(conn'[c].inbox)
      BY <1>4, <2>1, <2>2, <3>1
    <3> QED
      BY <1>1, <2>1, <2>3, <3>2 DEF Held
  <2>4. CASE x # e
    <3>1. pub[x] = "sent"
      BY <1>7, <2>2, <2>4
    <3>2. x \in Held(d, c)
      BY <2>1, <2>2, <3>1 DEF Kept, Reached
    <3>3. x \in Held(d, c)'
      BY <1>1, <1>4, <3>2 DEF Held
    <3> QED
      BY <1>1, <2>1, <3>3 DEF Held
  <2> QED
    BY <2>3, <2>4
<1> QED
  BY <1>5, <1>6, <1>8, <1>9 DEF Kept

\* Nobody but the reader's own device changes what it has of an event, and it keeps it.
LEMMA StillHeld ==
    ASSUME RInv, Kept, buffer' = buffer, id' = id, pub' = pub, source' = source, table' = table,
           \A c \in Conns : conn'[c].last = conn[c].last /\ conn'[c].at = conn[c].at,
           \A d \in Devices : table[d] # Nobody /\ conn[table[d]].at \in {"replaying", "up"}
              => Held(d, table[d]) \subseteq Held(d, table[d])'
    PROVE  Reached'
BY DEF RInv, Kept, Reached

\* What leaves the mailbox is handled.
LEMMA ReadKeeps ==
    ASSUME RInv, RInv', Kept, NEW d \in Devices, Read(d)
    PROVE  Kept'
<1>1. PICK c \in Conns : c = client[d] /\ conn[c].dev = d /\ conn[c].inbox # <<>>
  BY DEF Read, Kept, ClientsKnown
<1>2. /\ got' = [got EXCEPT ![d] = @ \cup {Head(conn[c].inbox)}]
      /\ conn' = [conn EXCEPT ![c].inbox = Tail(@)]
      /\ seq' = seq /\ id' = id /\ pub' = pub /\ source' = source /\ buffer' = buffer
      /\ table' = table /\ store' = store /\ client' = client
  BY <1>1 DEF Read, sessionVars, eventVars
<1>3. EventTypes /\ Mailed(conn)
  BY DEF Kept, EventTypes
<1>4. PICK b \in Seq(Events) : b = conn[c].inbox
  BY <1>3 DEF Mailed
<1>5. Tail(b) \in Seq(Events) /\ ToSet(b) \subseteq ToSet(Tail(b)) \cup {Head(b)}
  <2>1. b # <<>>
    BY <1>1, <1>4
  <2>2. /\ Tail(b) \in Seq(Events) /\ Len(Tail(b)) = Len(b) - 1 /\ Len(b) \in Nat /\ Head(b) = b[1]
        /\ \A i \in 1..Len(Tail(b)) : Tail(b)[i] = b[i + 1]
    BY <2>1
  <2>3. \A i \in 1..Len(b) : i = 1 \/ (i - 1 \in 1..Len(Tail(b)) /\ b[i] = Tail(b)[i - 1])
    BY <2>2
  <2>4. DOMAIN b = 1..Len(b) /\ DOMAIN Tail(b) = 1..Len(Tail(b))
    BY <2>2
  <2>5. \A i \in DOMAIN b : b[i] = Head(b) \/ (i - 1 \in DOMAIN Tail(b) /\ b[i] = Tail(b)[i - 1])
    BY <2>2, <2>3, <2>4
  <2>6. \A i \in DOMAIN b : b[i] \in ToSet(Tail(b)) \cup {Head(b)}
    BY <2>5 DEF ToSet
  <2> QED
    BY <2>2, <2>6 DEF ToSet
<1>6. /\ Mailed(conn)' /\ conn'[c].inbox = Tail(b) /\ \A x \in Conns \ {c} : conn'[x] = conn[x]
      /\ \A x \in Conns : /\ conn'[x].dev = conn[x].dev /\ conn'[x].at = conn[x].at
                          /\ conn'[x].last = conn[x].last /\ conn'[x].gap = conn[x].gap
                          /\ conn'[x].copy = conn[x].copy
  BY <1>2, <1>3, <1>4, <1>5 DEF Mailed
<1>7. /\ DOMAIN got' = Devices /\ got'[d] = got[d] \cup {Head(b)}
      /\ \A x \in Devices \ {d} : got'[x] = got[x]
  BY <1>2, <1>3, <1>4 DEF EventTypes
<1>8. EventTypes'
  BY <1>2, <1>3, <1>6, <1>7 DEF EventTypes
<1>9. ClientsKnown'
  BY <1>2, <1>6 DEF Kept, ClientsKnown
<1>10. BufferedOnce'
  BY <1>2, <1>6 DEF Kept, BufferedOnce, Different
<1>11. Reached'
  <2>1. ASSUME NEW x \in Devices, table[x] # Nobody, conn[table[x]].at \in {"replaying", "up"}
        PROVE  Held(x, table[x]) \subseteq Held(x, table[x])'
    <3>1. PICK z \in Conns : z = table[x] /\ conn[z].dev = x
      BY <2>1 DEF RInv, EntriesLive
    <3>2. CASE z = c
      <4>1. x = d
        BY <1>1, <3>1, <3>2
      <4>2. ToSet(conn[z].inbox) \subseteq ToSet(conn'[z].inbox) \cup {Head(b)}
        BY <1>4, <1>5, <1>6, <3>2
      <4> QED
        BY <1>2, <1>6, <1>7, <3>1, <4>1, <4>2 DEF Held
    <3>3. CASE z # c
      <4>1. conn'[z] = conn[z] /\ got[x] \subseteq got'[x]
        BY <1>6, <1>7, <3>3
      <4> QED
        BY <1>2, <3>1, <4>1 DEF Held
    <3> QED
      BY <3>2, <3>3
  <2> QED
    BY <1>2, <1>6, <2>1, StillHeld
<1> QED
  BY <1>8, <1>9, <1>10, <1>11 DEF Kept

\* The copy has what is in the buffer and newer than what the device had stored.
LEMMA ReplayCopyKeeps ==
    ASSUME RInv, RInv', Kept, NEW c \in Conns, ReplayCopy(c)
    PROVE  Kept'
<1> DEFINE missed == Missed(buffer, conn[c].last)
           late == buffer # <<>> /\ 0 < conn[c].last /\ conn[c].last < id[Head(buffer)]
<1>1. /\ conn[c].at = "replay"
      /\ conn' = [conn EXCEPT ![c].at = "replaying", ![c].copy = missed, ![c].gap = late]
      /\ seq' = seq /\ id' = id /\ pub' = pub /\ source' = source /\ buffer' = buffer
      /\ table' = table /\ store' = store /\ client' = client /\ got' = got
  BY DEF ReplayCopy, sessionVars, eventVars, clientVars
<1>2. EventTypes /\ Mailed(conn) /\ buffer \in Seq(Events)
  BY DEF Kept, EventTypes
<1>3. missed \in Seq(Events) /\ \A e \in ToSet(buffer) : id[e] > conn[c].last => e \in ToSet(missed)
  BY <1>2, MissedIs
<1> HIDE DEF missed, late
<1>4. /\ Mailed(conn)' /\ \A x \in Conns \ {c} : conn'[x] = conn[x]
      /\ conn'[c].at = "replaying" /\ conn'[c].copy = missed /\ conn'[c].last = conn[c].last
      /\ conn'[c].dev = conn[c].dev /\ conn'[c].inbox = conn[c].inbox
  BY <1>1, <1>2, <1>3 DEF Mailed
<1>5. EventTypes'
  BY <1>1, <1>2, <1>4 DEF EventTypes
<1>6. ClientsKnown'
  <2>1. \A x \in Conns : conn[x].at # "new" => conn'[x].at # "new" /\ conn'[x].dev = conn[x].dev
    BY <1>4
  <2> QED
    BY <1>1, <2>1 DEF Kept, ClientsKnown
<1>7. BufferedOnce'
  <2>1. \A x \in Conns : conn'[x].gap \/ conn'[x].at \in Early => pub[<<x, "gap">>] = "new"
    BY <1>1, <1>4 DEF Kept, BufferedOnce, Early
  <2> QED
    BY <1>1, <2>1 DEF Kept, BufferedOnce, Different, Early
<1>8. Reached'
  <2> SUFFICES ASSUME NEW d \in Devices, NEW x \in ToSet(buffer)',
                      table'[d] # Nobody, conn'[table'[d]].at \in {"replaying", "up"},
                      id'[x] > conn'[table'[d]].last, pub'[x] = "sent", source'[x] # d
               PROVE  x \in Held(d, table[d])'
    BY DEF Reached
  <2>1. PICK z \in Conns : z = table[d]
    BY <1>1 DEF RInv
  <2>2. CASE z = c
    <3>1. x \in ToSet(missed)
      BY <1>1, <1>3, <1>4, <2>1, <2>2
    <3> QED
      BY <1>1, <1>4, <2>1, <2>2, <3>1 DEF Held
  <2>3. CASE z # c
    <3>1. conn'[z] = conn[z]
      BY <1>4, <2>3
    <3>2. x \in Held(d, z)
      BY <1>1, <2>1, <3>1 DEF Kept, Reached
    <3> QED
      BY <1>1, <2>1, <3>1, <3>2 DEF Held
  <2> QED
    BY <2>2, <2>3
<1> QED
  BY <1>5, <1>6, <1>7, <1>8 DEF Kept

\* The copy goes into the mailbox of the device's connection: of this one, if it is still in the table.
LEMMA ReplaySendKeeps ==
    ASSUME RInv, RInv', Kept, NEW c \in Conns, ReplaySend(c)
    PROVE  Kept'
<1> DEFINE sent == Deliver(conn, {conn[c].dev}, conn[c].copy)
<1>1. /\ conn[c].at = "replaying"
      /\ conn' = [sent EXCEPT ![c].at = "up", ![c].copy = <<>>]
      /\ seq' = seq /\ id' = id /\ pub' = pub /\ source' = source /\ buffer' = buffer
      /\ table' = table /\ store' = store /\ client' = client /\ got' = got
  BY DEF ReplaySend, sessionVars, eventVars, clientVars
<1>2. EventTypes /\ Mailed(conn) /\ conn[c].copy \in Seq(Events)
  BY DEF Kept, EventTypes, Mailed
<1>3. Mailed(sent)
  BY <1>2, DeliveredTo
<1>4. \A x \in Conns :
            /\ sent[x].dev = conn[x].dev /\ sent[x].at = conn[x].at /\ sent[x].last = conn[x].last
            /\ sent[x].gap = conn[x].gap /\ sent[x].copy = conn[x].copy
            /\ ToSet(conn[x].inbox) \subseteq ToSet(sent[x].inbox)
  <2>1. \A x \in Conns :
           LET y == Deliver(conn, {conn[c].dev}, conn[c].copy)[x] IN
           /\ y.dev = conn[x].dev /\ y.at = conn[x].at /\ y.last = conn[x].last
           /\ y.gap = conn[x].gap /\ y.copy = conn[x].copy
           /\ ToSet(conn[x].inbox) \subseteq ToSet(y.inbox)
    BY <1>2, DeliveredTo
  <2> QED
    BY <2>1
<1>5. table[conn[c].dev] = c => ToSet(conn[c].copy) \subseteq ToSet(sent[c].inbox)
  <2>1. \A d \in {conn[c].dev} : table[d] # Nobody /\ table[d] \in Conns /\ conn[table[d]].at \notin Gone
            => ToSet(conn[c].copy) \subseteq ToSet(Deliver(conn, {conn[c].dev}, conn[c].copy)[table[d]].inbox)
    BY <1>2, DeliveredTo
  <2>2. c # Nobody /\ conn[c].at \notin Gone
    BY <1>1, RelayAssumption DEF Gone
  <2> QED
    BY <2>1, <2>2
<1> HIDE DEF sent
<1>6. /\ Mailed(conn)' /\ \A x \in Conns \ {c} : conn'[x] = sent[x]
      /\ conn'[c].at = "up" /\ conn'[c].inbox = sent[c].inbox /\ conn'[c].last = sent[c].last
      /\ conn'[c].dev = sent[c].dev /\ conn'[c].gap = sent[c].gap
  <2>1. <<>> \in Seq(Events)
    OBVIOUS
  <2> QED
    BY <1>1, <1>3, <2>1 DEF Mailed
<1>7. EventTypes'
  BY <1>1, <1>2, <1>6 DEF EventTypes
<1>8. ClientsKnown'
  <2>1. \A x \in Conns : conn[x].at # "new" => conn'[x].at # "new" /\ conn'[x].dev = conn[x].dev
    BY <1>4, <1>6
  <2> QED
    BY <1>1, <2>1 DEF Kept, ClientsKnown
<1>9. BufferedOnce'
  <2>1. \A x \in Conns : conn'[x].gap \/ conn'[x].at \in Early => conn[x].gap \/ conn[x].at \in Early
    BY <1>4, <1>6 DEF Early
  <2> QED
    BY <1>1, <2>1 DEF Kept, BufferedOnce, Different, Early
<1>10. Reached'
  <2> SUFFICES ASSUME NEW d \in Devices, NEW x \in ToSet(buffer)',
                      table'[d] # Nobody, conn'[table'[d]].at \in {"replaying", "up"},
                      id'[x] > conn'[table'[d]].last, pub'[x] = "sent", source'[x] # d
               PROVE  x \in Held(d, table[d])'
    BY DEF Reached
  <2>1. PICK z \in Conns : z = table[d] /\ conn[z].dev = d
    BY <1>1 DEF RInv, EntriesLive
  <2>2. /\ conn[z].at \in {"replaying", "up"} /\ id[x] > conn[z].last /\ pub[x] = "sent" /\ source[x] # d
        /\ z # Nobody /\ x \in ToSet(buffer)
    <3>1. /\ conn'[z].last = conn[z].last
          /\ conn'[z].at \in {"replaying", "up"} => conn[z].at \in {"replaying", "up"}
      <4>1. sent[z].at = conn[z].at /\ sent[z].last = conn[z].last
        BY <1>4
      <4>2. CASE z = c
        BY <1>1, <1>6, <4>1, <4>2
      <4>3. CASE z # c
        BY <1>6, <4>1, <4>3
      <4> QED
        BY <4>2, <4>3
    <3> QED
      BY <1>1, <2>1, <3>1
  <2>3. x \in Held(d, z)
    BY <2>1, <2>2 DEF Kept, Reached
  <2>4. CASE z = c
    <3>1. x \in got[d] \/ x \in ToSet(conn[c].inbox) \/ x \in ToSet(conn[c].copy)
      BY <1>1, <2>3, <2>4 DEF Held
    <3>2. x \in got[d] \/ x \in ToSet(conn'[c].inbox)
      BY <1>4, <1>5, <1>6, <2>1, <2>4, <3>1
    <3> QED
      BY <1>1, <2>1, <2>4, <3>2 DEF Held
  <2>5. CASE z # c
    <3>1. x \in Held(d, z)'
      BY <1>1, <1>4, <1>6, <2>3, <2>5 DEF Held
    <3> QED
      BY <1>1, <2>1, <3>1 DEF Held
  <2> QED
    BY <2>4, <2>5
<1> QED
  BY <1>7, <1>8, <1>9, <1>10 DEF Kept

\* The gap is a new event, and only its own device is told.
LEMMA ReplayGapKeeps ==
    ASSUME RInv, RInv', Kept, NEW c \in Conns, ReplayGap(c)
    PROVE  Kept'
<1> DEFINE e == <<c, "gap">>
           sent == Deliver(conn, {conn[c].dev}, <<e>>)
<1>1. /\ conn[c].at = "replaying" /\ conn[c].gap
      /\ conn' = [sent EXCEPT ![c].gap = FALSE]
      /\ seq' = seq + 1 /\ id' = [id EXCEPT ![e] = seq + 1] /\ pub' = [pub EXCEPT ![e] = "private"]
      /\ source' = source /\ \E keep \in 1 .. BufferCap : buffer' = Pushed(buffer, e, keep)
      /\ table' = table /\ store' = store /\ client' = client /\ got' = got
  BY DEF ReplayGap, sessionVars, clientVars
<1>2. /\ EventTypes /\ Mailed(conn) /\ e \in Events /\ pub[e] = "new"
      /\ buffer \in Seq(Events) /\ Different(buffer)
  BY <1>1 DEF Kept, EventTypes, Events, BufferedOnce
<1>3. e \notin ToSet(buffer)
  BY <1>2 DEF Kept, BufferedOnce
<1>4. <<e>> \in Seq(Events)
  BY <1>2
<1>5. Mailed(sent)
  BY <1>2, <1>4, DeliveredTo
<1>6. \A x \in Conns :
            /\ sent[x].dev = conn[x].dev /\ sent[x].at = conn[x].at /\ sent[x].last = conn[x].last
            /\ sent[x].gap = conn[x].gap /\ sent[x].copy = conn[x].copy
            /\ ToSet(conn[x].inbox) \subseteq ToSet(sent[x].inbox)
  <2>1. \A x \in Conns :
           LET y == Deliver(conn, {conn[c].dev}, <<e>>)[x] IN
           /\ y.dev = conn[x].dev /\ y.at = conn[x].at /\ y.last = conn[x].last
           /\ y.gap = conn[x].gap /\ y.copy = conn[x].copy
           /\ ToSet(conn[x].inbox) \subseteq ToSet(y.inbox)
    <3> HIDE DEF e
    <3> QED
      BY <1>2, <1>4, DeliveredTo
  <2> QED
    BY <2>1
<1>7. \A x \in Conns : x # c => <<x, "gap">> # e
  OBVIOUS
<1>8. /\ buffer' \in Seq(Events) /\ Len(buffer') <= BufferCap /\ Different(buffer)'
      /\ ToSet(buffer') \subseteq ToSet(buffer) \cup {e}
  <2> HIDE DEF e, sent
  <2>1. PICK keep \in 1 .. BufferCap : buffer' = Pushed(buffer, e, keep)
    BY <1>1
  <2>2. /\ Pushed(buffer, e, keep) \in Seq(Events) /\ Len(Pushed(buffer, e, keep)) <= BufferCap
        /\ ToSet(Pushed(buffer, e, keep)) \subseteq ToSet(buffer) \cup {e}
        /\ Different(Pushed(buffer, e, keep))
    BY <1>2, <1>3, PushedIs
  <2> QED
    BY <2>1, <2>2 DEF Different
<1> HIDE DEF e, sent
<1>9. /\ Mailed(conn)' /\ \A x \in Conns \ {c} : conn'[x] = sent[x]
      /\ conn'[c].at = sent[c].at /\ conn'[c].inbox = sent[c].inbox /\ conn'[c].last = sent[c].last
      /\ conn'[c].dev = sent[c].dev /\ conn'[c].copy = sent[c].copy /\ conn'[c].gap = FALSE
  BY <1>1, <1>5 DEF Mailed
<1>10. /\ pub'[e] = "private" /\ \A x \in Events \ {e} : pub'[x] = pub[x] /\ id'[x] = id[x]
       /\ id' \in [Events -> Nat] /\ seq' \in Nat
       /\ pub' \in [Events -> {"new", "numbered", "recorded", "sent", "private", "lost"}]
  BY <1>1, <1>2 DEF EventTypes
<1>11. EventTypes'
  BY <1>1, <1>2, <1>8, <1>9, <1>10 DEF EventTypes
<1>12. ClientsKnown'
  BY <1>1, <1>6, <1>9 DEF Kept, ClientsKnown
<1>13. ToSet(buffer) \subseteq Events
  BY <1>2 DEF ToSet
<1>14. \A x \in ToSet(buffer') : x = e \/ (x \in ToSet(buffer) /\ x \in Events /\ pub'[x] = pub[x] /\ id'[x] = id[x])
  BY <1>3, <1>8, <1>10, <1>13
<1>15. BufferedOnce'
  <2>1. \A x \in ToSet(buffer') : pub'[x] \notin {"new", "numbered"}
    BY <1>10, <1>14 DEF Kept, BufferedOnce
  <2>2. ASSUME NEW x \in Conns, conn'[x].gap \/ conn'[x].at \in Early
        PROVE  pub'[<<x, "gap">>] = "new"
    <3>1. x # c
      BY <1>1, <1>6, <1>9, <2>2 DEF Early
    <3>2. pub[<<x, "gap">>] = "new" /\ <<x, "gap">> \in Events
      BY <1>6, <1>9, <2>2, <3>1 DEF Kept, BufferedOnce, Events, Early
    <3> QED
      BY <1>7, <1>10, <3>1, <3>2
  <2> QED
    BY <1>8, <2>1, <2>2 DEF BufferedOnce, Early
<1>16. Reached'
  <2> SUFFICES ASSUME NEW d \in Devices, NEW x \in ToSet(buffer)',
                      table'[d] # Nobody, conn'[table'[d]].at \in {"replaying", "up"},
                      id'[x] > conn'[table'[d]].last, pub'[x] = "sent", source'[x] # d
               PROVE  x \in Held(d, table[d])'
    BY DEF Reached
  <2>1. PICK z \in Conns : z = table[d]
    BY <1>1 DEF RInv
  <2>2. x # e /\ x \in ToSet(buffer) /\ pub[x] = "sent" /\ id'[x] = id[x]
    BY <1>10, <1>14
  <2>3. conn'[z].at = conn[z].at /\ conn'[z].last = conn[z].last /\ conn'[z].copy = conn[z].copy
        /\ ToSet(conn[z].inbox) \subseteq ToSet(conn'[z].inbox)
    BY <1>6, <1>9
  <2>4. x \in Held(d, z)
    BY <1>1, <2>1, <2>2, <2>3 DEF Kept, Reached
  <2>5. x \in Held(d, z)'
    BY <1>1, <2>3, <2>4 DEF Held
  <2> QED
    BY <1>1, <2>1, <2>5 DEF Held
<1> QED
  BY <1>11, <1>12, <1>15, <1>16 DEF Kept

\* With the server the buffer ends.
LEMMA ServerEndsKeeps ==
    ASSUME RInv, RInv', Kept, ServerEnds
    PROVE  Kept'
<1>1. /\ conn' = [c \in Conns |->
                  IF conn[c].at = "new" THEN conn[c]
                  ELSE [conn[c] EXCEPT !.at = "dead", !.goesOnline = FALSE, !.copy = <<>>, !.gap = FALSE]]
      /\ seq' = 0 /\ buffer' = <<>> /\ store' = {}
      /\ pub' = [e \in Events |->
                 IF \/ pub[e] \in {"numbered", "recorded"}
                    \/ e \notin Messages /\ pub[e] = "new" /\ conn[e[1]].at # "new"
                 THEN "lost" ELSE pub[e]]
      /\ id' = id /\ source' = source /\ client' = client /\ got' = got
  BY DEF ServerEnds, clientVars
<1>2. EventTypes /\ Mailed(conn) /\ <<>> \in Seq(Events) /\ ToSet(<<>>) = {} /\ Different(<<>>)
  BY DEF Kept, EventTypes, ToSet, Different
<1>3. /\ Mailed(conn)'
      /\ \A c \in Conns : \/ conn[c].at = "new" /\ conn'[c] = conn[c]
                          \/ /\ conn[c].at # "new" /\ conn'[c].at = "dead" /\ conn'[c].gap = FALSE
                             /\ conn'[c].dev = conn[c].dev
  BY <1>1, <1>2 DEF Mailed
<1>4. pub' \in [Events -> {"new", "numbered", "recorded", "sent", "private", "lost"}]
  BY <1>1, <1>2 DEF EventTypes
<1>5. Len(buffer') <= BufferCap
  <2>1. Len(<<>>) = 0 /\ 0 <= BufferCap
    BY RelayAssumption
  <2> QED
    BY <1>1, <2>1
<1>6. EventTypes'
  BY <1>1, <1>2, <1>3, <1>4, <1>5 DEF EventTypes
<1>7. ClientsKnown'
  BY <1>1, <1>3 DEF Kept, ClientsKnown
<1>8. BufferedOnce'
  <2>1. ASSUME NEW c \in Conns, conn'[c].gap \/ conn'[c].at \in Early
        PROVE  pub'[<<c, "gap">>] = "new"
    <3>1. conn[c].at = "new" /\ pub[<<c, "gap">>] = "new" /\ <<c, "gap">> \in Events
      BY <1>3, <2>1 DEF Kept, BufferedOnce, Events, Early
    <3>2. <<c, "gap">>[1] = c
      OBVIOUS
    <3>3. PICK e \in Events : e = <<c, "gap">> /\ e[1] = c
      BY <3>1, <3>2
    <3>4. pub'[e] = pub[e]
      BY <1>1, <3>1, <3>3
    <3> QED
      BY <3>1, <3>3, <3>4
  <2> QED
    BY <1>1, <1>2, <2>1 DEF BufferedOnce, Early, Different
<1>9. Reached'
  BY <1>1, <1>2 DEF Reached
<1> QED
  BY <1>6, <1>7, <1>8, <1>9 DEF Kept

\* Every step keeps it.
LEMMA NextKept == RInv /\ RInv' /\ Kept /\ [Next]_vars => Kept'
<1> SUFFICES ASSUME RInv, RInv', Kept, [Next]_vars PROVE Kept'
  OBVIOUS
<1> QED
  BY QuietSteps, NumberKeeps, RecordKeeps, SendKeeps, ReadKeeps, ReplayCopyKeeps, ReplaySendKeeps,
     ReplayGapKeeps, ServerEndsKeeps DEF Next

\* What the devices are owed is kept in every reachable state.
THEOREM KeptInvariant == Spec => []Kept
<1>1. Init => RInv /\ Kept
  BY InitRInv, InitKept
<1>2. RInv /\ Kept /\ [Next]_vars => RInv' /\ Kept'
  BY NextRInv, NextKept
<1> QED
  BY <1>1, <1>2, PTL DEF Spec

\* The buffer stays within its capacity and has no event twice, whatever is recorded,
\* replayed and told of gaps meanwhile.
THEOREM RelayTypeCorrect == Spec => []RelayTypeOK
<1>1. RInv /\ Kept => RelayTypeOK
  BY DEF RInv, Kept, EventTypes, BufferedOnce, Different, RelayTypeOK
<1> QED
  BY <1>1, RelayInvariant, KeptInvariant, PTL

\* A device that is back, its replay over, has handled or has in its mailbox every event of others
\* that is still in the buffer, was sent and is newer than those it had stored, for any
\* number of devices, connections and events and any overlap of replays and broadcasts.
THEOREM BufferReachesDevices == Spec => []BufferedReachesDevice
<1>1. Kept => BufferedReachesDevice
  BY DEF Kept, Reached, Held, BufferedReachesDevice
<1> QED
  BY <1>1, KeptInvariant, PTL

================================================================================
