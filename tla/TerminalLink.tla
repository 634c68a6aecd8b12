----------------------------- MODULE TerminalLink -----------------------------
(***************************************************************************)
(* How a terminal's output reaches the phone: the connections and the       *)
(* output functions of services/device_link_client.rs for one terminal.     *)
(* The task that takes the output (TerminalSession) sends a chunk into the  *)
(* client's channel when a phone is bound and keeps it in the pending       *)
(* buffer otherwise; the receiver of a connection binds and unbinds.        *)
(*                                                                         *)
(* All of them run on threads of their own: what one does under one lock is *)
(* a step.  A connection has three tasks, and start cleans up when the      *)
(* first of them ends; the others go on, beside the next connection's.  A   *)
(* start that is aborted while it waits takes no further step.  shutdown    *)
(* may be called at any time (settings, logout, restart, exit).             *)
(***************************************************************************)
EXTENDS Naturals, SequencesExt

CONSTANTS
    MaxChunks,    \* bound: chunks of output
    MaxBinds,     \* bound: requests of the phone
    MaxLinks,     \* bound: connections
    Closers,      \* calls of shutdown; each is used once
    PendingCap,   \* MAX_PENDING_BYTES
    SnapshotCap   \* MAX_TERMINAL_SNAPSHOT_BYTES

ASSUME OutputAssumption ==
    /\ MaxChunks \in Nat /\ MaxBinds \in Nat /\ MaxLinks \in Nat
    /\ PendingCap \in Nat \ {0} /\ SnapshotCap \in Nat \ {0}

VARIABLES
    start,      \* where start is with each connection
    open,       \* the connections whose channel has a receiving end
    receiving,  \* those whose receiver task runs
    shut,       \* where each call of shutdown is
    out,        \* sender and binary_sender of the client
    set,        \* the session in BOUND_SESSION_IDS, binding_sessions, pending_trimmed
    pending,    \* pending_binary_by_session
    taken,      \* chunks handed over so far
    output,     \* where the task that takes the output is, and the channel it has
    bind,       \* where each connection's receiver is with a request
    sent,       \* the chunks sent into channels
    cut,        \* those the cap cut off
    gone,       \* those given up: unbound, shut down, or older than the snapshot sent instead
    binds       \* requests so far

netVars == <<start, open, receiving, shut, out>>
receiverVars == <<bind, binds>>
chunkVars == <<pending, taken, output, receiverVars, sent, cut, gone>>
outputVars == <<netVars, set, chunkVars>>

Connections == 1..MaxLinks

RestingBind == [at |-> "idle", snapshot |-> FALSE, force |-> FALSE, hold |-> <<>>]

OutputInit ==
    /\ start = [l \in Connections |-> "none"] /\ open = {} /\ receiving = {}
    /\ shut = [k \in Closers |-> "not"]
    /\ out = [sender |-> FALSE, binary |-> 0]
    /\ set = [bound |-> FALSE, binding |-> FALSE, trimmed |-> FALSE]
    /\ pending = <<>> /\ taken = 0
    /\ output = [at |-> "idle", channel |-> 0]
    /\ bind = [l \in Connections |-> RestingBind] /\ binds = 0
    /\ sent = <<>> /\ cut = {} /\ gone = {}

Capped(s) == IF Len(s) > PendingCap THEN SubSeq(s, Len(s) - PendingCap + 1, Len(s)) ELSE s

-------------------------------------------------------------------------------
(* A connection.  start sets the senders, registers and spawns the tasks.      *)

StartGoes(l, from, to) ==
    /\ start[l] = from /\ start' = [start EXCEPT ![l] = to]
    /\ UNCHANGED <<shut, chunkVars>>

\* The connections come one after the other.
Connect(l) ==
    /\ StartGoes(l, "none", "connecting") /\ \A m \in 1..(l - 1) : start[m] # "none"
    /\ out' = [out EXCEPT !.sender = TRUE]
    /\ UNCHANGED <<open, receiving, set>>

SetBinarySender(l) ==
    /\ StartGoes(l, "connecting", "registering")
    /\ out' = [out EXCEPT !.binary = l] /\ open' = open \cup {l}
    /\ UNCHANGED <<receiving, set>>

\* The register message is not sent: start returns, and leaves the senders in their place.
RegisterFails(l) ==
    /\ StartGoes(l, "registering", "over")
    /\ open' = open \ {l}
    /\ UNCHANGED <<receiving, out, set>>

Registered(l) ==
    /\ StartGoes(l, "registering", "up")
    /\ receiving' = receiving \cup {l}
    /\ UNCHANGED <<open, out, set>>

\* select!: the first task to end ends the wait, and nothing ends the others.
TaskEnded(l) ==
    /\ start' = [start EXCEPT ![l] = IF @ = "up" THEN "sender" ELSE @]
    /\ UNCHANGED <<shut, out, set, chunkVars>>

\* The sender's task fails to send: the receiving end of the channels goes with it.
SenderEnds(l) ==
    /\ l \in open /\ start[l] # "registering" /\ TaskEnded(l)
    /\ open' = open \ {l}
    /\ UNCHANGED receiving

\* The server closes or the socket fails, between two messages.
ReceiverEnds(l) ==
    /\ l \in receiving /\ bind[l].at = "idle" /\ TaskEnded(l)
    /\ receiving' = receiving \ {l}
    /\ UNCHANGED open

\* Remote access is off: the receiver and the channel stay.
HeartbeatEnds(l) ==
    /\ start[l] = "up" /\ TaskEnded(l)
    /\ UNCHANGED <<open, receiving>>

\* The clean-up, whatever connection the senders and the bindings are of.
Cleans(l, from, to) == StartGoes(l, from, to) /\ UNCHANGED <<open, receiving>>

TakeSender(l) ==
    /\ Cleans(l, "sender", "binary")
    /\ out' = [out EXCEPT !.sender = FALSE] /\ UNCHANGED set

TakeBinarySender(l) ==
    /\ Cleans(l, "binary", "bound")
    /\ out' = [out EXCEPT !.binary = 0] /\ UNCHANGED set

ClearBound(l) ==
    /\ Cleans(l, "bound", "binding")
    /\ set' = [set EXCEPT !.bound = FALSE] /\ UNCHANGED out

ClearBinding(l) ==
    /\ Cleans(l, "binding", "over")
    /\ set' = [set EXCEPT !.binding = FALSE] /\ UNCHANGED out

-------------------------------------------------------------------------------
(* shutdown takes the senders and clears the bindings and the buffers, under   *)
(* one lock after the other; the connections' tasks have senders of their own. *)

Shuts(k, from, to) ==
    /\ shut[k] = from /\ shut' = [shut EXCEPT ![k] = to]
    /\ UNCHANGED <<start, open, receiving, taken, output, receiverVars, sent>>

ShutSender(k) ==
    /\ Shuts(k, "not", "binary")
    /\ out' = [out EXCEPT !.sender = FALSE] /\ UNCHANGED <<set, pending, cut, gone>>

ShutBinarySender(k) ==
    /\ Shuts(k, "binary", "bound")
    /\ out' = [out EXCEPT !.binary = 0] /\ UNCHANGED <<set, pending, cut, gone>>

ShutBound(k) ==
    /\ Shuts(k, "bound", "pending")
    /\ set' = [set EXCEPT !.bound = FALSE] /\ UNCHANGED <<out, pending, cut, gone>>

\* What is pending is given up, and what was cut off before it.
GivesUpPending == pending' = <<>> /\ gone' = gone \cup ToSet(pending) \cup cut /\ cut' = {}

ShutPending(k) == Shuts(k, "pending", "trimmed") /\ GivesUpPending /\ UNCHANGED <<out, set>>

ShutTrimmed(k) ==
    /\ Shuts(k, "trimmed", "binding")
    /\ set' = [set EXCEPT !.trimmed = FALSE] /\ UNCHANGED <<out, pending, cut, gone>>

ShutBinding(k) ==
    /\ Shuts(k, "binding", "done")
    /\ set' = [set EXCEPT !.binding = FALSE] /\ UNCHANGED <<out, pending, cut, gone>>

-------------------------------------------------------------------------------
(* send_terminal_output_binary.                                               *)

\* The chunk is in the terminal's own buffer already.
HandOver ==
    /\ output.at = "idle" /\ taken < MaxChunks
    /\ taken' = taken + 1
    /\ output' = [output EXCEPT !.at = "connected"]
    /\ UNCHANGED <<netVars, set, pending, receiverVars, sent, cut, gone>>

\* Connected, not being bound, bound, and with a channel: otherwise it is kept.
Asks(this, yes, next) ==
    /\ output.at = this
    /\ output' = [at |-> IF yes THEN next ELSE "keep", channel |-> IF this = "channel" THEN out.binary ELSE 0]
    /\ UNCHANGED <<netVars, set, pending, taken, receiverVars, sent, cut, gone>>

AskConnected == Asks("connected", out.sender, "binding")
AskBinding == Asks("binding", ~set.binding, "bound")
AskBound == Asks("bound", set.bound, "channel")
AskChannel == Asks("channel", out.binary # 0, "send")

\* A channel without a receiving end gives the chunk back.
Send ==
    /\ output.at = "send"
    /\ IF output.channel \in open
       THEN sent' = Append(sent, taken) /\ output' = [at |-> "idle", channel |-> 0]
       ELSE output' = [output EXCEPT !.at = "keep"] /\ UNCHANGED sent
    /\ UNCHANGED <<netVars, set, pending, taken, receiverVars, cut, gone>>

\* buffer_pending_bytes: the cap cuts off the oldest,
Keep ==
    /\ output.at = "keep"
    /\ pending' = Capped(Append(pending, taken))
    /\ cut' = cut \cup (ToSet(pending) \ ToSet(pending'))
    /\ output' = [at |-> IF Len(pending) = PendingCap THEN "mark" ELSE "idle", channel |-> 0]
    /\ UNCHANGED <<netVars, set, taken, receiverVars, sent, gone>>

\* and that is noted under another lock.
MarkTrimmed ==
    /\ output.at = "mark" /\ output' = [output EXCEPT !.at = "idle"]
    /\ set' = [set EXCEPT !.trimmed = TRUE]
    /\ UNCHANGED <<netVars, pending, taken, receiverVars, sent, cut, gone>>

-------------------------------------------------------------------------------
(* terminal.binary.bind and terminal.binary.unbind, in a connection's receiver. *)

Turns(l, at, snapshot, force, hold) ==
    bind' = [bind EXCEPT ![l] = [at |-> at, snapshot |-> snapshot, force |-> force, hold |-> hold]]

\* One without a snapshot also stands for a connection that skips them; one that forces a
\* snapshot need not ask for it as well.
Request(l, at, snapshot, force) ==
    /\ l \in receiving /\ bind[l].at = "idle" /\ binds < MaxBinds
    /\ binds' = binds + 1
    /\ Turns(l, at, snapshot /\ ~force, force, <<>>)
    /\ UNCHANGED <<netVars, set, pending, taken, output, sent, cut, gone>>

BindGoes(l, from, to) ==
    /\ bind[l].at = from
    /\ bind' = [bind EXCEPT ![l].at = to]
    /\ UNCHANGED <<netVars, taken, output, binds>>

BindBinding(l) ==
    /\ BindGoes(l, "binding", "bound")
    /\ set' = [set EXCEPT !.binding = TRUE] /\ UNCHANGED <<pending, sent, cut, gone>>

BindBound(l) ==
    /\ BindGoes(l, "bound", "trimmed")
    /\ set' = [set EXCEPT !.bound = TRUE] /\ UNCHANGED <<pending, sent, cut, gone>>

\* Output that was cut off asks for a snapshot as the phone may,
BindReadsTrimmed(l) ==
    /\ bind[l].at = "trimmed"
    /\ Turns(l, "pending", bind[l].snapshot, bind[l].force \/ set.trimmed, <<>>)
    /\ UNCHANGED <<netVars, set, pending, taken, output, binds, sent, cut, gone>>

\* and what is pending is sent instead of one otherwise.
BindReadsPending(l) ==
    /\ bind[l].at = "pending"
    /\ LET next == CASE bind[l].force -> "drop"
                     [] bind[l].snapshot /\ pending = <<>> -> "snapshot"
                     [] OTHER -> "flush"
       IN  Turns(l, next, FALSE, bind[l].force, <<>>)
    /\ UNCHANGED <<netVars, set, pending, taken, output, binds, sent, cut, gone>>

\* A snapshot stands for what is pending then, and for what was cut off.
InSnapshot(n) == n + SnapshotCap > taken

\* get_buffer_snapshot: the latest chunks, in their order.
Snapshot == LET older == IF taken > SnapshotCap THEN taken - SnapshotCap ELSE 0
            IN  [i \in 1..(taken - older) |-> older + i]

BindDropsPending(l) ==
    /\ BindGoes(l, "drop", "unmark")
    /\ pending' = <<>>
    /\ cut' = {n \in cut \cup ToSet(pending) : InSnapshot(n)}
    /\ gone' = gone \cup {n \in cut \cup ToSet(pending) : ~InSnapshot(n)}
    /\ UNCHANGED <<set, sent>>

BindUnmarks(l) ==
    /\ BindGoes(l, "unmark", "snapshot")
    /\ set' = [set EXCEPT !.trimmed = FALSE] /\ UNCHANGED <<pending, sent, cut, gone>>

\* The end of the terminal's buffer, into the receiver's channel.
BindSnapshot(l) ==
    /\ BindGoes(l, "snapshot", IF bind[l].force THEN "unbinding" ELSE "flush")
    /\ sent' = IF l \in open THEN sent \o Snapshot ELSE sent
    /\ gone' = gone \cup {n \in cut : l \in open => ~InSnapshot(n)} /\ cut' = {}
    /\ UNCHANGED <<set, pending>>

FlushHolds(l, at, hold) == Turns(l, at, bind[l].snapshot, bind[l].force, hold)

\* flush_pending_for_session takes what is pending,
FlushTakes(l) ==
    /\ bind[l].at = "flush"
    /\ FlushHolds(l, IF pending = <<>> THEN "clear" ELSE "send", pending)
    /\ pending' = <<>>
    /\ UNCHANGED <<netVars, set, taken, output, binds, sent, cut, gone>>

\* sends it piece by piece as long as the channel takes it,
FlushSends(l) ==
    /\ bind[l].at = "send" /\ l \in open
    /\ sent' = Append(sent, Head(bind[l].hold))
    /\ FlushHolds(l, IF Len(bind[l].hold) = 1 THEN "clear" ELSE "send", Tail(bind[l].hold))
    /\ UNCHANGED <<netVars, set, pending, taken, output, binds, cut, gone>>

\* A mutant: what could not be sent is not put back.
FlushDrops(l) ==
    /\ bind[l].at = "send" /\ l \notin open
    /\ FlushHolds(l, "clear", <<>>)
    /\ UNCHANGED <<netVars, set, pending, taken, output, binds, sent, cut, gone>>

\* and puts the rest back before what came meanwhile.
FlushPutsBack(l) ==
    LET all == bind[l].hold \o pending IN
    /\ bind[l].at = "send" /\ l \notin open
    /\ FlushHolds(l, "clear", <<>>)
    /\ pending' = Capped(all) /\ cut' = cut \cup (ToSet(all) \ ToSet(pending'))
    /\ UNCHANGED <<netVars, set, taken, output, binds, sent, gone>>

FlushUnmarks(l) ==
    /\ BindGoes(l, "clear", "unbinding")
    /\ set' = [set EXCEPT !.trimmed = FALSE] /\ UNCHANGED <<pending, sent, cut, gone>>

\* A request is answered.
Answered(l, from) ==
    /\ bind[l].at = from /\ bind' = [bind EXCEPT ![l] = RestingBind]
    /\ UNCHANGED <<netVars, pending, taken, output, binds, sent, cut, gone>>

BindOver(l) == Answered(l, "unbinding") /\ set' = [set EXCEPT !.binding = FALSE]

\* Unbinding, the buffers are emptied; without a session all of them, which is this one.
UnbindBound(l) ==
    /\ BindGoes(l, "leave", "leaving")
    /\ set' = [set EXCEPT !.bound = FALSE] /\ UNCHANGED <<pending, sent, cut, gone>>

UnbindBinding(l) ==
    /\ BindGoes(l, "leaving", "empty")
    /\ set' = [set EXCEPT !.binding = FALSE] /\ UNCHANGED <<pending, sent, cut, gone>>

UnbindPending(l) == BindGoes(l, "empty", "emptied") /\ GivesUpPending /\ UNCHANGED <<set, sent>>

UnbindTrimmed(l) == Answered(l, "emptied") /\ set' = [set EXCEPT !.trimmed = FALSE]

OutputNext ==
    \/ \E l \in Connections :
         \/ Connect(l) \/ SetBinarySender(l) \/ RegisterFails(l) \/ Registered(l)
         \/ SenderEnds(l) \/ ReceiverEnds(l) \/ HeartbeatEnds(l)
         \/ TakeSender(l) \/ TakeBinarySender(l) \/ ClearBound(l) \/ ClearBinding(l)
    \/ \E k \in Closers :
         \/ ShutSender(k) \/ ShutBinarySender(k) \/ ShutBound(k)
         \/ ShutPending(k) \/ ShutTrimmed(k) \/ ShutBinding(k)
    \/ HandOver \/ AskConnected \/ AskBinding \/ AskBound \/ AskChannel \/ Send \/ Keep \/ MarkTrimmed
    \/ \E l \in Connections :
         \/ \E snapshot, force \in BOOLEAN : Request(l, "binding", snapshot, force)
         \/ Request(l, "leave", FALSE, FALSE)
         \/ BindBinding(l) \/ BindBound(l) \/ BindReadsTrimmed(l) \/ BindReadsPending(l)
         \/ BindDropsPending(l) \/ BindUnmarks(l) \/ BindSnapshot(l)
         \/ FlushTakes(l) \/ FlushSends(l) \/ FlushPutsBack(l) \/ FlushUnmarks(l) \/ BindOver(l)
         \/ UnbindBound(l) \/ UnbindBinding(l) \/ UnbindPending(l) \/ UnbindTrimmed(l)

OutputSpec == OutputInit /\ [][OutputNext]_outputVars

-------------------------------------------------------------------------------

StartPlaces == {"none", "connecting", "registering", "up", "sender", "binary", "bound", "binding", "over"}
ShutPlaces == {"not", "binary", "bound", "pending", "trimmed", "binding", "done"}

OutputTypeOK ==
    /\ start \in [Connections -> StartPlaces] /\ open \subseteq Connections /\ receiving \subseteq Connections
    /\ shut \in [Closers -> ShutPlaces]
    /\ out.sender \in BOOLEAN /\ out.binary \in 0..MaxLinks
    /\ set \in [bound : BOOLEAN, binding : BOOLEAN, trimmed : BOOLEAN]
    /\ taken \in 0..MaxChunks /\ Len(pending) <= PendingCap
    /\ ToSet(pending) \cup ToSet(sent) \cup cut \cup gone \subseteq 1..taken
    /\ \A l \in Connections : Len(bind[l].hold) <= PendingCap /\ ToSet(bind[l].hold) \subseteq 1..taken

\* The chunks in the hands of the receivers' flushes.
Held == UNION {ToSet(bind[l].hold) : l \in Connections}

\* Each chunk handed over was sent into a channel, or is pending, or in the hands of a
\* flush, or was cut off by the cap, or given up with the binding, by a shutdown or for
\* a snapshot: none is forgotten between the locks, whatever binds, unbinds, shuts down
\* and ends meanwhile, receivers of older connections included.
NoChunkForgotten ==
    \A n \in 1..taken :
        \/ n \in ToSet(sent) \cup ToSet(pending) \cup Held \cup cut \cup gone
        \/ n = taken /\ output.at # "idle"

\* What is said of the output and is not so.
\* "to preserve ordering": output is sent in the order in which it came.
InOrder == \A i \in 1..Len(sent) - 1 : sent[i] <= sent[i + 1]

\* "Request a snapshot if desktop has no pending output": a bind sends one or the other.
SentOnce == \A i, j \in DOMAIN sent : binds <= 1 /\ i # j => sent[i] # sent[j]
===============================================================================
