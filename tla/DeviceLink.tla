------------------------------ MODULE DeviceLink ------------------------------
(***************************************************************************)
(* The life of the desktop's connection to the relay: the flag, the address *)
(* and the task of app_setup/services.rs, the reconnection loop and the     *)
(* connection of services/device_link_client.rs, and the settings, logins   *)
(* and logouts that start and stop it.  One client exists for all of them.  *)
(*                                                                         *)
(* An aborted task ends where it awaits; what it spawned, the sender, the   *)
(* receiver and the heartbeat of its connection, does not end with it.      *)
(***************************************************************************)
EXTENDS Naturals, FiniteSets

CONSTANTS
    Starters,    \* calls of initialize_device_link_connection
    Tasks,       \* tasks it spawns; each is used once
    Links,       \* connections; each is used once
    Servers,     \* addresses the user can select
    MaxChanges,  \* bound: settings, logins, logouts and changes of the server
    MaxFailures, \* bound: connections that fail or break
    NoOne

ASSUME LinkAssumption ==
    NoOne \notin Tasks \cup Links \cup Servers /\ MaxChanges \in Nat /\ MaxFailures \in Nat

VARIABLES
    user,     \* the setting, whether there is a token, and the server selected
    command,  \* a command of the settings or of the logout under way
    known,    \* device_link_server_url
    running,  \* DEVICE_LINK_RUNNING
    slot,     \* device_link_task
    starter,  \* the calls under way
    loop,     \* the tasks, the setting they read and the connection they wait on
    aborted,  \* the tasks aborted where they do not await
    sender,   \* the connection the client sends to
    link,     \* the connections
    used      \* changes, failures and, among the changes, moves to another server so far

linkVars == <<user, command, known, running, slot, starter, loop, aborted, sender, link, used>>
startVars == <<known, running, slot, starter>>
taskVars == <<loop, aborted>>

Idle == [at |-> "idle", url |-> NoOne]

NewTask == [at |-> "none", allow |-> FALSE, link |-> NoOne]

LinkInit ==
    /\ \E u \in Servers : user = [remote |-> TRUE, token |-> TRUE, url |-> u]
    /\ command = "none" /\ known = NoOne /\ running = FALSE /\ slot = NoOne
    /\ starter = [s \in Starters |-> Idle]
    /\ loop = [t \in Tasks |-> NewTask] /\ aborted = {}
    /\ sender = NoOne
    /\ link = [l \in Links |-> [up |-> FALSE, heart |-> FALSE, fresh |-> TRUE]]
    /\ used = [changes |-> 0, failures |-> 0, moves |-> 0]

Change == used.changes < MaxChanges /\ used' = [used EXCEPT !.changes = @ + 1]
Fail == used.failures < MaxFailures /\ used' = [used EXCEPT !.failures = @ + 1]

-------------------------------------------------------------------------------
(* What the user does, and the events that call initialize_device_link_connection. *)

\* The application has started, or a token was refreshed.
Call(s) == starter[s].at = "idle" /\ starter' = [starter EXCEPT ![s].at = "read"]

TokenRefreshed(s) ==
    /\ Change /\ user.token /\ Call(s)
    /\ UNCHANGED <<user, command, known, running, slot, taskVars, sender, link>>

\* update_device_settings: when remote access is on, the connection is (re)started.
AllowRemote(s) ==
    /\ Change /\ command = "none" /\ Call(s)
    /\ user' = [user EXCEPT !.remote = TRUE]
    /\ UNCHANGED <<command, known, running, slot, taskVars, sender, link>>

\* When it is off, the client is shut down.
DenyRemote ==
    /\ Change /\ command = "none" /\ user.remote
    /\ user' = [user EXCEPT !.remote = FALSE] /\ command' = "deny"
    /\ UNCHANGED <<startVars, taskVars, sender, link>>

\* shutdown drops the client's sender; the connection's own tasks have copies of it.  What
\* it does to the output is in TerminalLink.
Shutdown == sender' = NoOne

DenyShutsDown ==
    /\ command = "deny" /\ Shutdown
    /\ command' = "none"
    /\ UNCHANGED <<user, startVars, taskVars, link, used>>

\* logout: the client is shut down, then the token cleared.
Logout ==
    /\ Change /\ command = "none" /\ user.token /\ Shutdown
    /\ command' = "logout"
    /\ UNCHANGED <<user, startVars, taskVars, link>>

LogoutClearsToken ==
    /\ command = "logout" /\ command' = "none"
    /\ user' = [user EXCEPT !.token = FALSE]
    /\ UNCHANGED <<startVars, taskVars, sender, link, used>>

\* A login stores a token; a token stored is also announced as refreshed.
Login(s) ==
    /\ Change /\ command = "none" /\ ~user.token /\ Call(s)
    /\ user' = [user EXCEPT !.token = TRUE]
    /\ UNCHANGED <<command, known, running, slot, taskVars, sender, link>>

SelectServer(u) ==
    /\ user.url # u /\ used.changes < MaxChanges
    /\ used' = [used EXCEPT !.changes = @ + 1, !.moves = @ + 1]
    /\ user' = [user EXCEPT !.url = u]
    /\ UNCHANGED <<command, startVars, taskVars, sender, link>>

-------------------------------------------------------------------------------
(* initialize_device_link_connection.                                         *)

StarterGoes(s, from, yes, next) ==
    /\ starter[s].at = from
    /\ starter' = [starter EXCEPT ![s] = IF yes THEN next ELSE Idle]
    /\ UNCHANGED <<user, command, known, running, slot, taskVars, sender, link, used>>

\* Nothing is started without a token or with remote access off.
StarterReadsToken(s) == StarterGoes(s, "read", user.token, [at |-> "setting", url |-> NoOne])

StarterReadsSetting(s) == StarterGoes(s, "setting", user.remote, [at |-> "server", url |-> NoOne])

StarterReadsServer(s) == StarterGoes(s, "server", TRUE, [at |-> "check", url |-> user.url])

\* Under the restart lock: a client that runs is left alone, unless the server changed.
StarterChecks(s) ==
    LET changed == known # starter[s].url IN
    /\ starter[s].at = "check"
    /\ known' = starter[s].url
    /\ running' = TRUE
    /\ starter' = [starter EXCEPT ![s] = CASE running /\ ~changed -> Idle
                                           [] running /\ changed  -> [@ EXCEPT !.at = "shut"]
                                           [] OTHER               -> [@ EXCEPT !.at = "spawn"]]
    /\ UNCHANGED <<user, command, slot, taskVars, sender, link, used>>

StarterShutsDown(s) ==
    /\ starter[s].at = "shut" /\ Shutdown
    /\ starter' = [starter EXCEPT ![s].at = "spawn"]
    /\ UNCHANGED <<user, command, known, running, slot, taskVars, link, used>>

\* Which of the tasks and connections that are left is next does not matter.
NextTask == CHOOSE t \in Tasks : loop[t].at = "none"
NextLink == CHOOSE l \in Links : link[l].fresh

Awaiting == {"loop", "read", "connect", "live", "backoff"}

\* Under the task lock: the task that is there is aborted, and another takes its place.
StarterSpawns(s, t) ==
    LET old == slot IN
    /\ starter[s].at = "spawn" /\ loop[t].at = "none" /\ t = NextTask
    /\ slot' = t
    /\ loop' = [u \in Tasks |->
                  CASE u = t -> [loop[u] EXCEPT !.at = "restart"]
                    [] u = old /\ loop[u].at \in Awaiting -> [loop[u] EXCEPT !.at = "gone"]
                    [] OTHER -> loop[u]]
    /\ aborted' = aborted \cup ({old} \ {NoOne})
    /\ starter' = [starter EXCEPT ![s] = Idle]
    /\ UNCHANGED <<user, command, known, running, sender, link, used>>

-------------------------------------------------------------------------------
(* The task: restart_device_link_client and start_device_link_client.         *)

Goes(t, at) == loop' = [loop EXCEPT ![t].at = IF t \in aborted /\ at \in Awaiting THEN "gone" ELSE at]

TaskRestarts(t) ==
    /\ loop[t].at = "restart" /\ Shutdown
    /\ Goes(t, "loop")
    /\ UNCHANGED <<user, command, startVars, aborted, link, used>>

\* The loop goes on as long as there is a token.
TaskLoops(t) ==
    /\ loop[t].at = "loop"
    /\ Goes(t, IF user.token THEN "read" ELSE "ended")
    /\ UNCHANGED <<user, command, startVars, aborted, sender, link, used>>

\* start reads the setting before it registers the device, and uses it after that.
TaskReads(t) ==
    /\ loop[t].at = "read"
    /\ loop' = [loop EXCEPT ![t].at = "connect", ![t].allow = user.remote]
    /\ UNCHANGED <<user, command, startVars, aborted, sender, link, used>>

\* A mutant: a loop that gives up leaves the flag set.
TaskReturns(t) ==
    /\ loop[t].at = "connect" /\ ~(user.token /\ loop[t].allow)
    /\ Goes(t, "clear")
    /\ UNCHANGED <<user, command, startVars, aborted, sender, link, used>>

\* Without a token, or with remote access off, the loop is over.
TaskGivesUp(t) ==
    /\ loop[t].at = "connect" /\ ~(user.token /\ loop[t].allow)
    /\ Goes(t, "ended")
    /\ UNCHANGED <<user, command, startVars, aborted, sender, link, used>>

TaskFails(t) ==
    /\ loop[t].at = "connect" /\ user.token /\ Fail
    /\ Goes(t, "backoff")
    /\ UNCHANGED <<user, command, startVars, aborted, sender, link>>

\* The registration or the server can refuse the token.
TaskRefused(t) ==
    /\ loop[t].at = "connect" /\ Fail
    /\ Goes(t, "ended")
    /\ UNCHANGED <<user, command, startVars, aborted, sender, link>>

TaskConnects(t, l) ==
    /\ loop[t].at = "connect" /\ user.token /\ loop[t].allow /\ link[l].fresh /\ l = NextLink
    /\ link' = [link EXCEPT ![l] = [up |-> TRUE, heart |-> TRUE, fresh |-> FALSE]]
    /\ sender' = l
    /\ loop' = [loop EXCEPT ![t].at = "live", ![t].link = l]
    /\ UNCHANGED <<user, command, startVars, aborted, used>>

\* When one of the connection's tasks ends, start stops waiting for the others,
WokenBy(l) == loop' = [t \in Tasks |-> IF loop[t].at = "live" /\ loop[t].link = l
                                       THEN [loop[t] EXCEPT !.at = "clean"] ELSE loop[t]]

\* the heartbeat's because remote access is off,
HeartStops(l) ==
    /\ link[l].heart /\ ~user.remote
    /\ link' = [link EXCEPT ![l].heart = FALSE] /\ WokenBy(l)
    /\ UNCHANGED <<user, command, startVars, aborted, sender, used>>

\* the receiver's or the sender's because the connection broke,
LinkBreaks(l) ==
    /\ link[l].up /\ Fail
    /\ link' = [link EXCEPT ![l].up = FALSE, ![l].heart = FALSE] /\ WokenBy(l)
    /\ UNCHANGED <<user, command, startVars, aborted, sender>>

\* and the client's sender is taken back, whose ever it is.
TaskCleans(t) ==
    /\ loop[t].at = "clean" /\ sender' = NoOne
    /\ Goes(t, "backoff")
    /\ UNCHANGED <<user, command, startVars, aborted, link, used>>

TaskResumes(t) ==
    /\ loop[t].at = "backoff"
    /\ Goes(t, "loop")
    /\ UNCHANGED <<user, command, startVars, aborted, sender, link, used>>

\* The end of the task: the flag first, then the slot.
TaskEnds(t) ==
    /\ loop[t].at = "ended"
    /\ running' = FALSE
    /\ Goes(t, "clear")
    /\ UNCHANGED <<user, command, known, slot, starter, aborted, sender, link, used>>

TaskClears(t) ==
    /\ loop[t].at = "clear"
    /\ slot' = NoOne
    /\ Goes(t, "gone")
    /\ UNCHANGED <<user, command, known, running, starter, aborted, sender, link, used>>

LinkNext ==
    \/ \E s \in Starters :
         \/ TokenRefreshed(s) \/ AllowRemote(s) \/ Login(s)
         \/ StarterReadsToken(s) \/ StarterReadsSetting(s) \/ StarterReadsServer(s)
         \/ StarterChecks(s) \/ StarterShutsDown(s)
         \/ \E t \in Tasks : StarterSpawns(s, t)
    \/ DenyRemote \/ DenyShutsDown \/ Logout \/ LogoutClearsToken
    \/ \E u \in Servers : SelectServer(u)
    \/ \E t \in Tasks :
         \/ TaskRestarts(t) \/ TaskLoops(t) \/ TaskReads(t) \/ TaskGivesUp(t) \/ TaskFails(t)
         \/ TaskRefused(t) \/ TaskCleans(t) \/ TaskResumes(t) \/ TaskEnds(t) \/ TaskClears(t)
         \/ \E l \in Links : TaskConnects(t, l)
    \/ \E l \in Links : HeartStops(l) \/ LinkBreaks(l)

LinkSpec == LinkInit /\ [][LinkNext]_linkVars

-------------------------------------------------------------------------------

StarterPlaces == {"idle", "read", "setting", "server", "check", "shut", "spawn"}

LinkTypeOK ==
    /\ user \in [remote : BOOLEAN, token : BOOLEAN, url : Servers]
    /\ command \in {"none", "deny", "logout"}
    /\ known \in Servers \cup {NoOne} /\ running \in BOOLEAN
    /\ slot \in Tasks \cup {NoOne} /\ aborted \subseteq Tasks /\ sender \in Links \cup {NoOne}
    /\ starter \in [Starters -> [at : StarterPlaces, url : Servers \cup {NoOne}]]
    /\ \A t \in Tasks : loop[t].at \in Awaiting \cup {"none", "restart", "clean", "ended", "clear", "gone"}
    /\ link \in [Links -> [up : BOOLEAN, heart : BOOLEAN, fresh : BOOLEAN]]

\* The tasks that are in the loop, or will be.
Looping == {t \in Tasks \ aborted : loop[t].at \in Awaiting \cup {"restart", "clean"}}

Spawning == {s \in Starters : starter[s].at \in {"shut", "spawn"}}

\* As long as the server was not changed, whatever calls, settings, logins and failures
\* there were: one task at most connects, and the flag that makes the next call start
\* another one or not is true to it, so it is never left set when nothing runs any more.
OneLoop == used.moves = 0 =>
    /\ Cardinality(Looping) + Cardinality(Spawning) <= 1
    /\ running <=> Looping # {} \/ Spawning # {} \/ \E t \in Tasks : loop[t].at = "ended"

\* What is said of the connection and is not so.
\* "If remote access is enabled, always (re)start the device link connection": when
\* nothing of it is under way any more, the client can send to the connection there is.
ForwardsWhenOn ==
    user.remote /\ user.token /\ command = "none" /\ (\A s \in Starters : starter[s] = Idle) =>
        \A t \in Looping : loop[t].at = "live" => sender = loop[t].link

\* "server URL changed, restarting": the loop that ran before is stopped.
OneTask == Cardinality(Looping) <= 1

\* "Remote access disabled": after the loop has given up, no connection is left open.
OffCloses ==
    ~user.remote /\ Looping = {} /\ Spawning = {} => \A l \in Links : ~link[l].up \/ link[l].heart
===============================================================================
