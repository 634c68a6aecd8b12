------------------------------- MODULE MCDesktop -------------------------------
(* Small instances of the terminals, of the connection to the relay and of the *)
(* file locks, each explored by itself: what the first two exchange is in      *)
(* TerminalLink's HandOver.                                                    *)
EXTENDS TerminalSession, TerminalLink, DeviceLink, FileLocks

CONSTANTS
    Part,       \* what is explored, a subset of the names below
    MaxEffort   \* bound: Effort, the connections, requests of the phone and chunks

VARIABLE part

B(starts, attaches, chunks, ticks, errors, ends) ==
    [starts |-> starts, attaches |-> attaches, chunks |-> chunks, ticks |-> ticks,
     errors |-> errors, ends |-> ends]

\* One process with an error, an end of the application and what is restored after it;
\* two processes; and what the runs of single claims use.
FewStarts == {B(1, 1, 3, 1, 1, 0), B(1, 0, 1, 1, 1, 1), B(2, 0, 1, 1, 1, 0)}
ManyStarts == {B(2, 1, 4, 2, 1, 1)}

\* "terminal", "output", "link" and "files": one of the four modules.
MCInit ==
    /\ part \in Part /\ TerminalInit /\ OutputInit /\ LinkInit /\ LocksInit
    /\ part = "files" \/ disk = [f \in Files |-> NoFile]
    /\ user.url = CHOOSE u \in Servers : TRUE
    /\ part = "terminal" \/ budget = CHOOSE b \in Budgets : TRUE

\* A connection counts once more for a shutdown.
Effort ==
    LET links == Cardinality({l \in Connections : start[l] # "none"})
        shuts == Cardinality({k \in Closers : shut[k] # "not"})
    IN  links * (1 + shuts) + binds + taken

\* A start begins when those before it are over or, waiting, were aborted after a shutdown.
OneStart ==
    \A l \in Connections : start[l] = "none" \/
        \A m \in 1..(l - 1) : start[m] = "over" \/ (start[m] = "up" /\ \E k \in Closers : shut[k] = "done")

MCOutputNext == OutputNext /\ (Effort <= MaxEffort /\ OneStart)'

MCNext ==
    /\ UNCHANGED part
    /\ \/ part = "terminal" /\ TerminalNext /\ UNCHANGED <<outputVars, linkVars, lockVars>>
       \/ part = "output" /\ MCOutputNext /\ UNCHANGED <<terminalVars, linkVars, lockVars>>
       \/ part = "link" /\ LinkNext /\ UNCHANGED <<terminalVars, outputVars, lockVars>>
       \/ part = "files" /\ LocksNext /\ UNCHANGED <<terminalVars, outputVars, linkVars>>

\* What changes in a part.  sent, cut and gone only record what became of a chunk: no step
\* asks for them, and what the run checks of them is whether a chunk is in one of the three.
PartView ==
    <<part,
      CASE part = "terminal" -> terminalVars
        [] part = "output" -> <<netVars, set, pending, taken, output, receiverVars, ToSet(sent) \cup cut \cup gone>>
        [] part = "link" -> linkVars
        [] part = "files" -> lockVars>>

DesktopTypeOK == TerminalTypeOK /\ OutputTypeOK /\ LinkTypeOK /\ LocksTypeOK
===============================================================================
