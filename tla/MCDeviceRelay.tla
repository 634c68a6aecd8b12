---------------------------- MODULE MCDeviceRelay -----------------------------
(* The relay with two or three devices and as many connections.               *)
EXTENDS DeviceRelay, TLC

CONSTANTS Part  \* what is explored, a subset of the names below

VARIABLE part

mcVars == <<vars, part>>

MCInit == Init /\ part \in Part

Underway == {e \in Events : pub[e] \in {"numbered", "recorded"}}

Used == {conn[c].dev : c \in Conns} \ {Nobody}

\* "devices":  devices come and go, and nobody is told of it;
\* "events":   a desktop comes to stay and sends a message, while a phone leaves and
\*             comes back;
\* "sessions": one device, whose sessions end and whose server may end.
MCNext ==
    /\ Next
    /\ part # "sessions" => online' = online /\ offline \subseteq offline' /\ bounds' = bounds
    /\ part # "events" => got' = got /\ seq' = 0
    /\ part = "events" =>
          /\ \A e \in Events : source'[e] \notin Mobiles
          /\ Cardinality({c \in Conns : conn'[c].dev \in Desktops}) <= 1
          /\ \A d \in Desktops : client[d] # Nobody => client'[d] = client[d] /\ got'[d] = got[d]
          /\ \A c \in Conns : conn'[c].at # "new" =>
                \/ conn'[c].dev \in Desktops /\ conn'[c].at \notin Gone
                \/ conn'[c].dev \in Mobiles /\ \E x \in Conns : conn[x].dev \in Desktops /\ conn[x].at = "up"
          /\ \A d \in Mobiles : client[d] # Nobody /\ conn[client[d]].at # "up" =>
                client'[d] = client[d] /\ conn'[client[d]].at \notin Gone
    /\ part = "sessions" =>
          /\ Cardinality({conn'[c].dev : c \in Conns} \ {Nobody}) <= 1
          /\ \E c \in Conns : conn'[c].at = "new"
    \* The last connection of a phone stays.
    /\ part = "events" /\ (\A c \in Conns : conn[c].at # "new") =>
          client' = client /\ \A d \in Mobiles : client[d] # Nobody => conn'[client[d]].at \notin Gone
    /\ UNCHANGED part

Symmetry == Permutations(Conns) \cup Permutations(Desktops)

MCSpec == MCInit /\ [][MCNext]_mcVars
================================================================================
