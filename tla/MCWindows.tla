----------------------------- MODULE MCWindows -----------------------------
(* Instances of the Windows edition for TLC: the proxies and the launches   *)
(* (Proxies) and one connection of a proxy (Socks).  They share no variable, *)
(* so that a behaviour of both is one of each: here one of them moves, the  *)
(* other stands still, before anything that has to happen.                  *)
EXTENDS ProxiesProps

CONSTANT MaxChunks

VARIABLES
    part,           \* what moves: "proxies" or "connection"
    stage,          \* of the connection's handler
    replies, writer, remote, clientEnd, remoteEnd, deaf, sent, arrived, read, delivered, pump

connection == <<stage, replies, writer, remote, clientEnd, remoteEnd, deaf, sent, arrived, read, delivered, pump>>

S == INSTANCE Socks WITH step <- stage

ASSUME ChunksAreCounted == MaxChunks \in Nat

WindowsInit ==
    /\ part \in {"proxies", "connection"}
    /\ Init /\ S!Init
    /\ part = "connection" => user = "window"

WindowsNext ==
    \/ part = "proxies" /\ Next /\ UNCHANGED <<part, connection>>
    \/ part = "connection" /\ S!Next /\ UNCHANGED <<part, vars>>

WindowsSpec == WindowsInit /\ [][WindowsNext]_<<part, vars, connection>> /\ Fairness /\ S!Fairness

-----------------------------------------------------------------------------
(* What is claimed of a connection: see Socks. *)

\* What goes through a proxy arrives as it was sent: a request has one reply at most,
\* success if a connection was opened (_socks5_handshake), and what a peer gets is a
\* prefix of what the other sent (_relay).
RelayIsRight == S!TypeOK /\ S!OneReply /\ S!Prefix

\* Neither connection of a proxy outlives the other (_handle_client) while both peers
\* read, unless the client is gone before the reply of success; and a launch returns,
\* as does all that the user waits for (start_proxy, stop_all).
EverythingEnds == LaunchesReturn /\ S!BothClosed
=============================================================================
