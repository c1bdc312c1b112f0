------------------------------- MODULE Socks -------------------------------
(***************************************************************************)
(* One connection of a SOCKS5 proxy (windows/core/proxy_engine.py): the    *)
(* handshake, the connection to the destination, and the relay, whose two  *)
(* directions are tasks of their own.  Either peer may end its side or go  *)
(* away at any moment, or stop reading.  Data is counted in chunks.        *)
(***************************************************************************)
EXTENDS Naturals, Sequences

CONSTANT MaxChunks      \* bound on the chunks each peer sends

VARIABLES
    step,           \* the handler: what it waits for
    replies,        \* what it has written to the client before the relay
    writer,         \* its transport to the client: "open" or "closed"
    remote,         \* its transport to the destination: "none", "open" or "closed"
    clientEnd,      \* the client: "open", "eof" once it has nothing more to send, "gone"
    remoteEnd,      \* the destination, likewise
    deaf,           \* the directions whose target has stopped reading for good
    \* of each direction, "up" to the destination and "down" to the client
    sent,           \* chunks the peer has sent
    arrived,        \* chunks in the reader's buffer or taken out of it
    read, delivered,
    pump            \* the relay's task: "off", "read", "write" or "done"

peers == <<clientEnd, remoteEnd, deaf, sent>>
relay == <<read, delivered, pump>>
vars == <<step, replies, writer, remote, peers, arrived, relay>>

Way == {"up", "down"}
Failures == {"unreachable host", "refused", "unreachable net"}

Init ==
    /\ step = "greeting" /\ replies = <<>>
    /\ writer = "open" /\ remote = "none"
    /\ clientEnd = "open" /\ remoteEnd = "open" /\ deaf = {}
    /\ sent = [w \in Way |-> 0] /\ arrived = [w \in Way |-> 0]
    /\ read = [w \in Way |-> 0] /\ delivered = [w \in Way |-> 0]
    /\ pump = [w \in Way |-> "off"]

(***************************************************************************)
(* The handshake.  What the client sends next is what is read next; a      *)
(* client that ends its side first leaves a read incomplete.               *)
(***************************************************************************)
Quiet == UNCHANGED <<remote, peers, arrived, relay>>
Hears == clientEnd = "open"

\* An error and an early return alike end in the closing of the writer.
Leave(codes) ==
    /\ replies' = replies \o codes
    /\ writer' = "closed"
    /\ step' = "end"

Incomplete ==
    /\ step \in {"greeting", "request", "address"} /\ ~Hears
    /\ Leave(<<>>) /\ Quiet

Greeting ==
    /\ step = "greeting" /\ Hears
    /\ \/ Leave(<<>>)                                   \* another version
       \/ step' = "request" /\ replies' = <<"no auth">> /\ UNCHANGED writer
    /\ Quiet

Request ==
    /\ step = "request" /\ Hears
    /\ \/ Leave(<<"not allowed">>)                      \* not CONNECT
       \/ Leave(<<"failure">>)                          \* no address type known
       \/ step' = "address" /\ UNCHANGED <<replies, writer>>
    /\ Quiet

Address ==
    /\ step = "address" /\ Hears
    /\ step' = "connect"
    /\ UNCHANGED <<replies, writer>> /\ Quiet

\* Fifteen seconds, a refusal, or any other failure of the network; what is none of
\* these, such as a name that cannot be encoded, has no reply.
ConnectFails ==
    /\ step = "connect"
    /\ \/ \E code \in Failures : Leave(<<code>>)
       \/ Leave(<<>>)
    /\ Quiet

\* Mutant: the connection is opened, and answered by the reply of a failure.
Connect_Unanswered ==
    /\ step = "connect"
    /\ step' = "relay" /\ remote' = "open"
    /\ pump' = [w \in Way |-> "read"]
    /\ UNCHANGED <<replies, writer, peers, arrived, read, delivered>>

\* The reply raises if the client is gone by then, ahead of the clause that closes
\* the connection to the destination.
Connect ==
    /\ step = "connect"
    /\ remote' = "open" /\ replies' = Append(replies, "success")
    /\ \/ step' = "relay" /\ pump' = [w \in Way |-> "read"] /\ UNCHANGED writer
       \/ clientEnd = "gone" /\ step' = "end" /\ writer' = "closed" /\ UNCHANGED pump
    /\ UNCHANGED <<peers, arrived, read, delivered>>

(***************************************************************************)
(* The relay.  A writer that is closed stops the reading of its transport  *)
(* as well: what arrives later is lost, and the reader sees the end once   *)
(* the transport has sent what it holds.                                   *)
(***************************************************************************)
Source(w) == IF w = "up" THEN writer ELSE remote
Peer(w) == IF w = "up" THEN clientEnd ELSE remoteEnd
Other(w) == IF w = "up" THEN "down" ELSE "up"
Ended(w) == Source(w) = "closed" \/ Peer(w) # "open"
Gone(w) == Peer(Other(w)) = "gone"

\* All is read before the end of the source is, unless the source was reset.
AtEnd(w) ==
    /\ Ended(w)
    /\ \/ Peer(w) = "gone"
       \/ read[w] = arrived[w] /\ (Source(w) = "open" => arrived[w] = sent[w])

Arrive(w) ==
    /\ arrived[w] < sent[w] /\ Source(w) = "open" /\ step = "relay"
    /\ arrived' = [arrived EXCEPT ![w] = @ + 1]
    /\ UNCHANGED <<step, replies, writer, remote, peers, relay>>

\* Mutant: the next chunk is read before the last one is written.
Read_Ahead(w) ==
    /\ pump[w] # "off" /\ read[w] < arrived[w]
    /\ read' = [read EXCEPT ![w] = @ + 1]
    /\ UNCHANGED <<step, replies, writer, remote, peers, arrived, delivered, pump>>

Read(w) ==
    /\ pump[w] = "read" /\ read[w] < arrived[w]
    /\ read' = [read EXCEPT ![w] = @ + 1]
    /\ pump' = [pump EXCEPT ![w] = "write"]
    /\ UNCHANGED <<step, replies, writer, remote, peers, arrived, delivered>>

CloseTarget(w) ==
    /\ writer' = IF w = "down" THEN "closed" ELSE writer
    /\ remote' = IF w = "up" THEN "closed" ELSE remote

Open(w) == (IF w = "up" THEN remote ELSE writer) = "open"

\* Mutant: a chunk that was written is written again.
Write_Twice(w) ==
    /\ pump[w] = "write" /\ Open(w) /\ ~Gone(w)
    /\ delivered' = [delivered EXCEPT ![w] = @ + 2]
    /\ pump' = [pump EXCEPT ![w] = "read"]
    /\ UNCHANGED <<step, replies, writer, remote, peers, arrived, read>>

Write(w) ==
    /\ pump[w] = "write" /\ Open(w) /\ ~Gone(w)
    /\ delivered' = [delivered EXCEPT ![w] = @ + 1]
    /\ pump' = [pump EXCEPT ![w] = "read"]
    /\ UNCHANGED <<step, replies, writer, remote, peers, arrived, read>>

\* Mutant: the end of a source is not passed on.
EndRelay_Kept(w) ==
    /\ \/ pump[w] = "read" /\ AtEnd(w)
       \/ pump[w] = "write" /\ (~Open(w) \/ Gone(w))
    /\ pump' = [pump EXCEPT ![w] = "done"]
    /\ UNCHANGED <<step, replies, writer, remote, peers, arrived, read, delivered>>

\* At the end of its source, and at an error, a task closes its target.
EndRelay(w) ==
    /\ \/ pump[w] = "read" /\ AtEnd(w)
       \/ pump[w] = "write" /\ (~Open(w) \/ Gone(w))
    /\ pump' = [pump EXCEPT ![w] = "done"]
    /\ CloseTarget(w)
    /\ UNCHANGED <<step, replies, peers, arrived, read, delivered>>

Finish ==
    /\ step = "relay" /\ \A w \in Way : pump[w] = "done"
    /\ step' = "end" /\ remote' = "closed" /\ writer' = "closed"
    /\ UNCHANGED <<replies, peers, arrived, relay>>

(***************************************************************************)
(* The peers.                                                              *)
(***************************************************************************)
Send(w) ==
    /\ Peer(w) = "open"
    /\ remote = "open" /\ sent[w] < MaxChunks
    /\ sent' = [sent EXCEPT ![w] = @ + 1]
    /\ UNCHANGED <<step, replies, writer, remote, clientEnd, remoteEnd, deaf, arrived, relay>>

ClientEnds(how) ==
    /\ clientEnd # "gone" /\ clientEnd # how
    /\ clientEnd' = how
    /\ UNCHANGED <<step, replies, writer, remote, remoteEnd, deaf, sent, arrived, relay>>

RemoteEnds(how) ==
    /\ remote # "none" /\ remoteEnd # "gone" /\ remoteEnd # how
    /\ remoteEnd' = how
    /\ UNCHANGED <<step, replies, writer, remote, clientEnd, deaf, sent, arrived, relay>>

\* The target of a direction stops reading: a task may wait for it for ever (drain).
StopsReading(w) ==
    /\ step = "relay" /\ w \notin deaf
    /\ deaf' = deaf \cup {w}
    /\ UNCHANGED <<step, replies, writer, remote, clientEnd, remoteEnd, sent, arrived, relay>>

Handler == Incomplete \/ Greeting \/ Request \/ Address \/ ConnectFails \/ Connect \/ Finish
Relay == \E w \in Way : Arrive(w) \/ Read(w) \/ Write(w) \/ EndRelay(w)
Peers ==
    \/ \E w \in Way : Send(w) \/ StopsReading(w)
    \/ \E how \in {"eof", "gone"} : ClientEnds(how) \/ RemoteEnds(how)

Next == Handler \/ Relay \/ Peers

Spec == Init /\ [][Next]_vars

\* What a transport holds goes out if its peer reads, or is lost with a peer that is gone.
Flushed(w) == w \notin deaf \/ Gone(w)

\* The event loop runs what is ready, and the attempt to connect ends in fifteen
\* seconds; peers need not do anything, and a chunk need not be taken by one that
\* does not read.
Fairness ==
    /\ WF_vars(Connect \/ ConnectFails)
    /\ WF_vars(Incomplete) /\ WF_vars(Finish)
    /\ \A w \in Way : WF_vars(Arrive(w)) /\ WF_vars(Read(w))
    /\ \A w \in Way : WF_vars(w \notin deaf /\ Write(w))
    /\ \A w \in Way : WF_vars((Source(w) = "closed" => Flushed(Other(w))) /\ EndRelay(w))

FairSpec == Spec /\ Fairness

(***************************************************************************)
(* What is claimed.                                                        *)
(***************************************************************************)
TypeOK ==
    /\ step \in {"greeting", "request", "address", "connect", "relay", "end"}
    /\ replies \in Seq({"no auth", "not allowed", "failure", "success"} \cup Failures)
    /\ writer \in {"open", "closed"} /\ remote \in {"none", "open", "closed"}
    /\ {clientEnd, remoteEnd} \subseteq {"open", "eof", "gone"}
    /\ deaf \subseteq Way
    /\ {sent, arrived, read, delivered} \subseteq [Way -> 0..MaxChunks]
    /\ pump \in [Way -> {"off", "read", "write", "done"}]

\* A request has one reply at most, success if and only if a connection was opened,
\* and the client sees nothing of the destination before it (_socks5_handshake).
OneReply ==
    /\ Len(replies) <= 2
    /\ (remote # "none") <=> (Len(replies) = 2 /\ replies[2] = "success")
    /\ delivered["down"] > 0 => Len(replies) = 2

\* Nothing is made up, repeated or overtaken: what a peer gets is a prefix of
\* what the other sent, one chunk at most being between the two (_relay).
Prefix ==
    \A w \in Way :
        /\ delivered[w] <= read[w] /\ read[w] <= arrived[w] /\ arrived[w] <= sent[w]
        /\ pump[w] \in {"read", "done"} /\ Open(w) /\ ~Gone(w) => read[w] = delivered[w]

\* Neither connection outlives the other: once a peer is gone, or has ended its
\* side, both transports come to be closed (the finally clauses of _relay,
\* _socks5_handshake and _handle_client), unless a peer that is still there does not
\* read, or the client was gone before it was told of the connection.
Unheard == \E w \in Way : ~Flushed(w)
Abandoned == step = "end" /\ remote = "open" /\ clientEnd = "gone" /\ writer = "closed"
BothClosed ==
    /\ (clientEnd # "open") ~> ((writer = "closed" /\ remote # "open") \/ Unheard \/ Abandoned)
    /\ (remoteEnd # "open") ~> ((writer = "closed" /\ remote = "closed") \/ Unheard \/ Abandoned)

\* _relay: "Pipe data from src to dst until EOF or error": a client that has sent
\* all it has, and waits, gets all that the destination answers.
AnswerArrives ==
    \A n \in 1..MaxChunks :
        (sent["down"] = n) ~> (delivered["down"] >= n \/ clientEnd = "gone" \/ remoteEnd = "gone" \/ Unheard)
=============================================================================
