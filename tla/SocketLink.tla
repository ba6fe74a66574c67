----------------------------- MODULE SocketLink -----------------------------
(***************************************************************************)
(* The message protocol of myQtSocket.cpp between one client and a server  *)
(* that takes one connection at a time.                                    *)
(*                                                                         *)
(* Every message is a header that the receiver acknowledges with "end",    *)
(* then the data; a checked file ends with a second "end", a request with  *)
(* a message the other way.  Any failure makes the client close its        *)
(* socket, connect again and start the message over.  TCP keeps the order  *)
(* and the bytes of a connection but may break it at any time; queues hold *)
(* whole items, so a send cut short is a break.  The server's main loop is *)
(* not part of the repository: it calls recieveMessage until that throws   *)
(* or says that the client is gone, then accepts the next connection.      *)
(***************************************************************************)
EXTENDS Integers, SequencesExt

CONSTANTS
    Kinds,      \* kinds of call the client makes
    Retry,      \* QT_SKT_SOCKET_RETRY
    MaxCalls    \* bound on the calls of a behaviour

AllKinds == {"file", "checked file", "message", "empty message", "request",
             "echo", "exit"}

ASSUME LinkAssumption ==
    /\ Kinds \subseteq AllKinds
    /\ Retry \in Nat \ {0}
    /\ MaxCalls \in Nat \ {0}

VARIABLES
    call,       \* the client's last call
    result,     \* "returned" or "threw", "none" while it is under way
    pc,         \* what the client does next
    tries,      \* retry
    cur,        \* the client's connection, NoConn when it has none
    conns,      \* connections in the order they were made
    srv,        \* the connection the server works on, or worked on last
    spc,        \* what the server does next
    got,        \* the header it has received
    log         \* numbers of the messages processed

client == <<call, result, pc, tries, cur>>
server == <<srv, spc, got, log>>
vars == <<client, conns, server>>

NoConn == 0
MaxConns == MaxCalls * Retry + 1

\* Items of a stream.  A reply is a message of its own.
End == [t |-> "end", kind |-> "none", id |-> 0]
Hdr(m) == [t |-> "hdr", kind |-> m.kind, id |-> m.id]
Data(m) == [t |-> "data", kind |-> m.kind, id |-> m.id]
NoCall == [kind |-> "none", id |-> 0]

HasData(kind) == kind \in {"file", "checked file", "message", "request"}
Checked(kind) == kind = "checked file"      \* OP_RECV_CHECK
Retries(kind) == kind \notin {"echo", "exit"}

\* cup: the client's end is open; sup: the server's.
FreshConn == [c2s |-> <<>>, s2c |-> <<>>, cup |-> TRUE, sup |-> TRUE]
DeadConn == [c2s |-> <<>>, s2c |-> <<>>, cup |-> FALSE, sup |-> FALSE]

Items == [t : {"end", "hdr", "data"}, kind : AllKinds \cup {"none"},
          id : 0 .. MaxCalls]

TypeOK ==
    /\ call \in [kind : Kinds \cup {"none"}, id : 0 .. MaxCalls]
    /\ result \in {"idle", "none", "returned", "threw"}
    /\ pc \in {"idle", "hdr", "ack", "data", "check",
              "reply", "reply data", "done", "failed"}
    /\ tries \in 0 .. Retry - 1
    /\ cur \in 0 .. Len(conns)
    /\ Len(conns) <= MaxConns
    /\ \A i \in DOMAIN conns :
          /\ {conns[i].cup, conns[i].sup} \subseteq BOOLEAN
          /\ \A j \in DOMAIN conns[i].c2s : conns[i].c2s[j] \in Items
          /\ \A j \in DOMAIN conns[i].s2c : conns[i].s2c[j] \in Items
    /\ srv \in 0 .. Len(conns)
    /\ spc \in {"accept", "hdr", "data", "process", "reply"}
    /\ got \in Items
    /\ \A j \in DOMAIN log : log[j] \in 1 .. MaxCalls

\* The client has connected, see connectToServer.
Init ==
    /\ call = NoCall /\ result = "idle"
    /\ pc = "idle" /\ tries = 0 /\ cur = 1
    /\ conns = <<FreshConn>>
    /\ srv = 0 /\ spc = "accept" /\ got = End /\ log = <<>>

-----------------------------------------------------------------------------
\* The client: sendFile, sendMessage, sendEcho, sendExit.

Begin(kind) ==
    /\ pc = "idle"
    /\ call.id < MaxCalls
    /\ call' = [kind |-> kind, id |-> call.id + 1]
    /\ result' = "none"
    /\ pc' = "hdr" /\ tries' = 0
    /\ UNCHANGED <<cur, conns, server>>

CanSend == cur # NoConn /\ conns[cur].cup

ToServer(item) ==
    IF conns[cur].sup THEN [conns EXCEPT ![cur].c2s = Append(@, item)] ELSE conns

AfterData(kind) ==
    IF Checked(kind) THEN "check" ELSE IF kind = "request" THEN "reply" ELSE "done"

\* A send to a server that has closed is lost or fails.
Send(item, next) ==
    \/ /\ CanSend
       /\ conns' = ToServer(item)
       /\ pc' = next
    \/ /\ CanSend => ~conns[cur].sup
       /\ pc' = "failed"
       /\ UNCHANGED conns

SendHdr ==
    /\ pc = "hdr"
    /\ Send(Hdr(call), "ack")
    /\ UNCHANGED <<call, result, tries, cur, server>>

SendData ==
    /\ pc = "data"
    /\ Send(Data(call), AfterData(call.kind))
    /\ UNCHANGED <<call, result, tries, cur, server>>

\* _recvLoop on the client's socket: the next item, or an exception once the
\* connection has nothing more to give.
CanReceive == cur # NoConn /\ conns[cur].s2c # <<>>

Received == Head(conns[cur].s2c)

NothingToReceive ==
    cur # NoConn => conns[cur].s2c = <<>> /\ ~(conns[cur].cup /\ conns[cur].sup)

Consume == [conns EXCEPT ![cur].s2c = Tail(@)]

\* Anything but "end" is an error.
AwaitEnd(here, next) ==
    /\ pc = here
    /\ \/ /\ CanReceive
          /\ pc' = IF Received.t = "end" THEN next ELSE "failed"
          /\ conns' = Consume
       \/ NothingToReceive /\ pc' = "failed" /\ UNCHANGED conns
    /\ UNCHANGED <<call, result, tries, cur, server>>

\* Mutant: the acknowledgement is only awaited when data follows.
AwaitAckBeforeData ==
    IF HasData(call.kind) THEN AwaitEnd("ack", "data")
    ELSE /\ pc = "ack"
         /\ pc' = AfterData(call.kind)
         /\ UNCHANGED <<call, result, tries, cur, conns, server>>

AwaitAck ==
    AwaitEnd("ack", IF HasData(call.kind) THEN "data" ELSE AfterData(call.kind))

AwaitCheck == AwaitEnd("check", "done")

\* recieveMessage of a request: the header of the reply is acknowledged.
AwaitReply ==
    /\ pc = "reply"
    /\ \/ /\ CanReceive
          /\ IF Received.t = "hdr"
             THEN /\ pc' = "reply data"
                  /\ conns' = [Consume EXCEPT ![cur].c2s =
                                  IF conns[cur].sup THEN Append(@, End) ELSE @]
             ELSE pc' = "failed" /\ conns' = Consume
       \/ NothingToReceive /\ pc' = "failed" /\ UNCHANGED conns
    /\ UNCHANGED <<call, result, tries, cur, server>>

\* The client's process function may refuse the reply.
AwaitReplyData ==
    /\ pc = "reply data"
    /\ \/ /\ CanReceive /\ Received.t = "data"
          /\ pc' \in {"done", "failed"}
          /\ conns' = Consume
       \/ NothingToReceive /\ pc' = "failed" /\ UNCHANGED conns
    /\ UNCHANGED <<call, result, tries, cur, server>>

Done ==
    /\ pc = "done"
    /\ pc' = "idle" /\ result' = "returned"
    /\ UNCHANGED <<call, tries, cur, conns, server>>

\* Mutant: the old socket is left open.
CloseNothing(i) == {conns}

\* clockSocket.  What was sent and not read yet arrives, or is lost with it.
Close(i) ==
    IF i = NoConn THEN {conns}
    ELSE {[conns EXCEPT ![i] = DeadConn],
          [conns EXCEPT ![i].cup = FALSE, ![i].s2c = <<>>]}

LastTry == tries = Retry - 1

\* The catch clause: close, connect, and the next attempt.  After the last the
\* loop ends in the return of a success: numBytes is of the last send, whatever
\* came after it.
Retried ==
    /\ pc = "failed"
    /\ Retries(call.kind)
    /\ \E closed \in Close(cur) : conns' = Append(closed, FreshConn)
    /\ cur' = Len(conns) + 1
    /\ IF LastTry
       THEN pc' = "idle" /\ result' = "returned" /\ UNCHANGED tries
       ELSE pc' = "hdr" /\ tries' = tries + 1 /\ UNCHANGED result
    /\ UNCHANGED <<call, server>>

\* reConnectToServer fails and throws out of the clause.
ReconnectFails ==
    /\ pc = "failed"
    /\ Retries(call.kind)
    /\ conns' \in Close(cur)
    /\ cur' = NoConn
    /\ pc' = "idle" /\ result' = "threw"
    /\ UNCHANGED <<call, tries, server>>

\* sendEcho and sendExit leave the socket as it is.
Throws ==
    /\ pc = "failed"
    /\ ~Retries(call.kind)
    /\ pc' = "idle" /\ result' = "threw"
    /\ UNCHANGED <<call, tries, cur, conns, server>>

-----------------------------------------------------------------------------
\* The server: its main loop and recieveMessage.

Accept ==
    /\ spc = "accept"
    /\ srv < Len(conns)
    /\ srv' = srv + 1
    /\ spc' = "hdr"
    /\ UNCHANGED <<client, conns, got, log>>

\* Items the server sends are lost when the client has closed.
ToClient(cs, item) ==
    IF cs[srv].cup THEN [cs EXCEPT ![srv].s2c = Append(@, item)] ELSE cs

ServerConsume == [conns EXCEPT ![srv].c2s = Tail(@)]

\* The server's socket is deleted; what it has sent can still be read.
Hangup(cs) == [cs EXCEPT ![srv].sup = FALSE, ![srv].c2s = <<>>]

ServerReceives(here, type) ==
    /\ spc = here
    /\ conns[srv].c2s # <<>>
    /\ Head(conns[srv].c2s).t = type

ServerHdr ==
    /\ ServerReceives("hdr", "hdr")
    /\ got' = Head(conns[srv].c2s)
    /\ LET acked == ToClient(ServerConsume, End)
       IN  IF got'.kind = "exit"
           THEN spc' = "accept" /\ conns' = Hangup(acked)
           ELSE /\ conns' = acked
                /\ spc' = IF got'.kind = "echo" THEN "hdr"
                          ELSE IF HasData(got'.kind) THEN "data" ELSE "process"
    /\ UNCHANGED <<client, srv, log>>

ServerData ==
    /\ ServerReceives("data", "data")
    /\ conns' = ServerConsume
    /\ spc' = "process"
    /\ UNCHANGED <<client, srv, got, log>>

\* Mutant: the file is confirmed whatever its processing said.
ProcessConfirmsAll ==
    /\ spc = "process" /\ got.kind # "request"
    /\ log' \in {log, Append(log, got.id)}
    /\ conns' = IF Checked(got.kind) THEN ToClient(conns, End) ELSE conns
    /\ spc' = "hdr"
    /\ UNCHANGED <<client, srv, got>>

\* The process function, and the second "end" of a checked file.  When it
\* fails, recieveMessage throws.
Process ==
    /\ spc = "process" /\ got.kind # "request"
    /\ \/ /\ log' = Append(log, got.id)
          /\ conns' = IF Checked(got.kind) THEN ToClient(conns, End) ELSE conns
          /\ spc' = "hdr"
       \/ spc' = "accept" /\ conns' = Hangup(conns) /\ UNCHANGED log
    /\ UNCHANGED <<client, srv, got>>

\* The process function of a request answers with sendMessage: the header,
\* and the data once it is acknowledged.
ReplyHdr ==
    /\ spc = "process" /\ got.kind = "request"
    /\ \/ spc' = "reply" /\ conns' = ToClient(conns, Hdr(got))
       \/ spc' = "accept" /\ conns' = Hangup(conns)
    /\ UNCHANGED <<client, srv, got, log>>

ReplyData ==
    /\ ServerReceives("reply", "end")
    /\ conns' = ToClient(ServerConsume, Data(got))
    /\ log' = Append(log, got.id)
    /\ spc' = "hdr"
    /\ UNCHANGED <<client, srv, got>>

\* The client is gone.  The server's sendMessage does not connect again, all
\* its attempts fail, and it returns as if it had sent the reply.
ReplyLost ==
    /\ spc = "reply"
    /\ conns[srv].c2s = <<>> /\ ~conns[srv].cup
    /\ log' = Append(log, got.id)
    /\ spc' = "hdr"
    /\ UNCHANGED <<client, conns, srv, got>>

\* recieveMessage throws: the connection has ended, or what comes is not what
\* is due.
ServerFails ==
    /\ spc \in {"hdr", "data"}
    /\ IF conns[srv].c2s = <<>> THEN ~conns[srv].cup
       ELSE Head(conns[srv].c2s).t # spc
    /\ spc' = "accept"
    /\ conns' = Hangup(conns)
    /\ UNCHANGED <<client, srv, got, log>>

\* The network or a peer resets a connection.
Break ==
    /\ \E i \in DOMAIN conns :
          conns[i] # DeadConn /\ conns' = [conns EXCEPT ![i] = DeadConn]
    /\ UNCHANGED <<client, server>>

ClientStep ==
    \/ SendHdr \/ SendData \/ AwaitAck \/ AwaitCheck
    \/ AwaitReply \/ AwaitReplyData \/ Done
    \/ Retried \/ ReconnectFails \/ Throws

ServerStep ==
    \/ Accept \/ ServerHdr \/ ServerData \/ Process
    \/ ReplyHdr \/ ReplyData \/ ReplyLost \/ ServerFails

Next ==
    \/ \E kind \in Kinds : Begin(kind)
    \/ ClientStep
    \/ ServerStep
    \/ Break

Spec == Init /\ [][Next]_vars

\* Both programs go on: the client through the call, the server through its
\* main loop.  Neither the calls nor the network owe anything.
FairSpec == Spec /\ WF_vars(ClientStep) /\ WF_vars(ServerStep)

-----------------------------------------------------------------------------

\* A call is confirmed once it has met all it waits for, before it returns.
Status == IF pc = "done" THEN "confirmed" ELSE result

Promise == INSTANCE Delivery WITH
               Answered <- Kinds \cap {"checked file", "request"},
               Repeated <- {kind \in Kinds : Retries(kind)},
               attempts <- tries, status <- Status

\* What confirms a checked file or a request, the second "end" or the reply,
\* is about this message, which has been processed; a call returns without it
\* only after all its attempts, as sendFile and sendMessage do without telling
\* their caller.  Messages are processed in the order of the calls.  All this
\* through resets, closed sockets whose data is still on the way, and messages
\* started over.
RefinesDelivery == Promise!Spec

\* The two ends of a connection that is up agree on what comes next: the
\* receiver of a header never finds data or an acknowledgement of something
\* else, whoever failed before.
InStep ==
    /\ srv # 0 /\ conns[srv].c2s # <<>> =>
          CASE spc = "hdr" -> Head(conns[srv].c2s).t = "hdr"
            [] spc = "data" -> Head(conns[srv].c2s) = Data(got)
            [] spc = "reply" -> Head(conns[srv].c2s).t = "end"
            [] OTHER -> TRUE
    /\ cur # NoConn /\ conns[cur].s2c # <<>> =>
          CASE pc \in {"ack", "check"} -> Head(conns[cur].s2c).t = "end"
            [] pc = "reply" -> Head(conns[cur].s2c) = Hdr(call)
            [] pc = "reply data" -> Head(conns[cur].s2c) = Data(call)
            [] pc \in {"idle", "hdr"} -> FALSE
            [] OTHER -> TRUE

\* Every call returns or throws, however often the connection breaks.
CallsReturn == result = "none" ~> result # "none"
=============================================================================
