------------------------- MODULE SocketLink_proofs -------------------------
(***************************************************************************)
(* Proofs about the message protocol of SocketLink.tla, for any number of  *)
(* calls and attempts: both ends of a connection agree on what comes next, *)
(* and the protocol implements Delivery.                                   *)
(***************************************************************************)
EXTENDS SocketLink, SequenceTheorems, TLAPS

Conn == [c2s : Seq(Items), s2c : Seq(Items), cup : BOOLEAN, sup : BOOLEAN]

WithAnswer == {"checked file", "request"}
Headers == {x \in Items : x.t = "hdr"}

\* Headers that wait in a queue.
Waiting(q) == {x \in ToSet(q) : x.t = "hdr"}

-----------------------------------------------------------------------------
\* Queues of at most two items

LEMMA ShortQueues ==
    ASSUME NEW x, NEW y
    PROVE  /\ Append(<<>>, x) = <<x>> /\ Append(<<y>>, x) = <<y, x>>
           /\ Head(<<x>>) = x /\ Head(<<x, y>>) = x
           /\ Tail(<<x>>) = <<>> /\ Tail(<<x, y>>) = <<y>>
           /\ <<x>> # <<>> /\ <<x, y>> # <<>>
<1>1. Append(<<>>, x) = <<x>>
    OBVIOUS
<1>2. Append(<<y>>, x) = <<y, x>>
    <2> DEFINE S == {x, y}
               s == <<y>>
               r == <<y, x>>
    <2>1. s \in Seq(S) /\ Len(s) = 1 /\ s[1] = y /\ x \in S
        OBVIOUS
    <2>2. r \in Seq(S) /\ Len(r) = 2 /\ r[1] = y /\ r[2] = x
        OBVIOUS
    <2> HIDE DEF S, s, r
    <2>3. Append(s, x) \in Seq(S) /\ Len(Append(s, x)) = 2
        BY <2>1
    <2>4. Append(s, x)[1] = y /\ Append(s, x)[2] = x
        BY <2>1, AppendProperties
    <2>5. Append(s, x) = r
        BY <2>2, <2>3, <2>4, SeqEqual
    <2> QED
        BY <2>5 DEF s, r
<1>3. Head(<<x>>) = x /\ Head(<<x, y>>) = x
    OBVIOUS
<1>4. Tail(<<x>>) = <<>>
    OBVIOUS
<1>5. Tail(<<x, y>>) = <<y>>
    OBVIOUS
<1>6. <<x>> # <<>> /\ <<x, y>> # <<>>
    OBVIOUS
<1> QED
    BY <1>1, <1>2, <1>3, <1>4, <1>5, <1>6

LEMMA WaitingOf ==
    ASSUME NEW x, NEW y
    PROVE  /\ Waiting(<<>>) = {}
           /\ Waiting(<<x>>) = IF x.t = "hdr" THEN {x} ELSE {}
           /\ Waiting(<<x, y>>) = Waiting(<<x>>) \cup Waiting(<<y>>)
<1>1. ToSet(<<>>) = {}
    BY DEF ToSet
<1>2. \A z : ToSet(<<z>>) = {z}
    BY DEF ToSet
<1>3. ToSet(<<x, y>>) = {x, y}
    <2>1. DOMAIN <<x, y>> = {1, 2}
        OBVIOUS
    <2>2. <<x, y>>[1] = x /\ <<x, y>>[2] = y
        OBVIOUS
    <2> QED
        BY <2>1, <2>2 DEF ToSet
<1>4. Waiting(<<>>) = {}
    BY <1>1 DEF Waiting
<1>5. \A z : Waiting(<<z>>) = IF z.t = "hdr" THEN {z} ELSE {}
    BY <1>2 DEF Waiting
<1>6. Waiting(<<x, y>>) = {z \in {x, y} : z.t = "hdr"}
    BY <1>3 DEF Waiting
<1> QED
    BY <1>4, <1>5, <1>6

LEMMA ItemTypes ==
    /\ End \in Items /\ End.t = "end" /\ End.id = 0 /\ End.kind = "none"
    /\ \A m \in [kind : Kinds \cup {"none"}, id : 0 .. MaxCalls] :
          /\ Hdr(m) \in Headers /\ Hdr(m).t = "hdr" /\ Hdr(m).id = m.id /\ Hdr(m).kind = m.kind
          /\ Data(m) \in Items /\ Data(m).t = "data" /\ Data(m).id = m.id
          /\ Data(m).kind = m.kind
<1>1. MaxCalls \in Nat /\ Kinds \subseteq AllKinds
    BY LinkAssumption
<1>2. End \in Items /\ End.t = "end" /\ End.id = 0 /\ End.kind = "none"
    BY <1>1 DEF Items, End
<1>3. ASSUME NEW m \in [kind : Kinds \cup {"none"}, id : 0 .. MaxCalls]
      PROVE  /\ Hdr(m) \in Headers /\ Hdr(m).t = "hdr" /\ Hdr(m).id = m.id
             /\ Hdr(m).kind = m.kind
             /\ Data(m) \in Items /\ Data(m).t = "data" /\ Data(m).id = m.id
             /\ Data(m).kind = m.kind
    <2>1. m.kind \in AllKinds \cup {"none"} /\ m.id \in 0 .. MaxCalls
        BY <1>1
    <2> QED
        BY <2>1 DEF Items, Headers, Hdr, Data
<1> QED
    BY <1>2, <1>3

\* Replacing one connection.
LEMMA SetConn ==
    ASSUME NEW cs \in Seq(Conn), NEW i \in 1 .. Len(cs), NEW c \in Conn
    PROVE  LET new == [cs EXCEPT ![i] = c]
           IN  /\ new \in Seq(Conn) /\ Len(new) = Len(cs) /\ DOMAIN new = DOMAIN cs
               /\ new[i] = c
               /\ \A j \in DOMAIN cs : j # i => new[j] = cs[j]
OBVIOUS

LEMMA AddConn ==
    ASSUME NEW cs \in Seq(Conn), NEW c \in Conn
    PROVE  LET new == Append(cs, c)
           IN  /\ new \in Seq(Conn) /\ Len(new) = Len(cs) + 1
               /\ DOMAIN new = DOMAIN cs \cup {Len(cs) + 1}
               /\ new[Len(cs) + 1] = c
               /\ \A j \in DOMAIN cs : new[j] = cs[j]
OBVIOUS

-----------------------------------------------------------------------------
\* The invariant

\* What the server is about to read on connection i: the one it works on, or
\* one it will accept.
View(i) == IF i = srv THEN spc ELSE "hdr"

\* What it finds there is what is due, and at most the next header behind it:
\* the client waits for that to be acknowledged.
Readable(s, q) ==
    \/ q = <<>>
    \/ s = "hdr" /\ \E x \in Headers : q = <<x>>
    \/ s = "data" /\ q = <<Data(got)>>
    \/ s = "data" /\ got.kind \notin WithAnswer /\ \E x \in Headers : q = <<Data(got), x>>
    \/ s = "process" /\ got.kind \notin WithAnswer /\ \E x \in Headers : q = <<x>>
    \/ s = "reply" /\ q = <<End>>

\* Of all connections only the client's is open at its end, and what is closed
\* holds nothing to read.  The server has closed its end of those before its
\* own; of the others it has not, unless the network did.
Left(i) == i < srv \/ (i = srv /\ spc = "accept")

Sound(i, c) ==
    /\ ~c.sup => c.c2s = <<>>
    /\ ~c.cup => c.s2c = <<>>
    /\ i # cur => ~c.cup
    /\ i > srv => c.s2c = <<>>
    /\ Left(i) => ~c.sup
    /\ c.cup /\ ~c.sup => Left(i)
    /\ Readable(View(i), c.c2s)

\* The message at hand, and the headers that wait, are of calls that were
\* made; none is older than what the server has at hand or has processed.
Busy == spc \in {"data", "process", "reply"}
Made(x) == x \in Headers /\ x.kind \in Kinds /\ x.id \in 1 .. call.id
Pending(i) == IF i \in DOMAIN conns THEN Waiting(conns[i].c2s) ELSE {}

OrderOk ==
    /\ \A i \in Nat : \A x \in Pending(i) : Made(x)
    /\ \A i, j \in Nat : i < j => \A x \in Pending(i), y \in Pending(j) : x.id <= y.id
    /\ Busy => /\ Made(got)
               /\ \A i \in Nat : \A x \in Pending(i) : got.id <= x.id
    /\ log # <<>> =>
          /\ Last(log) \in 1 .. call.id
          /\ \A i \in Nat : \A x \in Pending(i) : Last(log) <= x.id
          /\ Busy => Last(log) <= got.id

ServerOk ==
    /\ srv = 0 => spc = "accept"
    /\ spc = "data" => HasData(got.kind)
    /\ spc = "reply" => got.kind = "request"
    /\ spc = "process" => got.kind \notin {"echo", "exit"}

ClientOk ==
    /\ conns # <<>> /\ cur \in {NoConn, Len(conns)}
    /\ pc = "idle" <=> result # "none"
    /\ pc # "idle" => call.kind \in Kinds /\ call.id >= 1
    /\ pc = "data" => HasData(call.kind)
    /\ pc = "check" => call.kind = "checked file"
    /\ pc \in {"reply", "reply data"} => call.kind = "request"
    /\ pc = "done" /\ call.kind \in WithAnswer => Contains(log, call.id)

\* The talk on the client's connection while both ends are open.  Between
\* calls the server may still have the last message to take in and process.
Quiet(s, q) ==
    \/ s = "hdr" /\ q = <<>>
    \/ s = "data" /\ got.kind \notin WithAnswer /\ q = <<Data(got)>>
    \/ s = "process" /\ got.kind \notin WithAnswer /\ q = <<>>

Called(s, q) ==
    \/ s = "hdr" /\ q = <<Hdr(call)>>
    \/ s = "data" /\ got.kind \notin WithAnswer /\ q = <<Data(got), Hdr(call)>>
    \/ s = "process" /\ got.kind \notin WithAnswer /\ q = <<Hdr(call)>>

Acked ==
    /\ srv = cur /\ conns[cur].c2s = <<>> /\ conns[cur].s2c = <<End>>
    /\ IF HasData(call.kind) THEN spc = "data" /\ got = Hdr(call)
       ELSE spc = "hdr" \/ (spc = "process" /\ got.kind \notin WithAnswer)

Working ==
    /\ srv = cur /\ got = Hdr(call) /\ conns[cur].s2c = <<>>
    /\ \/ spc = "data" /\ conns[cur].c2s = <<Data(call)>>
       \/ spc = "process" /\ conns[cur].c2s = <<>>

Served(s2c) ==
    /\ srv = cur /\ spc = "hdr" /\ conns[cur].c2s = <<>> /\ conns[cur].s2c = s2c
    /\ Contains(log, call.id)

Replying(s2c, c2s) ==
    /\ srv = cur /\ spc = "reply" /\ got = Hdr(call)
    /\ conns[cur].s2c = s2c /\ conns[cur].c2s = c2s

TalkOk ==
    /\ pc \in {"idle", "hdr", "done", "failed"} =>
          conns[cur].s2c = <<>> /\ Quiet(View(cur), conns[cur].c2s)
    /\ pc = "ack" => \/ conns[cur].s2c = <<>> /\ Called(View(cur), conns[cur].c2s)
                     \/ Acked
    /\ pc = "data" => /\ srv = cur /\ spc = "data" /\ got = Hdr(call)
                      /\ conns[cur].s2c = <<>> /\ conns[cur].c2s = <<>>
    /\ pc = "check" => Working \/ Served(<<End>>)
    /\ pc = "reply" => Working \/ Replying(<<Hdr(call)>>, <<>>)
    /\ pc = "reply data" => Replying(<<>>, <<End>>) \/ Served(<<Data(call)>>)

\* Once the server has closed, what is left to read is at most the
\* acknowledgement of a message without data.
LeftOk ==
    \/ conns[cur].s2c = <<>>
    \/ pc = "ack" /\ ~HasData(call.kind) /\ conns[cur].s2c = <<End>>

CurOk ==
    cur # NoConn /\ conns[cur].cup => IF conns[cur].sup THEN TalkOk ELSE LeftOk

Types ==
    /\ call \in [kind : Kinds \cup {"none"}, id : 0 .. MaxCalls]
    /\ result \in {"idle", "none", "returned", "threw"}
    /\ pc \in {"idle", "hdr", "ack", "data", "check",
              "reply", "reply data", "done", "failed"}
    /\ tries \in 0 .. Retry - 1
    /\ conns \in Seq(Conn)
    /\ srv \in 0 .. Len(conns)
    /\ spc \in {"accept", "hdr", "data", "process", "reply"}
    /\ got \in Items
    /\ log \in Seq(1 .. MaxCalls)

LinkInv ==
    /\ Types
    /\ \A i \in DOMAIN conns : Sound(i, conns[i])
    /\ OrderOk /\ ServerOk /\ ClientOk /\ CurOk

-----------------------------------------------------------------------------
\* What all steps have in common

\* One connection changes.
LEMMA Becomes ==
    ASSUME conns \in Seq(Conn), NEW i \in DOMAIN conns, NEW c \in Conn,
           conns' = [conns EXCEPT ![i] = c]
    PROVE  /\ conns' \in Seq(Conn) /\ Len(conns') = Len(conns)
           /\ DOMAIN conns' = DOMAIN conns /\ conns'[i] = c
           /\ \A j \in DOMAIN conns : j # i => conns'[j] = conns[j]
           /\ conns' # <<>>
BY SetConn

\* Headers leave the queues, none come.
LEMMA OrderShrinks ==
    ASSUME OrderOk, UNCHANGED <<call, log, got>>, Busy' => Busy,
           \A i \in Nat : Pending(i)' \subseteq Pending(i)
    PROVE  OrderOk'
<1>1. \A x : Made(x)' <=> Made(x)
    BY DEF Made
<1>2. \A i \in Nat : \A x \in Pending(i)' : x \in Pending(i)
    OBVIOUS
<1> QED
    BY <1>1, <1>2 DEF OrderOk

\* The client's steps, and what the network does, leave the server alone.
LEMMA ClientFrame ==
    ASSUME LinkInv, UNCHANGED <<srv, spc, got, cur>>,
           NEW i \in DOMAIN conns, NEW c \in Conn,
           conns' = [conns EXCEPT ![i] = c], Sound(i, c)
    PROVE  \A j \in DOMAIN conns' : Sound(j, conns[j])'
<1>1. conns \in Seq(Conn)
    BY DEF LinkInv, Types
<1>2. /\ DOMAIN conns' = DOMAIN conns /\ conns'[i] = c
      /\ \A j \in DOMAIN conns : j # i => conns'[j] = conns[j]
    BY <1>1, Becomes
<1>3. \A j \in DOMAIN conns : Sound(j, conns[j])
    BY DEF LinkInv
<1>4. \A j \in DOMAIN conns : Sound(j, conns'[j])
    BY <1>2, <1>3
<1> QED
    BY <1>2, <1>4 DEF Sound, View, Left, Readable

LEMMA ServerFrame ==
    ASSUME LinkInv, UNCHANGED <<srv, cur>>, spc # "accept", srv \in DOMAIN conns,
           NEW c \in Conn, conns' = [conns EXCEPT ![srv] = c], Sound(srv, c)'
    PROVE  \A j \in DOMAIN conns' : Sound(j, conns[j])'
<1>1. conns \in Seq(Conn)
    BY DEF LinkInv, Types
<1>2. /\ DOMAIN conns' = DOMAIN conns /\ conns'[srv] = c
      /\ \A j \in DOMAIN conns : j # srv => conns'[j] = conns[j]
    BY <1>1, Becomes
<1>3. ASSUME NEW j \in DOMAIN conns, j # srv
      PROVE  Sound(j, conns[j])'
    <2>1. Sound(j, conns[j]) /\ conns'[j] = conns[j]
        BY <1>2, <1>3 DEF LinkInv
    <2>2. View(j) = "hdr" /\ View(j)' = "hdr" /\ (Left(j)' <=> Left(j))
        BY <1>3 DEF View, Left
    <2> QED
        BY <2>1, <2>2 DEF Sound, Readable
<1>4. Sound(srv, conns[srv])'
    BY <1>2
<1> QED
    BY <1>2, <1>3, <1>4

\* A record with other queues.
LEMMA QueueTypes ==
    ASSUME NEW x \in Items, NEW y \in Items
    PROVE  <<>> \in Seq(Items) /\ <<x>> \in Seq(Items) /\ <<x, y>> \in Seq(Items)
OBVIOUS

LEMMA Replaced ==
    ASSUME conns \in Seq(Conn), NEW i \in DOMAIN conns, NEW q \in Seq(Items)
    PROVE  /\ [conns EXCEPT ![i].c2s = q] = [conns EXCEPT ![i] = [conns[i] EXCEPT !.c2s = q]]
           /\ [conns EXCEPT ![i].s2c = q] = [conns EXCEPT ![i] = [conns[i] EXCEPT !.s2c = q]]
           /\ conns[i] \in Conn
           /\ [conns[i] EXCEPT !.c2s = q] \in Conn /\ [conns[i] EXCEPT !.s2c = q] \in Conn
<1>1. conns[i] \in Conn
    OBVIOUS
<1>2. [conns EXCEPT ![i].c2s = q] = [conns EXCEPT ![i] = [conns[i] EXCEPT !.c2s = q]]
    OBVIOUS
<1>3. [conns EXCEPT ![i].s2c = q] = [conns EXCEPT ![i] = [conns[i] EXCEPT !.s2c = q]]
    OBVIOUS
<1>4. ASSUME NEW c \in Conn
      PROVE  [c EXCEPT !.c2s = q] \in Conn /\ [c EXCEPT !.s2c = q] \in Conn
    BY DEF Conn
<1> QED
    BY <1>1, <1>2, <1>3, <1>4

LEMMA PendingOf ==
    ASSUME conns \in Seq(Conn), NEW i \in DOMAIN conns, NEW c \in Conn,
           conns' = [conns EXCEPT ![i] = c]
    PROVE  \A j : Pending(j)' = IF j = i THEN Waiting(c.c2s) ELSE Pending(j)
<1>1. /\ DOMAIN conns' = DOMAIN conns /\ conns'[i] = c
      /\ \A j \in DOMAIN conns : j # i => conns'[j] = conns[j]
    BY Becomes
<1> QED
    BY <1>1 DEF Pending

-----------------------------------------------------------------------------
LEMMA LinkInit == Init => LinkInv
<1> SUFFICES ASSUME Init PROVE LinkInv
    OBVIOUS
<1> USE DEF Init
<1>1. FreshConn \in Conn
    BY QueueTypes DEF Conn, FreshConn
<1>2. conns \in Seq(Conn) /\ Len(conns) = 1 /\ conns[1] = FreshConn /\ DOMAIN conns = {1}
    BY <1>1
<1>3. MaxCalls \in Nat /\ Retry \in Nat \ {0}
    BY LinkAssumption
<1>4. Types
    <2>1. call \in [kind : Kinds \cup {"none"}, id : 0 .. MaxCalls]
        BY <1>3 DEF NoCall
    <2>2. tries \in 0 .. Retry - 1 /\ srv \in 0 .. Len(conns)
        BY <1>2, <1>3
    <2>3. got \in Items /\ log \in Seq(1 .. MaxCalls)
        BY ItemTypes
    <2> QED
        BY <1>2, <2>1, <2>2, <2>3 DEF Types
<1>5. \A i \in DOMAIN conns : Sound(i, conns[i])
    BY <1>2 DEF Sound, Readable, FreshConn, Left
<1>6. OrderOk
    <2>1. conns[1].c2s = <<>>
        BY <1>2 DEF FreshConn
    <2>2. \A i \in Nat : Pending(i) = {}
        BY <1>2, <2>1, WaitingOf DEF Pending
    <2> QED
        BY <2>2 DEF OrderOk, Busy
<1>7. ServerOk /\ ClientOk
    BY <1>2 DEF ServerOk, ClientOk, NoConn
<1>8. CurOk
    BY <1>2 DEF CurOk, TalkOk, Quiet, View, FreshConn
<1> QED
    BY <1>4, <1>5, <1>6, <1>7, <1>8 DEF LinkInv

\* What the steps below use of the invariant.
LEMMA TypeFacts ==
    ASSUME LinkInv
    PROVE  /\ call \in [kind : Kinds \cup {"none"}, id : 0 .. MaxCalls]
           /\ conns \in Seq(Conn) /\ got \in Items /\ log \in Seq(1 .. MaxCalls)
           /\ \A i \in DOMAIN conns :
                 /\ conns[i] \in Conn
                 /\ conns[i].c2s \in Seq(Items) /\ conns[i].s2c \in Seq(Items)
                 /\ conns[i].cup \in BOOLEAN /\ conns[i].sup \in BOOLEAN
           /\ cur # NoConn => cur \in DOMAIN conns /\ cur \in Nat
           /\ srv # 0 => srv \in DOMAIN conns
           /\ DOMAIN conns \subseteq Nat
           /\ srv \in Nat
<1>1. Types /\ ClientOk
    BY DEF LinkInv
<1>2. conns \in Seq(Conn) /\ conns # <<>> /\ srv \in 0 .. Len(conns) /\ cur \in {0, Len(conns)}
    BY <1>1 DEF Types, ClientOk, NoConn
<1>3. DOMAIN conns = 1 .. Len(conns) /\ Len(conns) \in Nat /\ Len(conns) # 0
    BY <1>2
<1>4. \A c \in Conn : /\ c.c2s \in Seq(Items) /\ c.s2c \in Seq(Items)
                      /\ c.cup \in BOOLEAN /\ c.sup \in BOOLEAN
    BY DEF Conn
<1>5. \A i \in DOMAIN conns : conns[i] \in Conn
    BY <1>2
<1>6. \A i \in DOMAIN conns :
         /\ conns[i] \in Conn
         /\ conns[i].c2s \in Seq(Items) /\ conns[i].s2c \in Seq(Items)
         /\ conns[i].cup \in BOOLEAN /\ conns[i].sup \in BOOLEAN
    BY <1>4, <1>5
<1>7. /\ cur # NoConn => cur \in DOMAIN conns /\ cur \in Nat
      /\ srv # 0 => srv \in DOMAIN conns
      /\ DOMAIN conns \subseteq Nat
      /\ srv \in Nat
    <2> DEFINE n == Len(conns)
               d == DOMAIN conns
    <2>1. d = 1 .. n /\ n \in Nat /\ n # 0 /\ srv \in 0 .. n /\ cur \in {0, n}
        BY <1>2, <1>3
    <2> HIDE DEF n, d
    <2>2. d \subseteq Nat /\ srv \in Nat
        BY <2>1
    <2>3. srv # 0 => srv \in d
        BY <2>1
    <2>4. cur # 0 => cur \in d /\ cur \in Nat
        BY <2>1
    <2> QED
        BY <2>2, <2>3, <2>4 DEF d, NoConn
<1> QED
    BY <1>1, <1>6, <1>7 DEF Types

-----------------------------------------------------------------------------
\* The client's steps

LEMMA ClientTypes ==
    ASSUME LinkInv, UNCHANGED <<srv, spc, got, log, call, tries>>,
           conns' \in Seq(Conn), Len(conns') = Len(conns),
           result' \in {"idle", "none", "returned", "threw"},
           pc' \in {"idle", "hdr", "ack", "data", "check",
                    "reply", "reply data", "done", "failed"}
    PROVE  Types' /\ ServerOk'
BY DEF LinkInv, Types, ServerOk

\* Steps that touch no connection.
LEMMA SameConns ==
    ASSUME LinkInv, UNCHANGED <<conns, srv, spc, got, cur>>
    PROVE  /\ \A i \in DOMAIN conns' : Sound(i, conns[i])'
           /\ \A i : Pending(i)' = Pending(i)
BY DEF LinkInv, Sound, Readable, View, Left, Pending

\* The talk when the client moves on and nothing else happens.
LEMMA QuietMove ==
    ASSUME LinkInv, UNCHANGED <<conns, srv, spc, got, cur>>,
           pc \in {"idle", "hdr", "done", "failed"}, pc' \in {"idle", "hdr", "done", "failed"}
    PROVE  CurOk'
<1>1. CurOk
    BY DEF LinkInv
<1>2. cur # NoConn /\ conns[cur].cup =>
          /\ conns[cur].sup => conns[cur].s2c = <<>> /\ Quiet(View(cur), conns[cur].c2s)
          /\ ~conns[cur].sup => conns[cur].s2c = <<>>
    BY <1>1 DEF CurOk, TalkOk, LeftOk
<1>3. Quiet(View(cur), conns[cur].c2s)' <=> Quiet(View(cur), conns[cur].c2s)
    BY DEF Quiet, View
<1> QED
    BY <1>2, <1>3 DEF CurOk, TalkOk, LeftOk

LEMMA BeginStep ==
    ASSUME LinkInv, NEW kind \in Kinds, Begin(kind)
    PROVE  LinkInv'
<1>1. /\ pc = "idle" /\ call.id < MaxCalls
      /\ call' = [kind |-> kind, id |-> call.id + 1]
      /\ result' = "none" /\ pc' = "hdr" /\ tries' = 0
      /\ UNCHANGED <<cur, conns, srv, spc, got, log>>
    BY DEF Begin, server
<1>2. call.id \in Nat /\ MaxCalls \in Nat /\ Retry \in Nat \ {0}
    BY TypeFacts, LinkAssumption
<1>3. call'.id = call.id + 1 /\ call'.kind = kind
    BY <1>1
<1>4. Types'
    <2>1. call.id + 1 \in 0 .. MaxCalls
        BY <1>1, <1>2
    <2>2. call' \in [kind : Kinds \cup {"none"}, id : 0 .. MaxCalls]
        BY <1>1, <2>1
    <2>3. tries' \in 0 .. Retry - 1
        BY <1>1, <1>2
    <2> QED
        BY <1>1, <2>2, <2>3 DEF LinkInv, Types
<1>5. (\A i \in DOMAIN conns : Sound(i, conns[i]))'
    BY <1>1, SameConns
<1>6. OrderOk'
    <2>1. \A x : Made(x) => Made(x)'
        <3>1. \A n : n \in 1 .. call.id => n \in 1 .. call.id + 1
            BY <1>2
        <3> QED
            BY <1>3, <3>1 DEF Made
    <2>2. \A i : Pending(i)' = Pending(i)
        BY <1>1, SameConns
    <2>3. log # <<>> => Last(log) \in 1 .. call.id + 1
        BY <1>2 DEF LinkInv, OrderOk
    <2>4. Busy' <=> Busy
        BY <1>1 DEF Busy
    <2> QED
        BY <1>1, <1>3, <2>1, <2>2, <2>3, <2>4 DEF LinkInv, OrderOk
<1>7. ServerOk' /\ ClientOk'
    BY <1>1, <1>2, <1>3 DEF LinkInv, ServerOk, ClientOk
<1>8. CurOk'
    BY <1>1, QuietMove
<1> QED
    BY <1>4, <1>5, <1>6, <1>7, <1>8 DEF LinkInv

LEMMA DoneStep ==
    ASSUME LinkInv, Done \/ Throws
    PROVE  LinkInv'
<1>1. /\ pc \in {"done", "failed"} /\ pc' = "idle" /\ result' \in {"returned", "threw"}
      /\ UNCHANGED <<call, tries, cur, conns, srv, spc, got, log>>
    BY DEF Done, Throws, server
<1>2. Types' /\ ServerOk'
    BY <1>1, ClientTypes, TypeFacts
<1>3. (\A i \in DOMAIN conns : Sound(i, conns[i]))' /\ \A i : Pending(i)' = Pending(i)
    BY <1>1, SameConns
<1>4. OrderOk'
    <2>1. \A i \in Nat : Pending(i)' \subseteq Pending(i)
        BY <1>3
    <2>2. Busy' => Busy
        BY <1>1 DEF Busy
    <2> QED
        BY <1>1, <2>1, <2>2, OrderShrinks DEF LinkInv
<1>5. ClientOk'
    BY <1>1 DEF LinkInv, ClientOk
<1>6. CurOk'
    BY <1>1, QuietMove
<1> QED
    BY <1>2, <1>3, <1>4, <1>5, <1>6 DEF LinkInv

\* An attempt fails: the connection is not up any more, and nothing is left
\* to read.
LEMMA FailStep ==
    ASSUME LinkInv, pc # "idle", pc' = "failed",
           UNCHANGED <<call, result, tries, cur, conns, srv, spc, got, log>>,
           cur # NoConn /\ conns[cur].cup =>
               conns[cur].s2c = <<>> /\ (conns[cur].sup => Quiet(View(cur), conns[cur].c2s))
    PROVE  LinkInv'
<1>1. Types' /\ ServerOk'
    BY ClientTypes, TypeFacts DEF LinkInv, Types
<1>2. (\A i \in DOMAIN conns : Sound(i, conns[i]))' /\ \A i : Pending(i)' = Pending(i)
    BY SameConns
<1>3. OrderOk'
    <2>1. \A i \in Nat : Pending(i)' \subseteq Pending(i)
        BY <1>2
    <2>2. Busy' => Busy
        BY DEF Busy
    <2> QED
        BY <2>1, <2>2, OrderShrinks DEF LinkInv
<1>4. ClientOk'
    BY DEF LinkInv, ClientOk
<1>5. CurOk'
    <2>1. Quiet(View(cur), conns[cur].c2s)' <=> Quiet(View(cur), conns[cur].c2s)
        BY DEF Quiet, View
    <2> QED
        BY <2>1 DEF CurOk, TalkOk, LeftOk
<1> QED
    BY <1>1, <1>2, <1>3, <1>4, <1>5 DEF LinkInv

\* The client sends or receives on its connection.
LEMMA TalkStep ==
    ASSUME LinkInv, pc # "idle",
           pc' \in {"hdr", "ack", "data", "check", "reply", "reply data", "done", "failed"},
           UNCHANGED <<call, result, tries, cur, srv, spc, got, log>>, cur # NoConn,
           NEW c \in Conn, conns' = [conns EXCEPT ![cur] = c], Sound(cur, c),
           OrderOk', CurOk',
           pc' = "data" => HasData(call.kind),
           pc' = "check" => call.kind = "checked file",
           pc' \in {"reply", "reply data"} => call.kind = "request",
           pc' = "done" /\ call.kind \in WithAnswer => Contains(log, call.id)
    PROVE  LinkInv'
<1>1. cur \in DOMAIN conns /\ conns \in Seq(Conn)
    BY TypeFacts
<1>2. conns' \in Seq(Conn) /\ Len(conns') = Len(conns) /\ conns' # <<>>
    BY <1>1, Becomes
<1>3. Types' /\ ServerOk'
    BY <1>2, ClientTypes DEF LinkInv, Types
<1>4. (\A i \in DOMAIN conns : Sound(i, conns[i]))'
    BY <1>1, ClientFrame
<1>5. ClientOk'
    BY <1>2 DEF LinkInv, ClientOk
<1> QED
    BY <1>3, <1>4, <1>5 DEF LinkInv

\* What it sends or receives adds no header, but for its own.
LEMMA OrderTalks ==
    ASSUME LinkInv, UNCHANGED <<call, srv, spc, got, log>>,
           NEW i \in DOMAIN conns, NEW c \in Conn, conns' = [conns EXCEPT ![i] = c],
           Waiting(c.c2s) \subseteq Waiting(conns[i].c2s)
    PROVE  OrderOk'
<1>1. conns \in Seq(Conn)
    BY TypeFacts
<1>2. \A j : Pending(j)' = IF j = i THEN Waiting(c.c2s) ELSE Pending(j)
    BY <1>1, PendingOf
<1>3. \A j \in Nat : Pending(j)' \subseteq Pending(j)
    BY <1>2 DEF Pending
<1>4. Busy' => Busy
    BY DEF Busy
<1> QED
    BY <1>3, <1>4, OrderShrinks DEF LinkInv

LEMMA CallFacts ==
    ASSUME LinkInv
    PROVE  /\ call.id \in Nat
           /\ call \in [kind : Kinds \cup {"none"}, id : 0 .. MaxCalls]
           /\ pc # "idle" => call.kind \in Kinds /\ call.id >= 1
<1>1. call \in [kind : Kinds \cup {"none"}, id : 0 .. MaxCalls]
    BY TypeFacts
<1>2. MaxCalls \in Nat
    BY LinkAssumption
<1>3. call.id \in 0 .. MaxCalls
    BY <1>1
<1>4. call.id \in Nat
    BY <1>2, <1>3
<1>5. pc # "idle" => call.kind \in Kinds /\ call.id >= 1
    BY DEF LinkInv, ClientOk
<1> QED
    BY <1>1, <1>4, <1>5

\* Its own is that of the last call, on the last connection.
LEMMA OrderSends ==
    ASSUME LinkInv, UNCHANGED <<call, srv, spc, got, log>>, cur # NoConn,
           NEW c \in Conn, conns' = [conns EXCEPT ![cur] = c],
           Waiting(c.c2s) \subseteq {Hdr(call)}, pc # "idle"
    PROVE  OrderOk'
<1>1. conns \in Seq(Conn) /\ cur \in DOMAIN conns /\ cur = Len(conns)
    BY TypeFacts DEF LinkInv, ClientOk
<1>2. /\ call.id \in Nat /\ call.id >= 1 /\ call.kind \in Kinds
      /\ call \in [kind : Kinds \cup {"none"}, id : 0 .. MaxCalls]
    BY CallFacts
<1>3. Made(Hdr(call)) /\ Hdr(call).id = call.id
    <2>1. Hdr(call) \in Headers /\ Hdr(call).id = call.id /\ Hdr(call).kind = call.kind
        BY <1>2, ItemTypes
    <2>2. call.id \in 1 .. call.id
        BY <1>2
    <2> QED
        BY <1>2, <2>1, <2>2 DEF Made
<1>4. \A j : Pending(j)' = IF j = cur THEN Waiting(c.c2s) ELSE Pending(j)
    BY <1>1, PendingOf
<1>5. \A j \in Nat : j > cur => Pending(j) = {}
    BY <1>1 DEF Pending
<1>6. \A x : Made(x) => x.id \in Nat /\ x.id <= call.id
    BY <1>2 DEF Made
<1>7. \A x : Made(x)' <=> Made(x)
    BY DEF Made
<1>8. \A i \in Nat : \A x \in Pending(i)' : x \in Pending(i) \/ (i = cur /\ x = Hdr(call))
    BY <1>4
<1>9. \A i \in Nat : \A x \in Pending(i)' : Made(x)
    BY <1>3, <1>8 DEF LinkInv, OrderOk
<1>10. ASSUME NEW i \in Nat, NEW j \in Nat, i < j,
              NEW x \in Pending(i)', NEW y \in Pending(j)'
       PROVE  x.id <= y.id
    <2>1. CASE i = cur
        <3>1. j > cur /\ j # cur
            BY <1>1, <1>10, <2>1
        <3>2. Pending(j)' = {}
            BY <1>4, <1>5, <3>1
        <3> QED
            BY <3>2
    <2>2. CASE i # cur /\ j = cur
        <3>1. y = Hdr(call)
            BY <1>4, <2>2
        <3>2. x.id <= call.id
            BY <1>6, <1>9
        <3> QED
            BY <1>3, <3>1, <3>2
    <2>3. CASE i # cur /\ j # cur
        <3>1. x \in Pending(i) /\ y \in Pending(j)
            BY <1>4, <2>3
        <3> QED
            BY <1>10, <3>1 DEF LinkInv, OrderOk
    <2> QED
        BY <2>1, <2>2, <2>3
<1>11. Busy' => Made(got) /\ \A i \in Nat : \A x \in Pending(i)' : got.id <= x.id
    <2> SUFFICES ASSUME Busy' PROVE Made(got) /\ \A i \in Nat : \A x \in Pending(i)' : got.id <= x.id
        OBVIOUS
    <2>1. Made(got) /\ \A i \in Nat : \A x \in Pending(i) : got.id <= x.id
        BY DEF Busy, LinkInv, OrderOk
    <2> QED
        BY <1>3, <1>6, <1>8, <2>1
<1>12. log # <<>> =>
          /\ Last(log) \in 1 .. call.id
          /\ \A i \in Nat : \A x \in Pending(i)' : Last(log) <= x.id
          /\ Busy' => Last(log) <= got.id
    <2> SUFFICES ASSUME log # <<>>
                 PROVE  /\ Last(log) \in 1 .. call.id
                        /\ \A i \in Nat : \A x \in Pending(i)' : Last(log) <= x.id
                        /\ Busy' => Last(log) <= got.id
        OBVIOUS
    <2>1. /\ Last(log) \in 1 .. call.id
          /\ \A i \in Nat : \A x \in Pending(i) : Last(log) <= x.id
          /\ Busy => Last(log) <= got.id
        BY DEF LinkInv, OrderOk
    <2>2. Last(log) <= call.id
        BY <1>2, <2>1
    <2>3. Busy' => Busy
        BY DEF Busy
    <2> QED
        BY <1>3, <1>8, <2>1, <2>2, <2>3
<1> QED
    BY <1>7, <1>9, <1>10, <1>11, <1>12 DEF OrderOk

\* What is known of the client's connection.
LEMMA Mine ==
    ASSUME LinkInv, cur # NoConn
    PROVE  /\ cur \in DOMAIN conns /\ conns \in Seq(Conn) /\ conns[cur] \in Conn
           /\ conns[cur].c2s \in Seq(Items) /\ conns[cur].s2c \in Seq(Items)
           /\ conns[cur].cup \in BOOLEAN /\ conns[cur].sup \in BOOLEAN
           /\ Sound(cur, conns[cur])
           /\ conns[cur].cup => IF conns[cur].sup THEN TalkOk ELSE LeftOk
           /\ ~conns[cur].cup => conns[cur].s2c = <<>>
<1>1. cur \in DOMAIN conns /\ conns \in Seq(Conn)
    BY TypeFacts
<1>2. Sound(cur, conns[cur])
    BY <1>1 DEF LinkInv
<1>3. ~conns[cur].cup => conns[cur].s2c = <<>>
    BY <1>2 DEF Sound
<1>4. conns[cur].cup => IF conns[cur].sup THEN TalkOk ELSE LeftOk
    BY DEF LinkInv, CurOk
<1> QED
    BY <1>1, <1>2, <1>3, <1>4, TypeFacts

\* A connection with other queues.
LEMMA Queues ==
    ASSUME NEW c \in Conn, NEW q \in Seq(Items)
    PROVE  /\ [c EXCEPT !.c2s = q] \in Conn /\ [c EXCEPT !.s2c = q] \in Conn
           /\ [c EXCEPT !.c2s = q].c2s = q /\ [c EXCEPT !.c2s = q].s2c = c.s2c
           /\ [c EXCEPT !.s2c = q].s2c = q /\ [c EXCEPT !.s2c = q].c2s = c.c2s
           /\ [c EXCEPT !.c2s = q].cup = c.cup /\ [c EXCEPT !.c2s = q].sup = c.sup
           /\ [c EXCEPT !.s2c = q].cup = c.cup /\ [c EXCEPT !.s2c = q].sup = c.sup
BY DEF Conn

LEMMA SendHdrStep ==
    ASSUME LinkInv, SendHdr
    PROVE  LinkInv'
<1>1. /\ pc = "hdr" /\ UNCHANGED <<call, result, tries, cur, srv, spc, got, log>>
      /\ Send(Hdr(call), "ack")
    BY DEF SendHdr, server
<1>2. CASE CanSend /\ conns' = ToServer(Hdr(call)) /\ pc' = "ack"
    <2>1. cur # NoConn /\ conns[cur].cup
        BY <1>2 DEF CanSend
    <2>2. CASE ~conns[cur].sup
        <3>1. conns' = conns /\ conns[cur].s2c = <<>>
            BY <1>1, <1>2, <2>1, <2>2, Mine DEF ToServer, LeftOk
        <3>2. conns' = [conns EXCEPT ![cur] = conns[cur]]
            BY <3>1, <2>1, Mine
        <3>3. OrderOk'
            BY <1>1, <2>1, <3>2, Mine, OrderTalks
        <3>4. CurOk'
            BY <1>1, <2>1, <2>2, <3>1 DEF CurOk, LeftOk
        <3> QED
            BY <1>1, <1>2, <2>1, <3>2, <3>3, <3>4, Mine, TalkStep
    <2>3. CASE conns[cur].sup
        <3>1. conns[cur].s2c = <<>> /\ Quiet(View(cur), conns[cur].c2s)
            BY <1>1, <2>1, <2>3, Mine DEF TalkOk
        <3>2. call \in [kind : Kinds \cup {"none"}, id : 0 .. MaxCalls] /\ got \in Items
            BY TypeFacts
        <3>3. Hdr(call) \in Headers /\ Hdr(call) \in Items /\ Hdr(call).t = "hdr"
            BY <3>2, ItemTypes DEF Headers
        <3>4. Data(got).t = "data"
            BY DEF Data
        <3> DEFINE h == Hdr(call)
                   d == Data(got)
        <3>5. h \in Headers /\ h \in Items /\ h.t = "hdr" /\ d.t = "data"
            BY <3>3, <3>4
        <3>6. PICK q : q = Append(conns[cur].c2s, h)
            OBVIOUS
        <3>7. q \in Seq(Items)
            BY <2>1, <3>5, <3>6, Mine
        <3>8. Called(View(cur), q)
            <4>1. Append(<<>>, h) = <<h>> /\ Append(<<d>>, h) = <<d, h>>
                BY ShortQueues
            <4> HIDE DEF h, d
            <4> USE <3>1, <3>6, <4>1
            <4> QED
                BY DEF Quiet, Called, h, d
        <3>9. Waiting(q) \subseteq {h}
            <4>1. q \in {<<h>>, <<d, h>>}
                BY <3>8 DEF Called
            <4> HIDE DEF h, d
            <4>2. Waiting(<<h>>) = {h}
                BY <3>5, WaitingOf
            <4>3. Waiting(<<d>>) = {}
                BY <3>5, WaitingOf
            <4>4. Waiting(<<d, h>>) = Waiting(<<d>>) \cup Waiting(<<h>>)
                BY WaitingOf
            <4> QED
                BY <4>1, <4>2, <4>3, <4>4
        <3>10. Readable(View(cur), q)
            <4> HIDE DEF h, d
            <4> QED
                BY <3>5, <3>8 DEF Readable, Called, h, d
        <3>11. PICK c : c = [conns[cur] EXCEPT !.c2s = q]
            OBVIOUS
        <3>12. /\ c \in Conn /\ c.c2s = q /\ c.s2c = conns[cur].s2c
               /\ c.cup = conns[cur].cup /\ c.sup = conns[cur].sup
            BY <2>1, <3>7, <3>11, Mine, Queues
        <3>13. conns' = [conns EXCEPT ![cur] = c]
            <4>1. conns' = [conns EXCEPT ![cur].c2s = q]
                BY <1>2, <2>1, <2>3, <3>6, Mine DEF ToServer
            <4> QED
                BY <2>1, <3>7, <3>11, <4>1, Mine, Replaced
        <3>14. Sound(cur, c)
            BY <2>1, <2>3, <3>1, <3>10, <3>12, Mine DEF Sound
        <3>15. OrderOk'
            BY <1>1, <2>1, <3>9, <3>12, <3>13, OrderSends
        <3>16. CurOk'
            <4>1. conns'[cur] = c
                BY <2>1, <3>13, <3>12, Mine, Becomes
            <4>2. Called(View(cur), q)'
                BY <1>1, <3>8 DEF Called, View
            <4> QED
                BY <1>1, <1>2, <2>3, <3>1, <3>12, <4>1, <4>2 DEF CurOk, TalkOk
        <3> QED
            BY <1>1, <1>2, <2>1, <3>12, <3>13, <3>14, <3>15, <3>16, TalkStep
    <2> QED
        BY <2>2, <2>3
<1>3. CASE (CanSend => ~conns[cur].sup) /\ pc' = "failed" /\ conns' = conns
    <2>1. cur # NoConn /\ conns[cur].cup => ~conns[cur].sup /\ conns[cur].s2c = <<>>
        BY <1>1, <1>3, Mine DEF CanSend, LeftOk
    <2> QED
        BY <1>1, <1>3, <2>1, FailStep
<1> QED
    BY <1>1, <1>2, <1>3 DEF Send

LEMMA SendDataStep ==
    ASSUME LinkInv, SendData
    PROVE  LinkInv'
<1>1. /\ pc = "data" /\ UNCHANGED <<call, result, tries, cur, srv, spc, got, log>>
      /\ Send(Data(call), AfterData(call.kind))
    BY DEF SendData, server
<1>2. HasData(call.kind)
    BY <1>1 DEF LinkInv, ClientOk
<1>3. CASE CanSend /\ conns' = ToServer(Data(call)) /\ pc' = AfterData(call.kind)
    <2>1. cur # NoConn /\ conns[cur].cup
        BY <1>3 DEF CanSend
    <2>2. /\ pc' \in {"check", "reply", "done"}
          /\ pc' = "check" => call.kind = "checked file"
          /\ pc' = "reply" => call.kind = "request"
          /\ pc' = "done" => call.kind \notin WithAnswer
        BY <1>3 DEF AfterData, Checked, WithAnswer
    <2>3. CASE ~conns[cur].sup
        <3>1. conns' = conns /\ conns[cur].s2c = <<>>
            BY <1>1, <1>3, <2>1, <2>3, Mine DEF ToServer, LeftOk
        <3>2. conns' = [conns EXCEPT ![cur] = conns[cur]]
            BY <3>1, <2>1, Mine
        <3>3. OrderOk'
            BY <1>1, <2>1, <3>2, Mine, OrderTalks
        <3>4. CurOk'
            BY <1>1, <2>1, <2>3, <3>1 DEF CurOk, LeftOk
        <3> QED
            BY <1>1, <2>1, <2>2, <3>2, <3>3, <3>4, Mine, TalkStep
    <2>4. CASE conns[cur].sup
        <3>1. /\ srv = cur /\ spc = "data" /\ got = Hdr(call)
              /\ conns[cur].s2c = <<>> /\ conns[cur].c2s = <<>>
            BY <1>1, <2>1, <2>4, Mine DEF TalkOk
        <3>2. Data(call) = Data(got) /\ got.kind = call.kind
            BY <3>1 DEF Data, Hdr
        <3>3. Data(call) \in Items /\ Data(call).t = "data"
            BY TypeFacts, ItemTypes
        <3>4. PICK q : q = <<Data(call)>>
            OBVIOUS
        <3>5. q \in Seq(Items) /\ Append(conns[cur].c2s, Data(call)) = q
            BY <3>1, <3>3, <3>4, ShortQueues, QueueTypes
        <3>6. PICK c : c = [conns[cur] EXCEPT !.c2s = q]
            OBVIOUS
        <3>7. /\ c \in Conn /\ c.c2s = q /\ c.s2c = conns[cur].s2c
              /\ c.cup = conns[cur].cup /\ c.sup = conns[cur].sup
            BY <2>1, <3>5, <3>6, Mine, Queues
        <3>8. conns' = [conns EXCEPT ![cur] = c]
            <4>1. conns' = [conns EXCEPT ![cur].c2s = q]
                BY <1>3, <2>1, <2>4, <3>5, Mine DEF ToServer
            <4> QED
                BY <2>1, <3>5, <3>6, <4>1, Mine, Replaced
        <3>9. Waiting(q) = {}
            BY <3>3, <3>4, WaitingOf
        <3>10. Sound(cur, c)
            <4>1. View(cur) = "data"
                BY <3>1 DEF View
            <4>2. Readable("data", q)
                BY <3>2, <3>4 DEF Readable
            <4> QED
                BY <2>1, <2>4, <3>1, <3>7, <4>1, <4>2, Mine DEF Sound
        <3>11. OrderOk'
            BY <1>1, <2>1, <3>7, <3>8, <3>9, Mine, OrderTalks
        <3>12. CurOk'
            <4>1. conns'[cur] = c
                BY <2>1, <3>7, <3>8, Mine, Becomes
            <4>2. CASE pc' = "done"
                <5>1. Quiet("data", q)
                    BY <2>2, <3>2, <3>4, <4>2 DEF Quiet
                <5>2. Quiet("data", q)'
                    BY <1>1, <5>1 DEF Quiet
                <5> QED
                    BY <1>1, <2>4, <3>1, <3>7, <4>1, <4>2, <5>2 DEF CurOk, TalkOk, View
            <4>3. CASE pc' \in {"check", "reply"}
                BY <1>1, <2>4, <3>1, <3>4, <3>7, <4>1, <4>3 DEF CurOk, TalkOk, Working
            <4> QED
                BY <2>2, <4>2, <4>3
        <3> QED
            BY <1>1, <2>1, <2>2, <3>7, <3>8, <3>10, <3>11, <3>12, TalkStep
    <2> QED
        BY <2>3, <2>4
<1>4. CASE (CanSend => ~conns[cur].sup) /\ pc' = "failed" /\ conns' = conns
    <2>1. cur # NoConn /\ conns[cur].cup => ~conns[cur].sup /\ conns[cur].s2c = <<>>
        BY <1>1, <1>4, Mine DEF CanSend, LeftOk
    <2> QED
        BY <1>1, <1>4, <2>1, FailStep
<1> QED
    BY <1>1, <1>3, <1>4 DEF Send

\* The client takes the one item there is.
LEMMA Took ==
    ASSUME LinkInv, cur # NoConn, conns[cur].cup,
           NEW x \in Items, conns[cur].s2c = <<x>>
    PROVE  \E c \in Conn :
              /\ Consume = [conns EXCEPT ![cur] = c]
              /\ c.c2s = conns[cur].c2s /\ c.s2c = <<>>
              /\ c.cup = conns[cur].cup /\ c.sup = conns[cur].sup
              /\ Sound(cur, c) /\ Received = x
<1>1. Head(<<x>>) = x /\ Tail(<<x>>) = <<>>
    BY ShortQueues
<1>2. PICK c : c = [conns[cur] EXCEPT !.s2c = <<>>]
    OBVIOUS
<1>3. <<>> \in Seq(Items)
    OBVIOUS
<1>4. /\ c \in Conn /\ c.c2s = conns[cur].c2s /\ c.s2c = <<>>
      /\ c.cup = conns[cur].cup /\ c.sup = conns[cur].sup
    BY <1>2, <1>3, Mine, Queues
<1>5. Consume = [conns EXCEPT ![cur].s2c = <<>>]
    BY <1>1, Mine DEF Consume
<1>6. Consume = [conns EXCEPT ![cur] = c]
    BY <1>2, <1>3, <1>5, Mine, Replaced
<1>7. Sound(cur, c)
    BY <1>4, Mine DEF Sound
<1> QED
    BY <1>1, <1>4, <1>6, <1>7 DEF Received

LEMMA NothingStep ==
    ASSUME LinkInv, NothingToReceive, pc # "idle", pc' = "failed",
           UNCHANGED <<call, result, tries, cur, conns, srv, spc, got, log>>
    PROVE  LinkInv'
BY FailStep DEF NothingToReceive

LEMMA AwaitAckStep ==
    ASSUME LinkInv, AwaitAck
    PROVE  LinkInv'
<1>1. PICK next : /\ next = IF HasData(call.kind) THEN "data" ELSE AfterData(call.kind)
                  /\ AwaitEnd("ack", next)
    BY DEF AwaitAck
<1>2. pc = "ack" /\ UNCHANGED <<call, result, tries, cur, srv, spc, got, log>>
    BY <1>1 DEF AwaitEnd, server
<1>3. /\ HasData(call.kind) => next = "data"
      /\ ~HasData(call.kind) => next = "done" /\ call.kind \notin WithAnswer
    BY <1>1 DEF AfterData, HasData, Checked, WithAnswer
<1>4. CASE NothingToReceive /\ pc' = "failed" /\ conns' = conns
    BY <1>2, <1>4, NothingStep
<1>5. CASE /\ CanReceive /\ conns' = Consume
           /\ pc' = IF Received.t = "end" THEN next ELSE "failed"
    <2>1. cur # NoConn /\ conns[cur].s2c # <<>>
        BY <1>5 DEF CanReceive
    <2>2. conns[cur].cup
        BY <2>1, Mine
    <2>3. /\ conns[cur].s2c = <<End>>
          /\ conns[cur].sup => Acked
          /\ ~conns[cur].sup => ~HasData(call.kind)
        BY <1>2, <2>1, <2>2, Mine DEF TalkOk, LeftOk, Acked
    <2>4. PICK c \in Conn :
             /\ Consume = [conns EXCEPT ![cur] = c]
             /\ c.c2s = conns[cur].c2s /\ c.s2c = <<>>
             /\ c.cup = conns[cur].cup /\ c.sup = conns[cur].sup
             /\ Sound(cur, c) /\ Received = End
        BY <2>1, <2>2, <2>3, Took, ItemTypes
    <2>5. pc' = next
        BY <1>5, <2>4, ItemTypes
    <2>6. conns' = [conns EXCEPT ![cur] = c] /\ conns'[cur] = c
        BY <1>5, <2>1, <2>4, Mine, Becomes
    <2>7. OrderOk'
        BY <1>2, <2>1, <2>4, <2>6, Mine, OrderTalks
    <2>8. CurOk'
        <3>1. CASE ~c.sup
            BY <2>4, <2>6, <3>1, <1>2 DEF CurOk, LeftOk
        <3>2. CASE c.sup /\ HasData(call.kind)
            <4>1. Acked
                BY <2>3, <2>4, <3>2
            <4>2. pc' = "data"
                BY <1>3, <2>5, <3>2
            <4>3. /\ srv = cur /\ spc = "data" /\ got = Hdr(call) /\ conns[cur].c2s = <<>>
                BY <3>2, <4>1 DEF Acked
            <4> QED
                BY <1>2, <2>4, <2>6, <3>2, <4>2, <4>3 DEF CurOk, TalkOk
        <3>3. CASE c.sup /\ ~HasData(call.kind)
            <4>1. Acked
                BY <2>3, <2>4, <3>3
            <4>2. pc' = "done"
                BY <1>3, <2>5, <3>3
            <4>3. /\ srv = cur /\ conns[cur].c2s = <<>>
                  /\ spc = "hdr" \/ (spc = "process" /\ got.kind \notin WithAnswer)
                BY <3>3, <4>1 DEF Acked
            <4>4. Quiet(spc, <<>>)'
                BY <1>2, <4>3 DEF Quiet
            <4> QED
                BY <1>2, <2>4, <2>6, <3>3, <4>2, <4>3, <4>4 DEF CurOk, TalkOk, View
        <3> QED
            BY <2>4, <3>1, <3>2, <3>3, Mine DEF Conn
    <2>9. /\ pc' \in {"data", "done"}
          /\ pc' = "data" => HasData(call.kind)
          /\ pc' = "done" => call.kind \notin WithAnswer
        BY <1>3, <2>5
    <2> QED
        BY <1>2, <2>1, <2>4, <2>6, <2>7, <2>8, <2>9, TalkStep
<1> QED
    BY <1>1, <1>2, <1>4, <1>5 DEF AwaitEnd

LEMMA AwaitCheckStep ==
    ASSUME LinkInv, AwaitCheck
    PROVE  LinkInv'
<1>1. pc = "check" /\ UNCHANGED <<call, result, tries, cur, srv, spc, got, log>>
    BY DEF AwaitCheck, AwaitEnd, server
<1>2. CASE NothingToReceive /\ pc' = "failed" /\ conns' = conns
    BY <1>1, <1>2, NothingStep
<1>3. CASE /\ CanReceive /\ conns' = Consume
           /\ pc' = IF Received.t = "end" THEN "done" ELSE "failed"
    <2>1. cur # NoConn /\ conns[cur].s2c # <<>>
        BY <1>3 DEF CanReceive
    <2>2. conns[cur].cup
        BY <2>1, Mine
    <2>3. conns[cur].sup /\ Served(<<End>>)
        BY <1>1, <2>1, <2>2, Mine DEF TalkOk, LeftOk, Working
    <2>4. PICK c \in Conn :
             /\ Consume = [conns EXCEPT ![cur] = c]
             /\ c.c2s = conns[cur].c2s /\ c.s2c = <<>>
             /\ c.cup = conns[cur].cup /\ c.sup = conns[cur].sup
             /\ Sound(cur, c) /\ Received = End
        BY <2>1, <2>2, <2>3, Took, ItemTypes DEF Served
    <2>5. pc' = "done"
        BY <1>3, <2>4, ItemTypes
    <2>6. conns' = [conns EXCEPT ![cur] = c] /\ conns'[cur] = c
        BY <1>3, <2>1, <2>4, Mine, Becomes
    <2>7. OrderOk'
        BY <1>1, <2>1, <2>4, <2>6, Mine, OrderTalks
    <2>8. CurOk'
        BY <1>1, <2>3, <2>4, <2>5, <2>6 DEF CurOk, TalkOk, Served, View, Quiet
    <2>9. Contains(log, call.id)
        BY <2>3 DEF Served
    <2> QED
        BY <1>1, <2>1, <2>4, <2>5, <2>6, <2>7, <2>8, <2>9, TalkStep
<1> QED
    BY <1>1, <1>2, <1>3 DEF AwaitCheck, AwaitEnd

LEMMA AwaitReplyStep ==
    ASSUME LinkInv, AwaitReply
    PROVE  LinkInv'
<1>1. /\ pc = "reply" /\ UNCHANGED <<call, result, tries, cur, srv, spc, got, log>>
    BY DEF AwaitReply, server
<1>2. call.kind = "request"
    BY <1>1 DEF LinkInv, ClientOk
<1>3. CASE NothingToReceive /\ pc' = "failed" /\ conns' = conns
    BY <1>1, <1>3, NothingStep
<1>4. CASE /\ CanReceive
           /\ IF Received.t = "hdr"
              THEN /\ pc' = "reply data"
                   /\ conns' = [Consume EXCEPT ![cur].c2s =
                                   IF conns[cur].sup THEN Append(@, End) ELSE @]
              ELSE pc' = "failed" /\ conns' = Consume
    <2>1. cur # NoConn /\ conns[cur].s2c # <<>>
        BY <1>4 DEF CanReceive
    <2>2. conns[cur].cup
        BY <2>1, Mine
    <2>3. conns[cur].sup /\ Replying(<<Hdr(call)>>, <<>>)
        BY <1>1, <2>1, <2>2, Mine DEF TalkOk, LeftOk, Working
    <2>4. Hdr(call) \in Items /\ Hdr(call).t = "hdr"
        BY TypeFacts, ItemTypes DEF Headers
    <2>5. PICK c \in Conn :
             /\ Consume = [conns EXCEPT ![cur] = c]
             /\ c.c2s = conns[cur].c2s /\ c.s2c = <<>>
             /\ c.cup = conns[cur].cup /\ c.sup = conns[cur].sup
             /\ Sound(cur, c) /\ Received = Hdr(call)
        BY <2>1, <2>2, <2>3, <2>4, Took DEF Replying
    <2>6. PICK q : q = <<End>>
        OBVIOUS
    <2>7. q \in Seq(Items) /\ Append(<<>>, End) = q /\ Waiting(q) = {}
        BY <2>6, ItemTypes, QueueTypes, ShortQueues, WaitingOf
    <2>8. PICK d : d = [c EXCEPT !.c2s = q]
        OBVIOUS
    <2>9. /\ d \in Conn /\ d.c2s = q /\ d.s2c = <<>> /\ d.cup = c.cup /\ d.sup = c.sup
        BY <2>5, <2>7, <2>8, Queues
    <2>10. pc' = "reply data" /\ conns' = [conns EXCEPT ![cur] = d]
        <3>1. PICK cs : cs = [conns EXCEPT ![cur] = c]
            OBVIOUS
        <3>2. cs \in Seq(Conn) /\ cur \in DOMAIN cs /\ cs[cur] = c
            BY <2>1, <2>5, <3>1, Mine, SetConn
        <3>3. conns' = [cs EXCEPT ![cur].c2s = q]
            BY <1>4, <2>3, <2>4, <2>5, <2>7, <3>1, <3>2 DEF Replying
        <3>4. [cs EXCEPT ![cur].c2s = q] = [cs EXCEPT ![cur] = d]
            BY <2>8, <3>2
        <3>5. [cs EXCEPT ![cur] = d] = [conns EXCEPT ![cur] = d]
            BY <3>1
        <3> QED
            BY <1>4, <2>4, <2>5, <3>3, <3>4, <3>5
    <2>11. conns'[cur] = d
        BY <2>1, <2>9, <2>10, Mine, Becomes
    <2>12. Sound(cur, d)
        <3>1. srv = cur /\ View(cur) = "reply"
            BY <2>3 DEF Replying, View
        <3>2. Readable("reply", q)
            BY <2>6 DEF Readable
        <3> QED
            BY <2>2, <2>3, <2>5, <2>9, <3>1, <3>2 DEF Sound
    <2>13. OrderOk'
        BY <1>1, <2>1, <2>7, <2>9, <2>10, Mine, OrderTalks
    <2>14. CurOk'
        BY <1>1, <2>3, <2>5, <2>6, <2>9, <2>10, <2>11 DEF CurOk, TalkOk, Replying
    <2> QED
        BY <1>1, <1>2, <2>1, <2>9, <2>10, <2>12, <2>13, <2>14, TalkStep
<1> QED
    BY <1>1, <1>3, <1>4 DEF AwaitReply

LEMMA AwaitReplyDataStep ==
    ASSUME LinkInv, AwaitReplyData
    PROVE  LinkInv'
<1>1. /\ pc = "reply data" /\ UNCHANGED <<call, result, tries, cur, srv, spc, got, log>>
    BY DEF AwaitReplyData, server
<1>2. CASE NothingToReceive /\ pc' = "failed" /\ conns' = conns
    BY <1>1, <1>2, NothingStep
<1>3. CASE CanReceive /\ pc' \in {"done", "failed"} /\ conns' = Consume
    <2>1. cur # NoConn /\ conns[cur].s2c # <<>>
        BY <1>3 DEF CanReceive
    <2>2. conns[cur].cup
        BY <2>1, Mine
    <2>3. conns[cur].sup /\ Served(<<Data(call)>>)
        BY <1>1, <2>1, <2>2, Mine DEF TalkOk, LeftOk, Replying
    <2>4. Data(call) \in Items
        BY TypeFacts, ItemTypes
    <2>5. PICK c \in Conn :
             /\ Consume = [conns EXCEPT ![cur] = c]
             /\ c.c2s = conns[cur].c2s /\ c.s2c = <<>>
             /\ c.cup = conns[cur].cup /\ c.sup = conns[cur].sup
             /\ Sound(cur, c)
        BY <2>1, <2>2, <2>3, <2>4, Took DEF Served
    <2>6. conns' = [conns EXCEPT ![cur] = c] /\ conns'[cur] = c
        BY <1>3, <2>1, <2>5, Mine, Becomes
    <2>7. OrderOk'
        BY <1>1, <2>1, <2>5, <2>6, Mine, OrderTalks
    <2>8. CurOk'
        BY <1>1, <1>3, <2>3, <2>5, <2>6 DEF CurOk, TalkOk, Served, View, Quiet
    <2>9. Contains(log, call.id)
        BY <2>3 DEF Served
    <2> QED
        BY <1>1, <1>3, <2>1, <2>5, <2>6, <2>7, <2>8, <2>9, TalkStep
<1> QED
    BY <1>1, <1>2, <1>3 DEF AwaitReplyData

LEMMA ClosedEnd ==
    ASSUME NEW r \in Conn
    PROVE  LET c == [r EXCEPT !.cup = FALSE, !.s2c = <<>>]
           IN  c \in Conn /\ ~c.cup /\ c.s2c = <<>> /\ c.c2s = r.c2s /\ c.sup = r.sup
<1>1. <<>> \in Seq(Items)
    OBVIOUS
<1> QED
    BY <1>1 DEF Conn

LEMMA EndClosed ==
    ASSUME NEW r \in Conn
    PROVE  \E c \in Conn : /\ c = [r EXCEPT !.cup = FALSE, !.s2c = <<>>]
                           /\ ~c.cup /\ c.s2c = <<>> /\ c.c2s = r.c2s /\ c.sup = r.sup
BY ClosedEnd

LEMMA ClosedIn ==
    ASSUME NEW cs \in Seq(Conn), NEW i \in DOMAIN cs
    PROVE  [cs EXCEPT ![i].cup = FALSE, ![i].s2c = <<>>]
             = [cs EXCEPT ![i] = [cs[i] EXCEPT !.cup = FALSE, !.s2c = <<>>]]
OBVIOUS

LEMMA NewConn ==
    /\ FreshConn \in Conn /\ FreshConn.c2s = <<>> /\ FreshConn.s2c = <<>>
    /\ FreshConn.cup /\ FreshConn.sup
BY QueueTypes DEF Conn, FreshConn

LEMMA CountFacts ==
    ASSUME LinkInv
    PROVE  /\ Len(conns) \in Nat /\ Len(conns) # 0 /\ DOMAIN conns = 1 .. Len(conns)
           /\ srv \in 0 .. Len(conns)
<1>1. conns \in Seq(Conn) /\ conns # <<>> /\ srv \in 0 .. Len(conns)
    BY DEF LinkInv, Types, ClientOk
<1>2. Len(conns) \in Nat /\ DOMAIN conns = 1 .. Len(conns)
    BY <1>1
<1>3. Len(conns) # 0
    BY <1>1, EmptySeq
<1> QED
    BY <1>1, <1>2, <1>3

\* With its socket closed none of the client's connections is open.
LEMMA Closed ==
    ASSUME LinkInv, NEW cs \in Close(cur)
    PROVE  /\ cs \in Seq(Conn) /\ Len(cs) = Len(conns) /\ DOMAIN cs = DOMAIN conns
           /\ \A j \in DOMAIN conns :
                 /\ cs[j] \in Conn /\ ~cs[j].cup /\ cs[j].s2c = <<>>
                 /\ cs[j].c2s \in {<<>>, conns[j].c2s}
                 /\ ~cs[j].sup => cs[j].c2s = <<>>
                 /\ cs[j].sup => conns[j].sup
<1>1. conns \in Seq(Conn)
    BY TypeFacts
<1>2. ASSUME NEW j \in DOMAIN conns, j # cur
      PROVE  /\ conns[j] \in Conn /\ ~conns[j].cup /\ conns[j].s2c = <<>>
             /\ ~conns[j].sup => conns[j].c2s = <<>>
    BY <1>1, <1>2 DEF LinkInv, Sound
<1>3. CASE cur = NoConn
    <2>1. cs = conns
        BY <1>3 DEF Close
    <2>2. \A j \in DOMAIN conns : j # cur
        BY <1>3, TypeFacts DEF NoConn
    <2> QED
        BY <1>1, <1>2, <2>1, <2>2
<1>4. CASE cur # NoConn
    <2>1. cur \in DOMAIN conns /\ Sound(cur, conns[cur]) /\ conns[cur] \in Conn
        BY <1>4, Mine
    <2>2. PICK c \in Conn : /\ c = [conns[cur] EXCEPT !.cup = FALSE, !.s2c = <<>>]
                            /\ ~c.cup /\ c.s2c = <<>>
                            /\ c.c2s = conns[cur].c2s /\ c.sup = conns[cur].sup
        BY <2>1, EndClosed
    <2>3. [conns EXCEPT ![cur].cup = FALSE, ![cur].s2c = <<>>] = [conns EXCEPT ![cur] = c]
        BY <1>1, <2>1, <2>2, ClosedIn
    <2>4. DeadConn \in Conn
        BY QueueTypes DEF Conn, DeadConn
    <2>5. cs \in {[conns EXCEPT ![cur] = DeadConn],
                  [conns EXCEPT ![cur].cup = FALSE, ![cur].s2c = <<>>]}
        BY <1>4 DEF Close
    <2>6. cs = [conns EXCEPT ![cur] = DeadConn] \/ cs = [conns EXCEPT ![cur] = c]
        BY <2>3, <2>5
    <2>7. PICK d \in {DeadConn, c} : cs = [conns EXCEPT ![cur] = d]
        BY <2>6
    <2>8. d \in Conn
        BY <2>4
    <2>9. /\ cs \in Seq(Conn) /\ Len(cs) = Len(conns) /\ DOMAIN cs = DOMAIN conns
          /\ cs[cur] = d /\ \A j \in DOMAIN conns : j # cur => cs[j] = conns[j]
        BY <1>1, <2>1, <2>7, <2>8, SetConn
    <2>10. /\ ~d.cup /\ d.s2c = <<>> /\ d.c2s \in {<<>>, conns[cur].c2s}
           /\ ~d.sup => d.c2s = <<>>
           /\ d.sup => conns[cur].sup
        <3>1. ~conns[cur].sup => conns[cur].c2s = <<>>
            BY <2>1 DEF Sound
        <3>2. CASE d = DeadConn
            BY <3>2 DEF DeadConn
        <3>3. CASE d = c
            BY <2>2, <3>1, <3>3
        <3> QED
            BY <3>2, <3>3
    <2> QED
        BY <1>2, <2>8, <2>9, <2>10
<1> QED
    BY <1>3, <1>4

\* The client closes its connection, and perhaps makes another.
Closes(cs) ==
    /\ pc = "failed" /\ UNCHANGED <<call, srv, spc, got, log>>
    /\ \/ conns' = cs /\ cur' = NoConn
       \/ conns' = Append(cs, FreshConn) /\ cur' = Len(conns) + 1
    /\ tries' \in 0 .. Retry - 1
    /\ \/ pc' = "idle" /\ result' \in {"returned", "threw"}
       \/ pc' = "hdr" /\ UNCHANGED result

LEMMA ClosesTo ==
    ASSUME LinkInv, NEW cs \in Seq(Conn), Len(cs) = Len(conns), Closes(cs)
    PROVE  /\ conns' \in Seq(Conn) /\ conns' # <<>> /\ cur' \in {NoConn, Len(conns')}
           /\ srv \in 0 .. Len(conns')
           /\ \A j \in DOMAIN conns : j \in DOMAIN conns' /\ conns'[j] = cs[j]
           /\ \A j \in DOMAIN conns' : j \notin DOMAIN conns =>
                 j > srv /\ j = cur' /\ conns'[j] = FreshConn
           /\ cur' # NoConn => cur' > srv /\ conns'[cur'] = FreshConn
<1> DEFINE n == Len(conns)
<1>1. n \in Nat /\ n # 0 /\ DOMAIN conns = 1 .. n /\ srv \in 0 .. n
    BY CountFacts
<1>2. \/ conns' = cs /\ cur' = NoConn
      \/ conns' = Append(cs, FreshConn) /\ cur' = n + 1
    BY DEF Closes
<1>3. DOMAIN cs = 1 .. n /\ Len(cs) = n
    BY <1>1
<1> HIDE DEF n
<1>4. srv \in 0 .. n + 1 /\ n + 1 > srv
    BY <1>1
<1>5. CASE conns' = cs /\ cur' = NoConn
    BY <1>1, <1>3, <1>5 DEF NoConn
<1>6. CASE conns' = Append(cs, FreshConn) /\ cur' = n + 1
    <2>1. /\ conns' \in Seq(Conn) /\ Len(conns') = n + 1
          /\ DOMAIN conns' = DOMAIN cs \cup {n + 1}
          /\ conns'[n + 1] = FreshConn /\ \A j \in DOMAIN cs : conns'[j] = cs[j]
        BY <1>3, <1>6, NewConn, AddConn
    <2>2. conns' # <<>>
        BY <1>1, <2>1
    <2> QED
        BY <1>1, <1>3, <1>4, <1>6, <2>1, <2>2
<1> QED
    BY <1>2, <1>5, <1>6

LEMMA CloseStep ==
    ASSUME LinkInv, NEW cs \in Close(cur), Closes(cs)
    PROVE  LinkInv'
<1>1. /\ cs \in Seq(Conn) /\ Len(cs) = Len(conns) /\ DOMAIN cs = DOMAIN conns
      /\ \A j \in DOMAIN conns :
            /\ cs[j] \in Conn /\ ~cs[j].cup /\ cs[j].s2c = <<>>
            /\ cs[j].c2s \in {<<>>, conns[j].c2s}
            /\ ~cs[j].sup => cs[j].c2s = <<>>
            /\ cs[j].sup => conns[j].sup
    BY Closed
<1>2. /\ conns' \in Seq(Conn) /\ conns' # <<>> /\ cur' \in {NoConn, Len(conns')}
      /\ srv \in 0 .. Len(conns')
      /\ \A j \in DOMAIN conns : j \in DOMAIN conns' /\ conns'[j] = cs[j]
      /\ \A j \in DOMAIN conns' : j \notin DOMAIN conns =>
            j > srv /\ j = cur' /\ conns'[j] = FreshConn
      /\ cur' # NoConn => cur' > srv /\ conns'[cur'] = FreshConn
    BY <1>1, ClosesTo
<1>3. /\ pc = "failed" /\ UNCHANGED <<call, srv, spc, got, log>>
      /\ tries' \in 0 .. Retry - 1
      /\ \/ pc' = "idle" /\ result' \in {"returned", "threw"}
         \/ pc' = "hdr" /\ UNCHANGED result
    BY DEF Closes
<1>4. Types'
    BY <1>2, <1>3 DEF LinkInv, Types
<1>5. (\A j \in DOMAIN conns : Sound(j, conns[j]))'
    <2>1. ASSUME NEW j \in DOMAIN conns
          PROVE  Sound(j, conns[j])'
        <3>1. Sound(j, conns[j])
            BY DEF LinkInv
        <3>2. View(j)' = View(j) /\ (Left(j)' <=> Left(j))
            BY <1>3 DEF View, Left
        <3>3. Readable(View(j), <<>>)
            BY DEF Readable
        <3>4. Readable(View(j), cs[j].c2s)
            BY <1>1, <3>1, <3>3 DEF Sound
        <3>5. Readable(View(j), cs[j].c2s)'
            BY <1>3, <3>2, <3>4 DEF Readable
        <3>6. conns'[j] = cs[j]
            BY <1>2
        <3>7. Left(j) => ~cs[j].sup
            BY <1>1, <3>1 DEF Sound
        <3>8. /\ ~cs[j].cup /\ cs[j].s2c = <<>>
              /\ ~cs[j].sup => cs[j].c2s = <<>>
            BY <1>1
        <3> QED
            BY <3>2, <3>5, <3>6, <3>7, <3>8 DEF Sound
    <2>2. ASSUME NEW j \in DOMAIN conns', j \notin DOMAIN conns
          PROVE  Sound(j, conns[j])'
        <3>1. j > srv /\ j = cur' /\ conns'[j] = FreshConn
            BY <1>2, <2>2
        <3>2. j \in Nat /\ srv \in Nat
            BY <1>2, TypeFacts
        <3>3. j # srv /\ ~(j < srv)
            BY <3>1, <3>2
        <3>4. View(j)' = "hdr" /\ ~Left(j)'
            BY <1>3, <3>3 DEF View, Left
        <3>5. Readable("hdr", <<>>)'
            BY DEF Readable
        <3> QED
            BY <3>1, <3>4, <3>5, NewConn DEF Sound
    <2> QED
        BY <2>1, <2>2
<1>6. OrderOk'
    <2>1. Waiting(<<>>) = {}
        BY WaitingOf
    <2>2. ASSUME NEW i \in Nat
          PROVE  Pending(i)' \subseteq Pending(i)
        <3>1. CASE i \in DOMAIN conns
            BY <1>1, <1>2, <2>1, <3>1 DEF Pending
        <3>2. CASE i \notin DOMAIN conns
            BY <1>2, <2>1, <3>2, NewConn DEF Pending
        <3> QED
            BY <3>1, <3>2
    <2>3. Busy' => Busy
        BY <1>3 DEF Busy
    <2> QED
        BY <1>3, <2>2, <2>3, OrderShrinks DEF LinkInv
<1>7. ServerOk'
    BY <1>3 DEF LinkInv, ServerOk
<1>8. ClientOk'
    BY <1>2, <1>3 DEF LinkInv, ClientOk
<1>9. CurOk'
    <2> SUFFICES ASSUME cur' # NoConn PROVE CurOk'
        BY DEF CurOk
    <2>1. cur' > srv /\ conns'[cur'] = FreshConn
        BY <1>2
    <2>2. cur' # srv
        BY <1>2, <2>1, TypeFacts
    <2>3. View(cur)' = "hdr"
        BY <1>3, <2>2 DEF View
    <2> QED
        BY <1>3, <2>1, <2>3, NewConn DEF CurOk, TalkOk, Quiet
<1> QED
    BY <1>4, <1>5, <1>6, <1>7, <1>8, <1>9 DEF LinkInv

LEMMA RetriedStep ==
    ASSUME LinkInv, Retried \/ ReconnectFails
    PROVE  LinkInv'
<1>1. tries \in 0 .. Retry - 1 /\ Retry \in Nat \ {0}
    BY LinkAssumption DEF LinkInv, Types
<1>2. CASE Retried
    <2>1. PICK cs \in Close(cur) : conns' = Append(cs, FreshConn)
        BY <1>2 DEF Retried
    <2>2. tries' \in 0 .. Retry - 1
        <3>1. tries' = tries \/ (tries # Retry - 1 /\ tries' = tries + 1)
            BY <1>2 DEF Retried, LastTry
        <3> QED
            BY <1>1, <3>1
    <2>3. /\ pc = "failed" /\ UNCHANGED <<call, srv, spc, got, log>>
          /\ cur' = Len(conns) + 1
          /\ \/ pc' = "idle" /\ result' \in {"returned", "threw"}
             \/ pc' = "hdr" /\ UNCHANGED result
        BY <1>2 DEF Retried, server
    <2>4. Closes(cs)
        BY <2>1, <2>2, <2>3 DEF Closes
    <2> QED
        BY <2>1, <2>4, CloseStep
<1>3. CASE ReconnectFails
    <2>1. /\ pc = "failed" /\ UNCHANGED <<call, srv, spc, got, log, tries>>
          /\ conns' \in Close(cur) /\ cur' = NoConn
          /\ pc' = "idle" /\ result' = "threw"
        BY <1>3 DEF ReconnectFails, server
    <2>2. Closes(conns')
        BY <1>1, <2>1 DEF Closes
    <2> QED
        BY <2>1, <2>2, CloseStep
<1> QED
    BY <1>2, <1>3

-----------------------------------------------------------------------------
\* The server's steps, and the network's

LEMMA Logged ==
    ASSUME NEW s \in Seq(1 .. MaxCalls), NEW n \in 1 .. MaxCalls
    PROVE  /\ Append(s, n) \in Seq(1 .. MaxCalls) /\ Append(s, n) # <<>>
           /\ Last(Append(s, n)) = n /\ Contains(Append(s, n), n)
           /\ \A m : Contains(s, m) => Contains(Append(s, n), m)
<1> DEFINE r == Append(s, n)
<1>1. /\ r \in Seq(1 .. MaxCalls) /\ Len(r) = Len(s) + 1 /\ Len(s) \in Nat
      /\ r[Len(s) + 1] = n /\ \A i \in 1 .. Len(s) : r[i] = s[i]
    OBVIOUS
<1> HIDE DEF r
<1>2. r # <<>>
    BY <1>1, EmptySeq
<1>3. Last(r) = n
    BY <1>1 DEF Last
<1>4. Contains(r, n)
    BY <1>1 DEF Contains
<1>5. \A m : Contains(s, m) => Contains(r, m)
    <2>1. \A i \in 1 .. Len(s) : i \in 1 .. Len(r)
        BY <1>1
    <2> QED
        BY <1>1, <2>1 DEF Contains
<1> QED
    BY <1>1, <1>2, <1>3, <1>4, <1>5 DEF r

\* What is known of the connection the server works on.
LEMMA Theirs ==
    ASSUME LinkInv, spc # "accept"
    PROVE  /\ srv \in DOMAIN conns /\ srv # 0 /\ srv \in Nat
           /\ conns \in Seq(Conn) /\ conns[srv] \in Conn
           /\ conns[srv].c2s \in Seq(Items) /\ conns[srv].s2c \in Seq(Items)
           /\ conns[srv].cup \in BOOLEAN /\ conns[srv].sup \in BOOLEAN
           /\ Sound(srv, conns[srv]) /\ Readable(spc, conns[srv].c2s)
           /\ conns[srv].c2s # <<>> => conns[srv].sup
           /\ conns[srv].cup => srv = cur /\ conns[srv].sup /\ TalkOk
<1>1. srv # 0
    BY DEF LinkInv, ServerOk
<1>2. srv \in DOMAIN conns /\ conns \in Seq(Conn) /\ srv \in Nat
    BY <1>1, TypeFacts
<1>3. Sound(srv, conns[srv])
    BY <1>2 DEF LinkInv
<1>4. ~Left(srv)
    BY <1>2 DEF Left
<1>5. View(srv) = spc
    BY DEF View
<1>6. conns[srv].cup => srv = cur /\ conns[srv].sup
    BY <1>3, <1>4 DEF Sound
<1>7. conns[srv].cup => TalkOk
    BY <1>1, <1>6 DEF LinkInv, CurOk, NoConn
<1>8. Readable(spc, conns[srv].c2s) /\ (conns[srv].c2s # <<>> => conns[srv].sup)
    BY <1>3, <1>5 DEF Sound
<1> QED
    BY <1>1, <1>2, <1>3, <1>6, <1>7, <1>8, TypeFacts

\* The talk on a connection the server does not work on.
LEMMA Elsewhere ==
    ASSUME LinkInv, UNCHANGED <<call, pc, cur>>, cur # NoConn, srv # cur,
           View(cur)' = "hdr", conns'[cur] = conns[cur]
    PROVE  CurOk'
<1>1. View(cur) = "hdr"
    BY DEF View
<1>2. CASE conns[cur].cup /\ conns[cur].sup
    <2>1. TalkOk
        BY <1>2, Mine
    <2>2. /\ pc \in {"idle", "hdr", "done", "failed"} =>
                conns[cur].s2c = <<>> /\ conns[cur].c2s = <<>>
          /\ pc = "ack" => conns[cur].s2c = <<>> /\ conns[cur].c2s = <<Hdr(call)>>
          /\ pc \notin {"data", "check", "reply", "reply data"}
        BY <1>1, <2>1 DEF TalkOk, Quiet, Called, Acked, Working, Served, Replying
    <2>3. CASE pc = "ack"
        <3>1. conns'[cur'].s2c = <<>> /\ conns'[cur'].c2s = <<Hdr(call')>>
            BY <2>2, <2>3
        <3>2. Called("hdr", <<Hdr(call)>>)'
            BY DEF Called
        <3>3. TalkOk'
            BY <2>3, <3>1, <3>2 DEF TalkOk
        <3> QED
            BY <1>2, <3>3 DEF CurOk
    <2>4. CASE pc \in {"idle", "hdr", "done", "failed"}
        <3>1. conns'[cur'].s2c = <<>> /\ conns'[cur'].c2s = <<>>
            BY <2>2, <2>4
        <3>2. Quiet("hdr", <<>>)'
            BY DEF Quiet
        <3>3. TalkOk'
            BY <2>4, <3>1, <3>2 DEF TalkOk
        <3> QED
            BY <1>2, <3>3 DEF CurOk
    <2>5. pc = "ack" \/ pc \in {"idle", "hdr", "done", "failed"}
        BY <2>2 DEF LinkInv, Types
    <2> QED
        BY <2>3, <2>4, <2>5
<1>3. CASE conns[cur].cup /\ ~conns[cur].sup
    <2>1. LeftOk
        BY <1>3, Mine
    <2> QED
        BY <1>3, <2>1 DEF CurOk, LeftOk
<1> QED
    BY <1>2, <1>3 DEF CurOk

\* The server works on its connection.
ServerMoves ==
    /\ spc # "accept" /\ UNCHANGED <<call, result, pc, tries, cur, srv>>
    /\ got' \in Items
    /\ spc' \in {"accept", "hdr", "data", "process", "reply"}
    /\ \/ log' = log
       \/ got.id \in 1 .. MaxCalls /\ log' = Append(log, got.id)

LEMMA ServeStep ==
    ASSUME LinkInv, ServerMoves,
           NEW c \in Conn, conns' = [conns EXCEPT ![srv] = c],
           Sound(srv, c)', OrderOk', ServerOk',
           srv = cur /\ c.cup => CurOk'
    PROVE  LinkInv'
<1>1. spc # "accept" /\ UNCHANGED <<call, result, pc, tries, cur, srv>>
    BY DEF ServerMoves
<1>2. srv \in DOMAIN conns /\ conns \in Seq(Conn) /\ srv # 0
    BY <1>1, Theirs
<1>3. /\ conns' \in Seq(Conn) /\ Len(conns') = Len(conns) /\ conns' # <<>>
      /\ conns'[srv] = c /\ \A j \in DOMAIN conns : j # srv => conns'[j] = conns[j]
    BY <1>2, Becomes
<1>4. log' \in Seq(1 .. MaxCalls) /\ \A m : Contains(log, m) => Contains(log', m)
    <2>1. log \in Seq(1 .. MaxCalls)
        BY TypeFacts
    <2> QED
        BY <2>1, Logged DEF ServerMoves
<1>5. Types'
    BY <1>1, <1>3, <1>4 DEF LinkInv, Types, ServerMoves
<1>6. (\A j \in DOMAIN conns : Sound(j, conns[j]))'
    BY <1>1, <1>2, ServerFrame
<1>7. ClientOk'
    BY <1>1, <1>3, <1>4 DEF LinkInv, ClientOk
<1>8. CurOk'
    <2>1. CASE cur = NoConn \/ (srv = cur /\ ~c.cup)
        BY <1>1, <1>3, <2>1 DEF CurOk
    <2>2. CASE cur # NoConn /\ srv # cur
        <3>1. View(cur)' = "hdr"
            BY <1>1, <2>2 DEF View
        <3>2. conns'[cur] = conns[cur]
            BY <1>3, <2>2, Mine
        <3> QED
            BY <1>1, <2>2, <3>1, <3>2, Elsewhere
    <2> QED
        BY <2>1, <2>2
<1> QED
    BY <1>5, <1>6, <1>7, <1>8 DEF LinkInv

\* A header is taken from the front of all that wait.
LEMMA OrderReceives ==
    ASSUME LinkInv, spc = "hdr", UNCHANGED <<call, log, srv>>,
           got' \in Pending(srv), Pending(srv)' = {},
           \A j : j # srv => Pending(j)' = Pending(j)
    PROVE  OrderOk'
<1>1. srv \in Nat /\ DOMAIN conns \subseteq Nat
    BY TypeFacts
<1>2. ASSUME NEW i \in Nat, i < srv
      PROVE  Pending(i) = {}
    <2>1. CASE i \in DOMAIN conns
        <3>1. Sound(i, conns[i]) /\ Left(i)
            BY <1>2, <2>1 DEF LinkInv, Left
        <3>2. conns[i].c2s = <<>>
            BY <3>1 DEF Sound
        <3> QED
            BY <3>2, WaitingOf DEF Pending
    <2> QED
        BY <2>1 DEF Pending
<1>3. \A x : Made(x)' <=> Made(x)
    BY DEF Made
<1>4. /\ \A i \in Nat : \A x \in Pending(i) : Made(x)
      /\ \A i, j \in Nat : i < j => \A x \in Pending(i), y \in Pending(j) : x.id <= y.id
      /\ log # <<>> =>
          /\ Last(log) \in 1 .. call.id
          /\ \A i \in Nat : \A x \in Pending(i) : Last(log) <= x.id
    BY DEF LinkInv, OrderOk
<1>5. \A i \in Nat : Pending(i)' \subseteq Pending(i)
    OBVIOUS
<1>6. Made(got')
    BY <1>1, <1>4
<1>7. ASSUME NEW i \in Nat, NEW x \in Pending(i)'
      PROVE  got'.id <= x.id
    <2>1. i # srv /\ x \in Pending(i)
        BY <1>7
    <2>2. ~(i < srv)
        BY <1>2, <2>1
    <2>3. srv < i
        BY <1>1, <2>1, <2>2
    <2> QED
        BY <1>1, <1>4, <2>1, <2>3
<1>8. log # <<>> => Last(log) <= got'.id
    BY <1>1, <1>4
<1> QED
    BY <1>3, <1>4, <1>5, <1>6, <1>7, <1>8 DEF OrderOk

\* What the server has at hand is processed.
LEMMA OrderLogs ==
    ASSUME LinkInv, Busy, spc' = "hdr", UNCHANGED <<call, got>>,
           log' = Append(log, got.id), \A i \in Nat : Pending(i)' \subseteq Pending(i)
    PROVE  OrderOk' /\ got.id \in 1 .. MaxCalls /\ got.id \in 1 .. call.id
<1>1. /\ Made(got) /\ \A i \in Nat : \A x \in Pending(i) : got.id <= x.id
      /\ \A i \in Nat : \A x \in Pending(i) : Made(x)
      /\ \A i, j \in Nat : i < j => \A x \in Pending(i), y \in Pending(j) : x.id <= y.id
    BY DEF LinkInv, OrderOk
<1>2. got.id \in 1 .. call.id
    BY <1>1 DEF Made
<1>3. got.id \in 1 .. MaxCalls
    <2>1. call.id \in 0 .. MaxCalls /\ MaxCalls \in Nat
        BY TypeFacts, LinkAssumption
    <2> QED
        BY <1>2, <2>1
<1>4. log' # <<>> /\ Last(log') = got.id
    BY <1>3, Logged, TypeFacts
<1>5. ~Busy' /\ \A x : Made(x)' <=> Made(x)
    BY DEF Busy, Made
<1>6. \A i \in Nat : \A x \in Pending(i)' : x \in Pending(i)
    OBVIOUS
<1> QED
    BY <1>1, <1>2, <1>3, <1>4, <1>5, <1>6 DEF OrderOk

LEMMA AcceptStep ==
    ASSUME LinkInv, Accept
    PROVE  LinkInv'
<1>1. /\ spc = "accept" /\ srv < Len(conns) /\ srv' = srv + 1 /\ spc' = "hdr"
      /\ UNCHANGED <<call, result, pc, tries, cur, conns, got, log>>
    BY DEF Accept, client
<1>2. Len(conns) \in Nat /\ DOMAIN conns = 1 .. Len(conns) /\ srv \in Nat
    BY CountFacts, TypeFacts
<1>3. srv + 1 \in 0 .. Len(conns) /\ srv + 1 # 0
    BY <1>1, <1>2
<1>4. Types' /\ ServerOk' /\ ClientOk'
    BY <1>1, <1>3 DEF LinkInv, Types, ServerOk, ClientOk
<1>5. ASSUME NEW j \in DOMAIN conns
      PROVE  Sound(j, conns[j])'
    <2>1. Sound(j, conns[j]) /\ j \in Nat
        BY <1>2 DEF LinkInv
    <2>2. (Left(j)' <=> Left(j)) /\ (j > srv + 1 => j > srv)
        BY <1>1, <1>2, <2>1 DEF Left
    <2>3. View(j)' = "hdr"
        BY <1>1 DEF View
    <2>4. View(j) \in {"hdr", "accept"}
        BY <1>1 DEF View
    <2>5. Readable("hdr", conns[j].c2s)
        BY <2>1, <2>4 DEF Sound, Readable
    <2>6. Readable("hdr", conns[j].c2s)'
        BY <1>1, <2>5 DEF Readable
    <2> QED
        BY <1>1, <2>1, <2>2, <2>3, <2>6 DEF Sound
<1>6. OrderOk'
    <2>1. \A i : Pending(i)' = Pending(i)
        BY <1>1 DEF Pending
    <2>2. Busy' => Busy
        BY <1>1 DEF Busy
    <2> QED
        BY <1>1, <2>1, <2>2, OrderShrinks DEF LinkInv
<1>7. CurOk'
    <2>1. CASE cur # NoConn
        <3>1. cur = Len(conns)
            BY <2>1 DEF LinkInv, ClientOk
        <3>2. srv # cur /\ View(cur)' = "hdr"
            BY <1>1, <1>2, <3>1 DEF View
        <3> QED
            BY <1>1, <2>1, <3>2, Elsewhere
    <2> QED
        BY <1>1, <2>1 DEF CurOk
<1> QED
    BY <1>1, <1>4, <1>5, <1>6, <1>7 DEF LinkInv

LEMMA HungUp ==
    ASSUME NEW r \in Conn
    PROVE  LET c == [r EXCEPT !.sup = FALSE, !.c2s = <<>>]
           IN  c \in Conn /\ ~c.sup /\ c.c2s = <<>> /\ c.s2c = r.s2c /\ c.cup = r.cup
<1>1. <<>> \in Seq(Items)
    OBVIOUS
<1> QED
    BY <1>1 DEF Conn

LEMMA HungUpIn ==
    ASSUME NEW cs \in Seq(Conn), NEW i \in DOMAIN cs
    PROVE  [cs EXCEPT ![i].sup = FALSE, ![i].c2s = <<>>]
             = [cs EXCEPT ![i] = [cs[i] EXCEPT !.sup = FALSE, !.c2s = <<>>]]
OBVIOUS

LEMMA SameQueue ==
    ASSUME NEW c \in Conn
    PROVE  [c EXCEPT !.s2c = c.s2c] = c
BY DEF Conn

\* The server hangs up: only where the client has no reason to see what it
\* waits for.
LEMMA HangupStep ==
    ASSUME LinkInv, spc # "accept", spc' = "accept", conns' = Hangup(conns),
           UNCHANGED <<call, result, pc, tries, cur, srv, got, log>>,
           conns[srv].cup => LeftOk
    PROVE  LinkInv'
<1>1. PICK c : c = [conns[srv] EXCEPT !.sup = FALSE, !.c2s = <<>>]
    OBVIOUS
<1>2. /\ c \in Conn /\ ~c.sup /\ c.c2s = <<>>
      /\ c.s2c = conns[srv].s2c /\ c.cup = conns[srv].cup
    BY <1>1, Theirs, HungUp
<1>3. conns' = [conns EXCEPT ![srv] = c]
    BY <1>1, Theirs, HungUpIn DEF Hangup
<1>4. conns'[srv] = c
    BY <1>2, <1>3, Theirs, Becomes
<1>5. Sound(srv, c)'
    <2>1. Left(srv)' /\ View(srv)' = "accept"
        BY DEF Left, View
    <2>2. Readable("accept", <<>>)'
        BY DEF Readable
    <2>3. ~(srv > srv)
        BY Theirs
    <2> QED
        BY <1>2, <2>1, <2>2, <2>3, Theirs DEF Sound
<1>6. OrderOk'
    <2>1. \A i \in Nat : Pending(i)' \subseteq Pending(i)
        <3>1. \A j : Pending(j)' = IF j = srv THEN Waiting(c.c2s) ELSE Pending(j)
            BY <1>2, <1>3, Theirs, PendingOf
        <3>2. Waiting(c.c2s) = {}
            BY <1>2, WaitingOf
        <3> QED
            BY <3>1, <3>2
    <2>2. ~Busy'
        BY DEF Busy
    <2> QED
        BY <2>1, <2>2, OrderShrinks DEF LinkInv
<1>7. ServerOk'
    BY Theirs DEF ServerOk
<1>8. srv = cur /\ c.cup => CurOk'
    BY <1>2, <1>4 DEF CurOk, LeftOk
<1>9. ServerMoves
    BY TypeFacts DEF ServerMoves
<1> QED
    BY <1>2, <1>3, <1>5, <1>6, <1>7, <1>8, <1>9, ServeStep

LEMMA ServerTail ==
    ASSUME LinkInv, spc # "accept", NEW q \in Seq(Items), Tail(conns[srv].c2s) = q
    PROVE  ServerConsume = [conns EXCEPT ![srv] = [conns[srv] EXCEPT !.c2s = q]]
<1>1. ServerConsume = [conns EXCEPT ![srv].c2s = q]
    BY Theirs DEF ServerConsume
<1> QED
    BY <1>1, Theirs, Replaced

\* The server takes what it waits for.
LEMMA ServerTook ==
    ASSUME LinkInv, spc # "accept", NEW q \in Seq(Items), conns[srv].c2s # <<>>,
           NEW x \in Items, (conns[srv].c2s = <<x>> /\ q = <<>>)
                         \/ \E y \in Items : conns[srv].c2s = <<x, y>> /\ q = <<y>>
    PROVE  /\ ServerConsume = [conns EXCEPT ![srv] = [conns[srv] EXCEPT !.c2s = q]]
           /\ Head(conns[srv].c2s) = x
<1>1. CASE conns[srv].c2s = <<x>> /\ q = <<>>
    <2>1. Head(<<x>>) = x /\ Tail(<<x>>) = <<>>
        BY ShortQueues
    <2> QED
        BY <1>1, <2>1, ServerTail
<1>2. ASSUME NEW y \in Items, conns[srv].c2s = <<x, y>>, q = <<y>>
      PROVE  Head(conns[srv].c2s) = x /\ ServerConsume = [conns EXCEPT ![srv] = [conns[srv] EXCEPT !.c2s = q]]
    <2>1. Head(<<x, y>>) = x /\ Tail(<<x, y>>) = <<y>>
        BY ShortQueues
    <2> QED
        BY <1>2, <2>1, ServerTail
<1> QED
    BY <1>1, <1>2

\* What it sends.
LEMMA ServerSent ==
    ASSUME NEW cs \in Seq(Conn), srv \in DOMAIN cs, NEW x \in Items
    PROVE  \E q \in Seq(Items) :
              /\ ToClient(cs, x) = [cs EXCEPT ![srv] = [cs[srv] EXCEPT !.s2c = q]]
              /\ q = IF cs[srv].cup THEN Append(cs[srv].s2c, x) ELSE cs[srv].s2c
<1>0. cs[srv] \in Conn
    OBVIOUS
<1>1. cs[srv] \in Conn /\ cs[srv].s2c \in Seq(Items)
    BY <1>0 DEF Conn
<1>2. PICK q : q = IF cs[srv].cup THEN Append(cs[srv].s2c, x) ELSE cs[srv].s2c
    OBVIOUS
<1>3. q \in Seq(Items)
    BY <1>1, <1>2
<1>4. CASE cs[srv].cup
    <2>1. ToClient(cs, x) = [cs EXCEPT ![srv].s2c = q]
        BY <1>2, <1>4 DEF ToClient
    <2>2. [cs EXCEPT ![srv].s2c = q] = [cs EXCEPT ![srv] = [cs[srv] EXCEPT !.s2c = q]]
        BY <1>3
    <2> QED
        BY <1>2, <1>3, <2>1, <2>2
<1>5. CASE ~cs[srv].cup
    <2>1. ToClient(cs, x) = cs
        BY <1>5 DEF ToClient
    <2>2. [cs[srv] EXCEPT !.s2c = q] = cs[srv]
        BY <1>1, <1>2, <1>5, SameQueue
    <2>3. cs = [cs EXCEPT ![srv] = cs[srv]]
        OBVIOUS
    <2> QED
        BY <1>2, <1>3, <2>1, <2>2, <2>3
<1> QED
    BY <1>4, <1>5

LEMMA SetTwice ==
    ASSUME NEW cs \in Seq(Conn), NEW i \in DOMAIN cs, NEW a, NEW b
    PROVE  [[cs EXCEPT ![i] = a] EXCEPT ![i] = b] = [cs EXCEPT ![i] = b]
OBVIOUS

LEMMA ServerAnswers ==
    ASSUME LinkInv, spc # "accept", NEW y \in Items
    PROVE  \E c \in Conn :
              /\ ToClient(conns, y) = [conns EXCEPT ![srv] = c]
              /\ c.s2c = IF conns[srv].cup THEN Append(conns[srv].s2c, y) ELSE conns[srv].s2c
              /\ c.c2s = conns[srv].c2s /\ c.cup = conns[srv].cup /\ c.sup = conns[srv].sup
<1>1. conns \in Seq(Conn) /\ srv \in DOMAIN conns /\ conns[srv] \in Conn
    BY Theirs
<1>2. PICK q \in Seq(Items) :
         /\ ToClient(conns, y) = [conns EXCEPT ![srv] = [conns[srv] EXCEPT !.s2c = q]]
         /\ q = IF conns[srv].cup THEN Append(conns[srv].s2c, y) ELSE conns[srv].s2c
    BY <1>1, ServerSent
<1>3. PICK c : c = [conns[srv] EXCEPT !.s2c = q]
    OBVIOUS
<1>4. /\ c \in Conn /\ c.s2c = q /\ c.c2s = conns[srv].c2s
      /\ c.cup = conns[srv].cup /\ c.sup = conns[srv].sup
    BY <1>1, <1>3, Queues
<1> QED
    BY <1>2, <1>3, <1>4

LEMMA ServerTakesAndAnswers ==
    ASSUME LinkInv, spc # "accept", NEW x \in Items, conns[srv].c2s = <<x>>, NEW y \in Items
    PROVE  /\ Head(conns[srv].c2s) = x
           /\ \E c \in Conn :
                 /\ ToClient(ServerConsume, y) = [conns EXCEPT ![srv] = c]
                 /\ c.s2c = IF conns[srv].cup THEN Append(conns[srv].s2c, y)
                            ELSE conns[srv].s2c
                 /\ c.c2s = <<>> /\ c.cup = conns[srv].cup /\ c.sup = conns[srv].sup
<1>1. conns \in Seq(Conn) /\ srv \in DOMAIN conns /\ conns[srv] \in Conn
    BY Theirs
<1>2. <<>> \in Seq(Items) /\ conns[srv].c2s # <<>>
    BY ShortQueues
<1>3. PICK b : b = [conns[srv] EXCEPT !.c2s = <<>>]
    OBVIOUS
<1>4. /\ ServerConsume = [conns EXCEPT ![srv] = b] /\ Head(conns[srv].c2s) = x
    BY <1>2, <1>3, ServerTook
<1>5. /\ b \in Conn /\ b.c2s = <<>> /\ b.s2c = conns[srv].s2c
      /\ b.cup = conns[srv].cup /\ b.sup = conns[srv].sup
    BY <1>1, <1>2, <1>3, Queues
<1>6. /\ ServerConsume \in Seq(Conn) /\ srv \in DOMAIN ServerConsume
      /\ ServerConsume[srv] = b
    BY <1>1, <1>4, <1>5, SetConn
<1>7. PICK q \in Seq(Items) :
         /\ ToClient(ServerConsume, y) = [ServerConsume EXCEPT ![srv] = [b EXCEPT !.s2c = q]]
         /\ q = IF b.cup THEN Append(b.s2c, y) ELSE b.s2c
    BY <1>6, ServerSent
<1>8. PICK c : c = [b EXCEPT !.s2c = q]
    OBVIOUS
<1>9. c \in Conn /\ c.s2c = q /\ c.c2s = b.c2s /\ c.cup = b.cup /\ c.sup = b.sup
    BY <1>5, <1>7, <1>8, Queues
<1>10. ToClient(ServerConsume, y) = [conns EXCEPT ![srv] = c]
    BY <1>1, <1>4, <1>7, <1>8, SetTwice
<1> QED
    BY <1>4, <1>5, <1>7, <1>9, <1>10

LEMMA ServerHdrStep ==
    ASSUME LinkInv, ServerHdr
    PROVE  LinkInv'
<1>1. /\ spc = "hdr" /\ conns[srv].c2s # <<>> /\ got' = Head(conns[srv].c2s)
      /\ UNCHANGED <<call, result, pc, tries, cur, srv, log>>
    BY DEF ServerHdr, ServerReceives, client
<1>2. PICK x \in Headers : conns[srv].c2s = <<x>>
    BY <1>1, Theirs DEF Readable
<1>3. x \in Items /\ x.t = "hdr" /\ End \in Items
    BY ItemTypes DEF Headers
<1>4. Head(conns[srv].c2s) = x
    BY <1>1, <1>2, <1>3, ServerTakesAndAnswers
<1>5. PICK acked \in Conn :
         /\ ToClient(ServerConsume, End) = [conns EXCEPT ![srv] = acked]
         /\ acked.s2c = IF conns[srv].cup THEN Append(conns[srv].s2c, End)
                        ELSE conns[srv].s2c
         /\ acked.c2s = <<>> /\ acked.cup = conns[srv].cup /\ acked.sup = conns[srv].sup
    BY <1>1, <1>2, <1>3, ServerTakesAndAnswers
<1>6. got' = x
    BY <1>1, <1>4
<1>7. conns[srv].cup =>
         /\ srv = cur /\ pc = "ack" /\ x = Hdr(call)
         /\ acked.s2c = <<End>> /\ x.kind = call.kind
    <2> SUFFICES ASSUME conns[srv].cup
                 PROVE  /\ srv = cur /\ pc = "ack" /\ x = Hdr(call)
                        /\ acked.s2c = <<End>> /\ x.kind = call.kind
        OBVIOUS
    <2>1. srv = cur /\ TalkOk /\ View(cur) = "hdr"
        BY <1>1, Theirs DEF View
    <2>2. conns[cur].c2s # <<>> /\ conns[cur].c2s = <<x>>
        BY <1>1, <1>2, <2>1
    <2>3. pc = "ack" /\ conns[cur].s2c = <<>> /\ Called("hdr", conns[cur].c2s)
        BY <1>1, <2>1, <2>2 DEF TalkOk, Quiet, Acked, Working, Served, Replying, LinkInv, Types
    <2>4. <<x>> = <<Hdr(call)>>
        BY <2>2, <2>3 DEF Called
    <2>5. x = Hdr(call)
        BY <2>4, ShortQueues
    <2>6. acked.s2c = <<End>>
        BY <1>5, <2>1, <2>3, ShortQueues
    <2> QED
        BY <2>1, <2>3, <2>5, <2>6 DEF Hdr
<1>8. conns[srv].sup /\ ~Left(srv) /\ (~conns[srv].cup => acked.s2c = <<>>)
    <2>1. Sound(srv, conns[srv]) /\ srv \in Nat
        BY <1>1, Theirs
    <2> QED
        BY <1>1, <1>5, <2>1 DEF Sound, Left
<1>9. \A c : c.c2s = <<>> /\ conns' = [conns EXCEPT ![srv] = c] /\ c \in Conn => OrderOk'
    <2> SUFFICES ASSUME NEW c \in Conn, c.c2s = <<>>, conns' = [conns EXCEPT ![srv] = c]
                 PROVE  OrderOk'
        OBVIOUS
    <2>1. \A j : Pending(j)' = IF j = srv THEN Waiting(c.c2s) ELSE Pending(j)
        BY <1>1, Theirs, PendingOf
    <2>2. Waiting(c.c2s) = {}
        BY WaitingOf
    <2>3. Pending(srv)' = {}
        BY <1>1, <2>1, <2>2
    <2>4. got' \in Pending(srv)
        <3>1. Pending(srv) = Waiting(<<x>>)
            BY <1>1, <1>2, Theirs DEF Pending
        <3> QED
            BY <1>3, <1>6, <3>1, WaitingOf
    <2> QED
        BY <1>1, <2>1, <2>3, <2>4, OrderReceives
<1>10. CASE x.kind = "exit"
    <2>1. spc' = "accept" /\ conns' = Hangup(ToClient(ServerConsume, End))
        BY <1>6, <1>10 DEF ServerHdr
    <2>2. PICK cs : cs = [conns EXCEPT ![srv] = acked]
        OBVIOUS
    <2>3. cs \in Seq(Conn) /\ srv \in DOMAIN cs /\ cs[srv] = acked
        BY <1>1, <2>2, Theirs, SetConn
    <2>4. PICK c : c = [acked EXCEPT !.sup = FALSE, !.c2s = <<>>]
        OBVIOUS
    <2>5. c \in Conn /\ ~c.sup /\ c.c2s = <<>> /\ c.s2c = acked.s2c /\ c.cup = acked.cup
        BY <2>4, HungUp
    <2>6. conns' = [cs EXCEPT ![srv] = c]
        BY <1>5, <2>1, <2>2, <2>3, <2>4, HungUpIn DEF Hangup
    <2>7. conns' = [conns EXCEPT ![srv] = c]
        BY <1>1, <2>2, <2>6, Theirs, SetTwice
    <2>8. Sound(srv, c)'
        <3>1. Left(srv)' /\ View(srv)' = "accept"
            BY <2>1 DEF Left, View
        <3>2. Readable("accept", <<>>)'
            BY DEF Readable
        <3>3. ~(srv > srv) /\ (srv # cur => ~conns[srv].cup)
            BY <1>1, Theirs
        <3> QED
            BY <1>1, <1>5, <1>8, <2>5, <3>1, <3>2, <3>3 DEF Sound
    <2>9. OrderOk'
        BY <1>9, <2>5, <2>7
    <2>10. ServerOk'
        BY <1>1, <2>1, Theirs DEF ServerOk
    <2>11. srv = cur /\ c.cup => CurOk'
        <3> SUFFICES ASSUME srv = cur, c.cup PROVE CurOk'
            OBVIOUS
        <3>1. conns'[cur] = c
            BY <1>1, <2>5, <2>7, Theirs, Becomes
        <3>2. pc = "ack" /\ call.kind = "exit" /\ c.s2c = <<End>>
            BY <1>5, <1>7, <1>10, <2>5
        <3> QED
            BY <1>1, <2>5, <3>1, <3>2 DEF CurOk, LeftOk, HasData
    <2>12. ServerMoves
        BY <1>1, <1>3, <1>6, <2>1 DEF ServerMoves
    <2> QED
        BY <2>5, <2>7, <2>8, <2>9, <2>10, <2>11, <2>12, ServeStep
<1>11. CASE x.kind # "exit"
    <2>1. /\ conns' = [conns EXCEPT ![srv] = acked]
          /\ spc' = IF x.kind = "echo" THEN "hdr"
                    ELSE IF HasData(x.kind) THEN "data" ELSE "process"
        BY <1>5, <1>6, <1>11 DEF ServerHdr
    <2>2. Sound(srv, acked)'
        <3>1. ~Left(srv)'
            BY <1>1, <2>1, Theirs DEF Left
        <3>2. Readable(View(srv), <<>>)'
            BY DEF Readable
        <3>3. ~(srv > srv) /\ (srv # cur => ~conns[srv].cup)
            BY <1>1, Theirs
        <3> QED
            BY <1>1, <1>5, <1>8, <3>1, <3>2, <3>3 DEF Sound
    <2>3. OrderOk'
        BY <1>5, <1>9, <2>1
    <2>4. /\ spc' = "data" => HasData(x.kind)
          /\ spc' = "process" => x.kind \notin {"echo", "exit"} /\ ~HasData(x.kind)
          /\ spc' \in {"hdr", "data", "process"}
          /\ HasData(x.kind) => spc' = "data"
        BY <1>11, <2>1 DEF HasData
    <2>5. ServerOk'
        BY <1>1, <1>6, <2>4, Theirs DEF ServerOk
    <2>6. srv = cur /\ acked.cup => CurOk'
        <3> SUFFICES ASSUME srv = cur, acked.cup PROVE CurOk'
            OBVIOUS
        <3>1. conns'[cur] = acked
            BY <1>1, <1>5, <2>1, Theirs, Becomes
        <3>2. pc = "ack" /\ x = Hdr(call) /\ acked.s2c = <<End>> /\ x.kind = call.kind
            BY <1>5, <1>7
        <3>3. ~HasData(x.kind) => x.kind \notin WithAnswer
            BY DEF HasData, WithAnswer
        <3>4. Acked'
            BY <1>1, <1>5, <1>6, <2>4, <3>1, <3>2, <3>3 DEF Acked, Hdr
        <3> QED
            BY <1>1, <1>5, <1>8, <3>1, <3>2, <3>4 DEF CurOk, TalkOk
    <2>7. ServerMoves
        BY <1>1, <1>3, <1>6, <2>4 DEF ServerMoves
    <2> QED
        BY <2>1, <2>2, <2>3, <2>5, <2>6, <2>7, ServeStep
<1> QED
    BY <1>10, <1>11

LEMMA ServerDataStep ==
    ASSUME LinkInv, ServerData
    PROVE  LinkInv'
<1>1. /\ spc = "data" /\ conns[srv].c2s # <<>> /\ conns' = ServerConsume /\ spc' = "process"
      /\ UNCHANGED <<call, result, pc, tries, cur, srv, got, log>>
    BY DEF ServerData, ServerReceives, client
<1>2. Data(got) \in Items /\ Data(got).t = "data" /\ got \in Items
    <2>1. Busy
        BY <1>1 DEF Busy
    <2>2. got.kind \in Kinds /\ got.id \in 1 .. call.id
        BY <2>1 DEF LinkInv, OrderOk, Made
    <2>3. call.id \in 0 .. MaxCalls /\ MaxCalls \in Nat /\ Kinds \subseteq AllKinds
        BY TypeFacts, LinkAssumption
    <2>4. got.id \in 0 .. MaxCalls
        BY <2>2, <2>3
    <2> QED
        BY <2>2, <2>3, <2>4, TypeFacts DEF Items, Data
<1>3. HasData(got.kind)
    BY <1>1 DEF LinkInv, ServerOk
<1>4. PICK q \in Seq(Items) :
         \/ q = <<>> /\ conns[srv].c2s = <<Data(got)>>
         \/ /\ got.kind \notin WithAnswer
            /\ \E x \in Headers : q = <<x>> /\ conns[srv].c2s = <<Data(got), x>>
    <2>1. CASE conns[srv].c2s = <<Data(got)>>
        <3>1. <<>> \in Seq(Items)
            OBVIOUS
        <3> QED
            BY <2>1, <3>1
    <2>2. CASE /\ got.kind \notin WithAnswer
               /\ \E x \in Headers : conns[srv].c2s = <<Data(got), x>>
        <3>1. PICK x \in Headers : conns[srv].c2s = <<Data(got), x>>
            BY <2>2
        <3>2. <<x>> \in Seq(Items)
            BY QueueTypes DEF Headers
        <3> QED
            BY <2>2, <3>1, <3>2
    <2> QED
        BY <1>1, <2>1, <2>2, Theirs DEF Readable
<1>5. conns' = [conns EXCEPT ![srv] = [conns[srv] EXCEPT !.c2s = q]]
    <2>1. \/ conns[srv].c2s = <<Data(got)>> /\ q = <<>>
          \/ \E y \in Items : conns[srv].c2s = <<Data(got), y>> /\ q = <<y>>
        BY <1>4 DEF Headers
    <2> QED
        BY <1>1, <1>2, <2>1, ServerTook
<1>6. PICK c : c = [conns[srv] EXCEPT !.c2s = q]
    OBVIOUS
<1>7. /\ c \in Conn /\ c.c2s = q /\ c.s2c = conns[srv].s2c
      /\ c.cup = conns[srv].cup /\ c.sup = conns[srv].sup
    BY <1>1, <1>6, Theirs, Queues
<1>8. conns' = [conns EXCEPT ![srv] = c] /\ conns'[srv] = c
    BY <1>1, <1>5, <1>6, <1>7, Theirs, Becomes
<1>9. Readable("process", q)
    BY <1>4 DEF Readable
<1>10. Sound(srv, c)'
    <2>1. Sound(srv, conns[srv]) /\ srv \in Nat /\ conns[srv].sup
        BY <1>1, Theirs
    <2>2. ~Left(srv)'
        BY <1>1, <2>1 DEF Left
    <2>3. Readable("process", q)'
        BY <1>1, <1>9 DEF Readable
    <2>4. View(srv)' = "process" /\ ~(srv > srv)
        BY <1>1, <2>1 DEF View
    <2> QED
        BY <1>1, <1>7, <2>1, <2>2, <2>3, <2>4 DEF Sound
<1>11. OrderOk'
    <2>1. Waiting(q) \subseteq Waiting(conns[srv].c2s)
        <3>1. CASE q = <<>>
            BY <3>1, WaitingOf
        <3>2. ASSUME NEW x \in Headers, q = <<x>>, conns[srv].c2s = <<Data(got), x>>
              PROVE  Waiting(q) \subseteq Waiting(conns[srv].c2s)
            <4>1. Waiting(<<Data(got), x>>) = Waiting(<<Data(got)>>) \cup Waiting(<<x>>)
                BY WaitingOf
            <4> QED
                BY <3>2, <4>1
        <3> QED
            BY <1>4, <3>1, <3>2
    <2>2. \A j : Pending(j)' = IF j = srv THEN Waiting(c.c2s) ELSE Pending(j)
        BY <1>1, <1>7, <1>8, Theirs, PendingOf
    <2>3. \A j \in Nat : Pending(j)' \subseteq Pending(j)
        <3>1. Pending(srv) = Waiting(conns[srv].c2s)
            BY <1>1, Theirs DEF Pending
        <3> QED
            BY <1>7, <2>1, <2>2, <3>1
    <2>4. Busy' => Busy
        BY <1>1 DEF Busy
    <2> QED
        BY <1>1, <2>3, <2>4, OrderShrinks DEF LinkInv
<1>12. ServerOk'
    BY <1>1, <1>3, Theirs DEF ServerOk, HasData
<1>13. srv = cur /\ c.cup => CurOk'
    <2> SUFFICES ASSUME srv = cur, c.cup PROVE CurOk'
        OBVIOUS
    <2>1. TalkOk /\ conns[srv].sup /\ View(cur) = "data"
        BY <1>1, <1>7, Theirs DEF View
    <2>2. CASE pc = "ack"
        <3>1. conns[cur].s2c = <<>> /\ Called("data", conns[cur].c2s)
            BY <1>1, <2>1, <2>2 DEF TalkOk, Acked
        <3>2. /\ got.kind \notin WithAnswer /\ conns[cur].c2s = <<Data(got), Hdr(call)>>
            BY <3>1 DEF Called
        <3>3. q = <<Hdr(call)>>
            <4>1. conns[srv].c2s = <<Data(got), Hdr(call)>>
                BY <3>2
            <4>2. Head(<<Data(got), Hdr(call)>>) = Data(got)
                BY ShortQueues
            <4>3. /\ Tail(<<Data(got), Hdr(call)>>) = <<Hdr(call)>>
                  /\ Tail(<<Data(got)>>) = <<>>
                  /\ \A x : Tail(<<Data(got), x>>) = <<x>>
                BY ShortQueues
            <4> QED
                BY <1>4, <4>1, <4>3
        <3>4. Called("process", q)'
            BY <1>1, <3>2, <3>3 DEF Called
        <3> QED
            BY <1>1, <1>7, <1>8, <2>1, <2>2, <3>1, <3>4 DEF CurOk, TalkOk, View
    <2>3. CASE pc # "ack"
        <3>1. /\ pc \in {"idle", "hdr", "done", "failed", "check", "reply"}
              /\ conns[cur].s2c = <<>>
              /\ pc \in {"idle", "hdr", "done", "failed"} =>
                    got.kind \notin WithAnswer /\ conns[cur].c2s = <<Data(got)>>
              /\ pc \in {"check", "reply"} =>
                    got = Hdr(call) /\ conns[cur].c2s = <<Data(call)>>
            BY <1>1, <2>1, <2>3
               DEF TalkOk, Quiet, Working, Served, Replying, LinkInv, Types
        <3>2. q = <<>>
            <4>1. \E z : conns[srv].c2s = <<z>>
                BY <3>1
            <4>2. \A y, z, w : <<y, z>> # <<w>>
                <5> TAKE y, z, w
                <5>1. Tail(<<y, z>>) = <<z>> /\ Tail(<<w>>) = <<>> /\ <<z>> # <<>>
                    BY ShortQueues
                <5> QED
                    BY <5>1
            <4> QED
                BY <1>4, <4>1, <4>2
        <3>3. CASE pc \in {"idle", "hdr", "done", "failed"}
            <4>1. Quiet("process", q)'
                BY <1>1, <3>1, <3>2, <3>3 DEF Quiet
            <4> QED
                BY <1>1, <1>7, <1>8, <2>1, <3>1, <3>3, <4>1 DEF CurOk, TalkOk, View
        <3>4. CASE pc \in {"check", "reply"}
            <4>1. Working'
                BY <1>1, <1>7, <1>8, <3>1, <3>2, <3>4 DEF Working
            <4> QED
                BY <1>1, <1>7, <1>8, <2>1, <3>4, <4>1 DEF CurOk, TalkOk
        <3> QED
            BY <3>1, <3>3, <3>4
    <2> QED
        BY <2>2, <2>3
<1>14. ServerMoves
    BY <1>1, <1>2 DEF ServerMoves
<1> QED
    BY <1>7, <1>8, <1>10, <1>11, <1>12, <1>13, <1>14, ServeStep

\* Headers of one message are the same.
LEMMA SameItems ==
    ASSUME got = Hdr(call)
    PROVE  Hdr(got) = Hdr(call) /\ Data(got) = Data(call) /\ got.id = call.id
           /\ got.kind = call.kind
BY DEF Hdr, Data

\* Where the talk can be while the server processes.
LEMMA AtProcess ==
    ASSUME LinkInv, spc = "process", srv = cur, TalkOk
    PROVE  /\ pc \in {"idle", "hdr", "done", "failed"} =>
                 /\ got.kind \notin WithAnswer
                 /\ conns[cur].s2c = <<>> /\ conns[cur].c2s = <<>>
           /\ pc = "ack" => got.kind \notin WithAnswer /\
                 \/ conns[cur].s2c = <<>> /\ conns[cur].c2s = <<Hdr(call)>>
                 \/ /\ ~HasData(call.kind)
                    /\ conns[cur].s2c = <<End>> /\ conns[cur].c2s = <<>>
           /\ pc \in {"check", "reply"} =>
                 /\ got = Hdr(call) /\ got.id = call.id /\ got.kind = call.kind
                 /\ conns[cur].s2c = <<>> /\ conns[cur].c2s = <<>>
           /\ pc = "check" => call.kind = "checked file"
           /\ pc = "reply" => call.kind = "request"
           /\ pc \in {"idle", "hdr", "done", "failed", "ack", "check", "reply"}
<1>1. View(cur) = "process"
    BY DEF View
<1>2. ASSUME pc \in {"idle", "hdr", "done", "failed"}
      PROVE  /\ got.kind \notin WithAnswer
             /\ conns[cur].s2c = <<>> /\ conns[cur].c2s = <<>>
    BY <1>1, <1>2 DEF TalkOk, Quiet
<1>3. ASSUME pc = "ack"
      PROVE  got.kind \notin WithAnswer /\
                 \/ conns[cur].s2c = <<>> /\ conns[cur].c2s = <<Hdr(call)>>
                 \/ /\ ~HasData(call.kind)
                    /\ conns[cur].s2c = <<End>> /\ conns[cur].c2s = <<>>
    <2>1. CASE conns[cur].s2c = <<>> /\ Called(View(cur), conns[cur].c2s)
        BY <1>1, <2>1 DEF Called
    <2>2. CASE Acked
        BY <2>2 DEF Acked
    <2> QED
        BY <1>3, <2>1, <2>2 DEF TalkOk
<1>4. ASSUME pc \in {"check", "reply"}
      PROVE  /\ got = Hdr(call) /\ got.id = call.id /\ got.kind = call.kind
             /\ conns[cur].s2c = <<>> /\ conns[cur].c2s = <<>>
    <2>1. Working
        BY <1>4 DEF TalkOk, Served, Replying
    <2>2. got = Hdr(call) /\ conns[cur].s2c = <<>> /\ conns[cur].c2s = <<>>
        BY <2>1 DEF Working
    <2> QED
        BY <2>2, SameItems
<1>5. pc \notin {"data", "reply data"}
    BY DEF TalkOk, Replying, Served
<1>6. pc \in {"idle", "hdr", "done", "failed", "ack", "check", "reply"}
    BY <1>5 DEF LinkInv, Types
<1>7. (pc = "check" => call.kind = "checked file") /\ (pc = "reply" => call.kind = "request")
    BY DEF LinkInv, ClientOk
<1> QED
    BY <1>2, <1>3, <1>4, <1>6, <1>7

LEMMA ProcessStep ==
    ASSUME LinkInv, Process
    PROVE  LinkInv'
<1>1. /\ spc = "process" /\ got.kind # "request"
      /\ UNCHANGED <<call, result, pc, tries, cur, srv, got>>
    BY DEF Process, client
<1>2. View(srv) = "process"
    BY <1>1 DEF View
<1>3. CASE spc' = "accept" /\ conns' = Hangup(conns) /\ log' = log
    <2>1. conns[srv].cup => LeftOk
        <3> SUFFICES ASSUME conns[srv].cup PROVE LeftOk
            OBVIOUS
        <3>1. srv = cur /\ TalkOk
            BY <1>1, Theirs
        <3> QED
            BY <1>1, <3>1, AtProcess DEF LeftOk
    <2> QED
        BY <1>1, <1>3, <2>1, HangupStep
<1>4. CASE /\ log' = Append(log, got.id) /\ spc' = "hdr"
           /\ conns' = IF Checked(got.kind) THEN ToClient(conns, End) ELSE conns
    <2>1. PICK c \in Conn :
             /\ conns' = [conns EXCEPT ![srv] = c]
             /\ c.s2c = IF Checked(got.kind) /\ conns[srv].cup
                        THEN Append(conns[srv].s2c, End) ELSE conns[srv].s2c
             /\ c.c2s = conns[srv].c2s /\ c.cup = conns[srv].cup /\ c.sup = conns[srv].sup
        <3>1. CASE Checked(got.kind)
            BY <1>1, <1>4, <3>1, ItemTypes, ServerAnswers
        <3>2. CASE ~Checked(got.kind)
            <4>1. conns = [conns EXCEPT ![srv] = conns[srv]] /\ conns[srv] \in Conn
                BY <1>1, Theirs
            <4> QED
                BY <1>4, <3>2, <4>1
        <3> QED
            BY <3>1, <3>2
    <2>2. conns'[srv] = c
        BY <1>1, <2>1, Theirs, Becomes
    <2>3. Sound(srv, c)'
        <3>1. Sound(srv, conns[srv]) /\ srv \in Nat /\ Readable("process", conns[srv].c2s)
            BY <1>1, Theirs
        <3>2. ~Left(srv)' /\ ~Left(srv) /\ View(srv)' = "hdr" /\ ~(srv > srv)
            BY <1>1, <1>4, <3>1 DEF Left, View
        <3>3. Readable("hdr", c.c2s)'
            BY <2>1, <3>1 DEF Readable
        <3> QED
            BY <1>1, <2>1, <3>1, <3>2, <3>3 DEF Sound
    <2>4. OrderOk' /\ got.id \in 1 .. MaxCalls
        <3>1. \A j : Pending(j)' = IF j = srv THEN Waiting(c.c2s) ELSE Pending(j)
            BY <1>1, <2>1, Theirs, PendingOf
        <3>2. Pending(srv) = Waiting(conns[srv].c2s)
            BY <1>1, Theirs DEF Pending
        <3>3. \A j \in Nat : Pending(j)' \subseteq Pending(j)
            BY <2>1, <3>1, <3>2
        <3>4. Busy
            BY <1>1 DEF Busy
        <3> QED
            BY <1>1, <1>4, <3>3, <3>4, OrderLogs
    <2>5. ServerOk'
        BY <1>1, <1>4, Theirs DEF ServerOk
    <2>6. srv = cur /\ c.cup => CurOk'
        <3> SUFFICES ASSUME srv = cur, c.cup PROVE CurOk'
            OBVIOUS
        <3>1. TalkOk /\ conns[srv].sup /\ View(cur) = "process"
            BY <1>1, <1>2, <2>1, Theirs
        <3>2. CASE pc \in {"idle", "hdr", "done", "failed"}
            <4>1. /\ conns[cur].s2c = <<>> /\ got.kind \notin WithAnswer
                  /\ conns[cur].c2s = <<>>
                BY <1>1, <3>1, <3>2, AtProcess
            <4>2. c.s2c = <<>> /\ c.c2s = <<>>
                BY <2>1, <4>1 DEF Checked, WithAnswer
            <4>3. Quiet("hdr", <<>>)'
                BY DEF Quiet
            <4> QED
                BY <1>1, <1>4, <2>1, <2>2, <3>1, <3>2, <4>2, <4>3 DEF CurOk, TalkOk, View
        <3>3. CASE /\ pc = "ack" /\ got.kind \notin WithAnswer
                   /\ conns[cur].s2c = <<>> /\ conns[cur].c2s = <<Hdr(call)>>
            <4>1. c.s2c = <<>> /\ c.c2s = <<Hdr(call)>>
                BY <2>1, <3>3 DEF Checked, WithAnswer
            <4>2. Called("hdr", c.c2s)'
                BY <1>1, <4>1 DEF Called
            <4> QED
                BY <1>1, <1>4, <2>1, <2>2, <3>1, <3>3, <4>1, <4>2 DEF CurOk, TalkOk, View
        <3>4. CASE /\ pc = "ack" /\ got.kind \notin WithAnswer /\ ~HasData(call.kind)
                   /\ conns[cur].s2c = <<End>> /\ conns[cur].c2s = <<>>
            <4>1. c.s2c = <<End>> /\ c.c2s = <<>>
                BY <2>1, <3>4 DEF Checked, WithAnswer
            <4>2. Acked'
                BY <1>1, <1>4, <2>2, <3>4, <4>1 DEF Acked
            <4> QED
                BY <1>1, <2>1, <2>2, <3>1, <3>4, <4>2 DEF CurOk, TalkOk
        <3>5. CASE pc = "check"
            <4>1. /\ got.id = call.id /\ got.kind = "checked file"
                  /\ conns[cur].s2c = <<>> /\ conns[cur].c2s = <<>>
                BY <1>1, <3>1, <3>5, AtProcess
            <4>3. Checked(got.kind)
                BY <4>1 DEF Checked
            <4>4. c.s2c = <<End>> /\ c.c2s = <<>>
                BY <2>1, <4>1, <4>3, ShortQueues
            <4>5. Contains(log', call.id)
                BY <1>4, <2>4, <4>1, Logged, TypeFacts
            <4>6. Served(<<End>>)'
                BY <1>1, <1>4, <2>2, <4>4, <4>5 DEF Served
            <4> QED
                BY <1>1, <2>1, <2>2, <3>1, <3>5, <4>6 DEF CurOk, TalkOk
        <3> QED
            BY <1>1, <3>1, <3>2, <3>3, <3>4, <3>5, AtProcess
    <2>7. ServerMoves
        BY <1>1, <1>4, <2>4, TypeFacts DEF ServerMoves
    <2> QED
        BY <2>1, <2>3, <2>4, <2>5, <2>6, <2>7, ServeStep
<1> QED
    BY <1>3, <1>4 DEF Process

LEMMA OrderServes ==
    ASSUME LinkInv, spc # "accept", UNCHANGED <<call, log, got, srv>>, Busy' => Busy,
           NEW c \in Conn, conns' = [conns EXCEPT ![srv] = c], c.c2s = conns[srv].c2s
    PROVE  OrderOk'
<1>1. \A j : Pending(j)' = IF j = srv THEN Waiting(c.c2s) ELSE Pending(j)
    BY Theirs, PendingOf
<1>2. Pending(srv) = Waiting(conns[srv].c2s)
    BY Theirs DEF Pending
<1>3. \A j \in Nat : Pending(j)' \subseteq Pending(j)
    BY <1>1, <1>2
<1> QED
    BY <1>3, OrderShrinks DEF LinkInv

LEMMA GotItems ==
    ASSUME LinkInv, Busy
    PROVE  Hdr(got) \in Items /\ Data(got) \in Items
<1>1. got.kind \in Kinds /\ got.id \in 1 .. call.id
    BY DEF LinkInv, OrderOk, Made
<1>2. call.id \in 0 .. MaxCalls /\ MaxCalls \in Nat /\ Kinds \subseteq AllKinds
    BY TypeFacts, LinkAssumption
<1>3. got.id \in 0 .. MaxCalls
    BY <1>1, <1>2
<1> QED
    BY <1>1, <1>2, <1>3 DEF Items, Data, Hdr

LEMMA ReplyHdrStep ==
    ASSUME LinkInv, ReplyHdr
    PROVE  LinkInv'
<1>1. /\ spc = "process" /\ got.kind = "request" /\ Busy
      /\ UNCHANGED <<call, result, pc, tries, cur, srv, got, log>>
    BY DEF ReplyHdr, client, Busy
<1>2. CASE spc' = "accept" /\ conns' = Hangup(conns)
    <2>1. conns[srv].cup => LeftOk
        <3> SUFFICES ASSUME conns[srv].cup PROVE LeftOk
            OBVIOUS
        <3>1. srv = cur /\ TalkOk
            BY <1>1, Theirs
        <3> QED
            BY <1>1, <3>1, AtProcess DEF LeftOk
    <2> QED
        BY <1>1, <1>2, <2>1, HangupStep
<1>3. CASE spc' = "reply" /\ conns' = ToClient(conns, Hdr(got))
    <2>1. PICK c \in Conn :
             /\ conns' = [conns EXCEPT ![srv] = c]
             /\ c.s2c = IF conns[srv].cup THEN Append(conns[srv].s2c, Hdr(got))
                        ELSE conns[srv].s2c
             /\ c.c2s = conns[srv].c2s /\ c.cup = conns[srv].cup /\ c.sup = conns[srv].sup
        BY <1>1, <1>3, GotItems, ServerAnswers
    <2>2. conns'[srv] = c
        BY <1>1, <2>1, Theirs, Becomes
    <2>3. conns[srv].c2s = <<>>
        BY <1>1, Theirs DEF Readable, WithAnswer
    <2>4. Sound(srv, c)'
        <3>1. Sound(srv, conns[srv]) /\ srv \in Nat
            BY <1>1, Theirs
        <3>2. ~Left(srv)' /\ ~Left(srv) /\ View(srv)' = "reply" /\ ~(srv > srv)
            BY <1>1, <1>3, <3>1 DEF Left, View
        <3>3. Readable("reply", <<>>)'
            BY DEF Readable
        <3> QED
            BY <1>1, <2>1, <2>3, <3>1, <3>2, <3>3 DEF Sound
    <2>5. OrderOk'
        BY <1>1, <2>1, Theirs, OrderServes DEF Busy
    <2>6. ServerOk'
        BY <1>1, <1>3, Theirs DEF ServerOk
    <2>7. srv = cur /\ c.cup => CurOk'
        <3> SUFFICES ASSUME srv = cur, c.cup PROVE CurOk'
            OBVIOUS
        <3>1. TalkOk /\ conns[srv].sup /\ View(cur) = "process"
            BY <1>1, <2>1, Theirs DEF View
        <3>2. got.kind \in WithAnswer
            BY <1>1 DEF WithAnswer
        <3>3. pc = "reply"
            BY <1>1, <3>1, <3>2, AtProcess
        <3>4. got = Hdr(call) /\ conns[cur].s2c = <<>>
            BY <1>1, <3>1, <3>3, AtProcess
        <3>5. c.s2c = <<Hdr(call)>> /\ c.c2s = <<>>
            BY <2>1, <2>3, <3>4, ShortQueues, SameItems
        <3>6. Replying(<<Hdr(call)>>, <<>>)'
            BY <1>1, <1>3, <2>2, <3>4, <3>5 DEF Replying
        <3> QED
            BY <1>1, <2>1, <2>2, <3>1, <3>3, <3>6 DEF CurOk, TalkOk
    <2>8. ServerMoves
        BY <1>1, <1>3, TypeFacts DEF ServerMoves
    <2> QED
        BY <2>1, <2>4, <2>5, <2>6, <2>7, <2>8, ServeStep
<1> QED
    BY <1>2, <1>3 DEF ReplyHdr

LEMMA ReplyDataStep ==
    ASSUME LinkInv, ReplyData
    PROVE  LinkInv'
<1>1. /\ spc = "reply" /\ conns[srv].c2s # <<>> /\ spc' = "hdr" /\ Busy
      /\ conns' = ToClient(ServerConsume, Data(got)) /\ log' = Append(log, got.id)
      /\ UNCHANGED <<call, result, pc, tries, cur, srv, got>>
    BY DEF ReplyData, ServerReceives, client, Busy
<1>2. conns[srv].c2s = <<End>>
    BY <1>1, Theirs DEF Readable
<1>3. PICK c \in Conn :
         /\ conns' = [conns EXCEPT ![srv] = c]
         /\ c.s2c = IF conns[srv].cup THEN Append(conns[srv].s2c, Data(got))
                    ELSE conns[srv].s2c
         /\ c.c2s = <<>> /\ c.cup = conns[srv].cup /\ c.sup = conns[srv].sup
    BY <1>1, <1>2, GotItems, ItemTypes, ServerTakesAndAnswers
<1>4. conns'[srv] = c
    BY <1>1, <1>3, Theirs, Becomes
<1>5. Sound(srv, c)'
    <2>1. Sound(srv, conns[srv]) /\ srv \in Nat /\ conns[srv].sup
        BY <1>1, Theirs
    <2>2. ~Left(srv)' /\ View(srv)' = "hdr" /\ ~(srv > srv)
        BY <1>1, <2>1 DEF Left, View
    <2>3. Readable("hdr", <<>>)'
        BY DEF Readable
    <2> QED
        BY <1>1, <1>3, <2>1, <2>2, <2>3 DEF Sound
<1>6. OrderOk' /\ got.id \in 1 .. MaxCalls
    <2>1. \A j : Pending(j)' = IF j = srv THEN Waiting(c.c2s) ELSE Pending(j)
        BY <1>1, <1>3, Theirs, PendingOf
    <2>2. Waiting(c.c2s) = {}
        BY <1>3, WaitingOf
    <2>3. \A j \in Nat : Pending(j)' \subseteq Pending(j)
        BY <2>1, <2>2
    <2> QED
        BY <1>1, <2>3, OrderLogs
<1>7. ServerOk'
    BY <1>1, Theirs DEF ServerOk
<1>8. srv = cur /\ c.cup => CurOk'
    <2> SUFFICES ASSUME srv = cur, c.cup PROVE CurOk'
        OBVIOUS
    <2>1. TalkOk /\ conns[srv].sup /\ View(cur) = "reply" /\ conns[cur].c2s # <<>>
        BY <1>1, <1>3, Theirs DEF View
    <2>2. pc \in {"reply", "reply data"}
        BY <1>1, <2>1
           DEF TalkOk, Quiet, Called, Acked, Working, Served, LinkInv, Types
    <2>3. pc = "reply data" /\ Replying(<<>>, <<End>>)
        BY <1>1, <2>1, <2>2 DEF TalkOk, Working, Served, Replying
    <2>4. got = Hdr(call) /\ conns[cur].s2c = <<>>
        BY <2>3 DEF Replying
    <2>5. c.s2c = <<Data(call)>> /\ got.id = call.id
        BY <1>3, <2>4, ShortQueues, SameItems
    <2>6. Contains(log', call.id)
        BY <1>1, <1>6, <2>5, Logged, TypeFacts
    <2>7. Served(<<Data(call)>>)'
        BY <1>1, <1>3, <1>4, <2>5, <2>6 DEF Served
    <2> QED
        BY <1>1, <1>3, <1>4, <2>1, <2>3, <2>7 DEF CurOk, TalkOk
<1>9. ServerMoves
    BY <1>1, <1>6, TypeFacts DEF ServerMoves
<1> QED
    BY <1>3, <1>5, <1>6, <1>7, <1>8, <1>9, ServeStep

LEMMA ReplyLostStep ==
    ASSUME LinkInv, ReplyLost
    PROVE  LinkInv'
<1>1. /\ spc = "reply" /\ conns[srv].c2s = <<>> /\ ~conns[srv].cup /\ Busy
      /\ log' = Append(log, got.id) /\ spc' = "hdr"
      /\ UNCHANGED <<call, result, pc, tries, cur, conns, srv, got>>
    BY DEF ReplyLost, client, Busy
<1>2. conns' = [conns EXCEPT ![srv] = conns[srv]] /\ conns[srv] \in Conn
    BY <1>1, Theirs
<1>3. Sound(srv, conns[srv])'
    <2>1. Sound(srv, conns[srv]) /\ srv \in Nat
        BY <1>1, Theirs
    <2>2. ~Left(srv)' /\ View(srv)' = "hdr" /\ ~(srv > srv)
        BY <1>1, <2>1 DEF Left, View
    <2>3. Readable("hdr", <<>>)'
        BY DEF Readable
    <2> QED
        BY <1>1, <2>1, <2>2, <2>3 DEF Sound
<1>4. OrderOk' /\ got.id \in 1 .. MaxCalls
    <2>1. \A j : Pending(j)' = Pending(j)
        BY <1>1 DEF Pending
    <2> QED
        BY <1>1, <2>1, OrderLogs
<1>5. ServerOk'
    BY <1>1, Theirs DEF ServerOk
<1>6. ServerMoves
    BY <1>1, <1>4, TypeFacts DEF ServerMoves
<1> QED
    BY <1>1, <1>2, <1>3, <1>4, <1>5, <1>6, ServeStep

LEMMA ServerFailsStep ==
    ASSUME LinkInv, ServerFails
    PROVE  LinkInv'
<1>1. /\ spc \in {"hdr", "data"} /\ spc # "accept"
      /\ IF conns[srv].c2s = <<>> THEN ~conns[srv].cup ELSE Head(conns[srv].c2s).t # spc
      /\ spc' = "accept" /\ conns' = Hangup(conns)
      /\ UNCHANGED <<call, result, pc, tries, cur, srv, got, log>>
    BY DEF ServerFails, client
<1>2. conns[srv].c2s # <<>> => Head(conns[srv].c2s).t = spc
    <2> SUFFICES ASSUME conns[srv].c2s # <<>> PROVE Head(conns[srv].c2s).t = spc
        OBVIOUS
    <2>1. Readable(spc, conns[srv].c2s)
        BY <1>1, Theirs
    <2>2. CASE spc = "hdr"
        <3>1. PICK x \in Headers : conns[srv].c2s = <<x>>
            BY <2>1, <2>2 DEF Readable
        <3>2. Head(<<x>>) = x /\ x.t = "hdr"
            BY ShortQueues DEF Headers
        <3> QED
            BY <2>2, <3>1, <3>2
    <2>3. CASE spc = "data"
        <3>1. \/ conns[srv].c2s = <<Data(got)>>
              \/ \E x \in Headers : conns[srv].c2s = <<Data(got), x>>
            BY <2>1, <2>3 DEF Readable
        <3>2. Head(conns[srv].c2s) = Data(got)
            BY <3>1, ShortQueues
        <3> QED
            BY <2>3, <3>2 DEF Data
    <2> QED
        BY <1>1, <2>2, <2>3
<1>3. ~conns[srv].cup
    BY <1>1, <1>2
<1> QED
    BY <1>1, <1>3, HangupStep

LEMMA BreakStep ==
    ASSUME LinkInv, Break
    PROVE  LinkInv'
<1>1. UNCHANGED <<call, result, pc, tries, cur, srv, spc, got, log>>
    BY DEF Break, client, server
<1>2. PICK i \in DOMAIN conns : conns' = [conns EXCEPT ![i] = DeadConn]
    BY DEF Break
<1>3. /\ DeadConn \in Conn /\ DeadConn.c2s = <<>> /\ DeadConn.s2c = <<>>
      /\ ~DeadConn.cup /\ ~DeadConn.sup
    BY QueueTypes DEF Conn, DeadConn
<1>4. conns \in Seq(Conn)
    BY TypeFacts
<1>5. /\ conns' \in Seq(Conn) /\ Len(conns') = Len(conns) /\ conns' # <<>>
      /\ conns'[i] = DeadConn /\ \A j \in DOMAIN conns : j # i => conns'[j] = conns[j]
    BY <1>2, <1>3, <1>4, Becomes
<1>6. Types' /\ ServerOk' /\ ClientOk'
    <2>1. Types'
        BY <1>1, <1>5 DEF LinkInv, Types
    <2>2. ServerOk'
        BY <1>1 DEF LinkInv, ServerOk
    <2>3. (pc = "idle" <=> result # "none") /\ conns' # <<>> /\ cur \in {NoConn, Len(conns')}
        BY <1>5 DEF LinkInv, ClientOk
    <2>4. ClientOk'
        BY <1>1, <2>3 DEF LinkInv, ClientOk
    <2> QED
        BY <2>1, <2>2, <2>4
<1>7. Sound(i, DeadConn)
    <2>1. Sound(i, conns[i]) /\ Readable(View(i), <<>>)
        BY DEF LinkInv, Readable
    <2> QED
        BY <1>3, <2>1 DEF Sound
<1>8. (\A j \in DOMAIN conns : Sound(j, conns[j]))'
    BY <1>1, <1>2, <1>3, <1>7, ClientFrame
<1>9. OrderOk'
    <2>1. Waiting(DeadConn.c2s) = {}
        BY <1>3, WaitingOf
    <2> QED
        BY <1>1, <1>2, <1>3, <2>1, OrderTalks
<1>10. CurOk'
    <2>1. CASE cur = NoConn \/ cur = i
        BY <1>1, <1>3, <1>5, <2>1 DEF CurOk
    <2>2. CASE cur # NoConn /\ cur # i
        <3>1. conns'[cur] = conns[cur]
            BY <1>5, <2>2, Mine
        <3>2. CurOk
            BY DEF LinkInv
        <3> QED
            BY <1>1, <3>1, <3>2
               DEF CurOk, TalkOk, LeftOk, Quiet, Called, Acked, Working, Served, Replying, View
    <2> QED
        BY <2>1, <2>2
<1> QED
    BY <1>6, <1>8, <1>9, <1>10 DEF LinkInv

LEMMA StutterStep ==
    ASSUME LinkInv, UNCHANGED vars
    PROVE  LinkInv'
<1>1. UNCHANGED <<call, result, pc, tries, cur, conns, srv, spc, got, log>>
    BY DEF vars, client, server
<1>2. Types' /\ ServerOk' /\ ClientOk'
    <2>1. Types' /\ ServerOk'
        BY <1>1, ClientTypes DEF LinkInv, Types
    <2>2. ClientOk'
        BY <1>1 DEF LinkInv, ClientOk
    <2> QED
        BY <2>1, <2>2
<1>3. (\A i \in DOMAIN conns : Sound(i, conns[i]))' /\ \A i : Pending(i)' = Pending(i)
    BY <1>1, SameConns
<1>4. OrderOk'
    <2>1. Busy' => Busy
        BY <1>1 DEF Busy
    <2> QED
        BY <1>1, <1>3, <2>1, OrderShrinks DEF LinkInv
<1>5. CurOk'
    <2>1. CurOk
        BY DEF LinkInv
    <2> QED
        BY <1>1, <2>1
           DEF CurOk, TalkOk, LeftOk, Quiet, Called, Acked, Working, Served, Replying, View
<1> QED
    BY <1>2, <1>3, <1>4, <1>5 DEF LinkInv

LEMMA LinkStep == LinkInv /\ [Next]_vars => LinkInv'
<1> SUFFICES ASSUME LinkInv, [Next]_vars PROVE LinkInv'
    OBVIOUS
<1>1. CASE \E kind \in Kinds : Begin(kind)
    BY <1>1, BeginStep
<1>2. CASE ClientStep
    BY <1>2, SendHdrStep, SendDataStep, AwaitAckStep, AwaitCheckStep, AwaitReplyStep,
       AwaitReplyDataStep, DoneStep, RetriedStep DEF ClientStep
<1>3. CASE ServerStep
    BY <1>3, AcceptStep, ServerHdrStep, ServerDataStep, ProcessStep, ReplyHdrStep,
       ReplyDataStep, ReplyLostStep, ServerFailsStep DEF ServerStep
<1>4. CASE Break
    BY <1>4, BreakStep
<1>5. CASE UNCHANGED vars
    BY <1>5, StutterStep
<1> QED
    BY <1>1, <1>2, <1>3, <1>4, <1>5 DEF Next

-----------------------------------------------------------------------------
\* The results

LEMMA InStepHolds == LinkInv => InStep
<1> SUFFICES ASSUME LinkInv PROVE InStep
    OBVIOUS
<1>1. ASSUME srv # 0, conns[srv].c2s # <<>>
      PROVE  /\ spc = "hdr" => Head(conns[srv].c2s).t = "hdr"
             /\ spc = "data" => Head(conns[srv].c2s) = Data(got)
             /\ spc = "reply" => Head(conns[srv].c2s).t = "end"
    <2>1. CASE spc = "hdr"
        <3>1. PICK x \in Headers : conns[srv].c2s = <<x>>
            BY <1>1, <2>1, Theirs DEF Readable
        <3>2. Head(<<x>>) = x /\ x.t = "hdr"
            BY ShortQueues DEF Headers
        <3> QED
            BY <2>1, <3>1, <3>2
    <2>2. CASE spc = "data"
        <3>1. \/ conns[srv].c2s = <<Data(got)>>
              \/ \E x \in Headers : conns[srv].c2s = <<Data(got), x>>
            BY <1>1, <2>2, Theirs DEF Readable
        <3> QED
            BY <2>2, <3>1, ShortQueues
    <2>3. CASE spc = "reply"
        <3>1. conns[srv].c2s = <<End>>
            BY <1>1, <2>3, Theirs DEF Readable
        <3> QED
            BY <2>3, <3>1, ShortQueues, ItemTypes
    <2> QED
        BY <2>1, <2>2, <2>3
<1>2. ASSUME cur # NoConn, conns[cur].s2c # <<>>
      PROVE  /\ pc \in {"ack", "check"} => Head(conns[cur].s2c).t = "end"
             /\ pc = "reply" => Head(conns[cur].s2c) = Hdr(call)
             /\ pc = "reply data" => Head(conns[cur].s2c) = Data(call)
             /\ pc \notin {"idle", "hdr"}
    <2>1. conns[cur].cup
        BY <1>2, Mine
    <2>2. Head(<<End>>) = End /\ End.t = "end"
        BY ShortQueues, ItemTypes
    <2>3. CASE ~conns[cur].sup
        BY <1>2, <2>1, <2>2, <2>3, Mine DEF LeftOk
    <2>4. CASE conns[cur].sup
        <3>1. TalkOk
            BY <1>2, <2>1, <2>4, Mine
        <3>2. pc \in {"ack", "check"} => conns[cur].s2c = <<End>>
            BY <1>2, <3>1 DEF TalkOk, Acked, Working, Served
        <3>3. pc = "reply" => conns[cur].s2c = <<Hdr(call)>>
            BY <1>2, <3>1 DEF TalkOk, Working, Replying
        <3>4. pc = "reply data" => conns[cur].s2c = <<Data(call)>>
            BY <1>2, <3>1 DEF TalkOk, Served, Replying
        <3>5. pc \notin {"idle", "hdr"}
            BY <1>2, <3>1 DEF TalkOk
        <3> QED
            BY <2>2, <3>2, <3>3, <3>4, <3>5, ShortQueues
    <2> QED
        BY <2>1, <2>3, <2>4, Mine
<1> QED
    BY <1>1, <1>2 DEF InStep

\* The two ends of a connection agree on what comes next, however often it
\* breaks and messages are started over: neither meets data or an
\* acknowledgement of something else.
THEOREM LinkInStep == Spec => []InStep
<1>1. LinkInv /\ [Next]_vars => LinkInv'
    BY LinkStep
<1> QED
    BY <1>1, LinkInit, InStepHolds, PTL DEF Spec

LEMMA SameLog ==
    /\ Promise!Last(log) = Last(log)
    /\ \A n : Promise!Contains(log, n) <=> Contains(log, n)
BY DEF Last, Contains, Promise!Last, Promise!Contains

\* What the client's steps are to a caller.
LEMMA ClientDelivers ==
    ASSUME LinkInv, LinkInv', ClientStep
    PROVE  \/ Promise!Confirm \/ Promise!TryAgain \/ Promise!Return \/ Promise!Throw
           \/ UNCHANGED <<call, Status, tries, log>>
<1>1. /\ (pc = "idle") <=> (result # "none")
      /\ pc # "idle" => call.kind \in Kinds
      /\ tries \in 0 .. Retry - 1
      /\ Retry \in Nat
    BY LinkAssumption DEF LinkInv, ClientOk, Types
<1>2. CASE SendHdr \/ SendData \/ AwaitAck \/ AwaitCheck \/ AwaitReply \/ AwaitReplyData
    <2>1. /\ pc \notin {"idle", "done"} /\ pc' # "idle"
          /\ UNCHANGED <<call, result, tries, log>>
        BY <1>2 DEF SendHdr, SendData, Send, AfterData, AwaitAck, AwaitCheck, AwaitEnd,
                    AwaitReply, AwaitReplyData, server
    <2>2. CASE pc' # "done"
        BY <2>1, <2>2 DEF Status
    <2>3. CASE pc' = "done"
        <3>1. Status = "none" /\ Status' = "confirmed"
            BY <1>1, <2>1, <2>3 DEF Status
        <3>2. call.kind \in WithAnswer => Contains(log, call.id)
            BY <2>1, <2>3 DEF LinkInv, ClientOk
        <3> QED
            BY <2>1, <3>1, <3>2, SameLog DEF Promise!Confirm, WithAnswer
    <2> QED
        BY <2>2, <2>3
<1>3. CASE Done
    <2>1. /\ pc = "done" /\ pc' = "idle" /\ result' = "returned"
          /\ UNCHANGED <<call, tries, log>>
        BY <1>3 DEF Done, server
    <2>2. Status = "confirmed" /\ Status' = "returned"
        BY <2>1 DEF Status
    <2> QED
        BY <2>1, <2>2 DEF Promise!Return
<1>4. CASE Retried
    <2>1. /\ pc = "failed" /\ Retries(call.kind) /\ UNCHANGED <<call, log>>
          /\ pc' \in {"idle", "hdr"}
        BY <1>4 DEF Retried, server
    <2>2. call.kind \in {kind \in Kinds : Retries(kind)}
        BY <1>1, <2>1
    <2>3. Status = "none" /\ Status' = result'
        BY <1>1, <2>1 DEF Status
    <2>4. CASE LastTry
        <3>1. result' = "returned" /\ UNCHANGED tries
            BY <1>4, <2>4 DEF Retried
        <3> QED
            BY <2>1, <2>2, <2>3, <2>4, <3>1 DEF Promise!Return, LastTry
    <2>5. CASE ~LastTry
        <3>1. UNCHANGED result /\ tries' = tries + 1 /\ tries < Retry - 1
            BY <1>1, <1>4, <2>5 DEF Retried, LastTry
        <3>2. Status' = "none"
            BY <1>1, <2>1, <2>3, <3>1
        <3> QED
            BY <2>1, <2>2, <2>3, <3>1, <3>2 DEF Promise!TryAgain
    <2> QED
        BY <2>4, <2>5
<1>5. CASE ReconnectFails \/ Throws
    <2>1. /\ pc = "failed" /\ pc' = "idle" /\ result' = "threw"
          /\ UNCHANGED <<call, tries, log>>
        BY <1>5 DEF ReconnectFails, Throws, server
    <2>2. Status = "none" /\ Status' = "threw"
        BY <1>1, <2>1 DEF Status
    <2> QED
        BY <2>1, <2>2 DEF Promise!Throw
<1> QED
    BY <1>2, <1>3, <1>4, <1>5 DEF ClientStep

\* What the server's are.
LEMMA ServerDelivers ==
    ASSUME LinkInv, ServerStep
    PROVE  \/ \E id \in 1 .. MaxCalls : Promise!Process(id)
           \/ UNCHANGED <<call, Status, tries, log>>
<1>0. /\ UNCHANGED <<call, result, pc, tries>>
      /\ log' = log \/ (Busy /\ log' = Append(log, got.id))
    BY DEF ServerStep, Accept, ServerHdr, ServerData, Process, ReplyHdr, ReplyData,
           ReplyLost, ServerFails, ServerReceives, Busy, client
<1>1. /\ UNCHANGED <<call, Status, tries>>
      /\ log' = log \/ (Busy /\ log' = Append(log, got.id))
    BY <1>0 DEF Status
<1>2. ASSUME Busy, log' = Append(log, got.id)
      PROVE  \E id \in 1 .. MaxCalls : Promise!Process(id)
    <2>1. got.id \in 1 .. call.id /\ (log # <<>> => Last(log) <= got.id)
        BY <1>2 DEF LinkInv, OrderOk, Made
    <2>2. call.id \in 0 .. MaxCalls /\ MaxCalls \in Nat
        BY TypeFacts, LinkAssumption
    <2>3. got.id \in 1 .. MaxCalls
        BY <2>1, <2>2
    <2>4. log # <<>> => Last(log) \in 1 .. call.id
        BY DEF LinkInv, OrderOk
    <2>5. log # <<>> => got.id >= Last(log)
        BY <2>1, <2>2, <2>4
    <2>6. Promise!Process(got.id)
        BY <1>1, <1>2, <2>1, <2>5, SameLog DEF Promise!Process
    <2> QED
        BY <2>3, <2>6
<1> QED
    BY <1>1, <1>2

LEMMA DeliveryStep ==
    LinkInv /\ LinkInv' /\ [Next]_vars => [Promise!Next]_<<call, Status, tries, log>>
<1> SUFFICES ASSUME LinkInv, LinkInv', [Next]_vars
             PROVE  Promise!Next \/ UNCHANGED <<call, Status, tries, log>>
    OBVIOUS
<1>1. ASSUME NEW kind \in Kinds, Begin(kind)
      PROVE  Promise!Next
    <2>1. /\ pc = "idle" /\ pc' = "hdr" /\ result' = "none" /\ tries' = 0
          /\ result \in {"idle", "returned", "threw"}
        BY <1>1 DEF LinkInv, ClientOk, Types, Begin
    <2>2. Status = result /\ Status' = "none"
        BY <2>1 DEF Status
    <2>3. Promise!Begin(kind)
        BY <1>1, <2>1, <2>2 DEF Begin, server, Promise!Begin
    <2> QED
        BY <2>3 DEF Promise!Next
<1>2. CASE ClientStep
    BY <1>2, ClientDelivers DEF Promise!Next
<1>3. CASE ServerStep
    BY <1>3, ServerDelivers DEF Promise!Next
<1>4. CASE Break \/ UNCHANGED vars
    BY <1>4 DEF Break, vars, client, server, Status
<1> QED
    BY <1>1, <1>2, <1>3, <1>4 DEF Next

\* What confirms a checked file or a request is about that message, which has
\* been processed; a call returns unconfirmed only after all its attempts; and
\* messages are processed in the order of the calls: the protocol implements
\* the abstract delivery.
THEOREM LinkRefinesDelivery == Spec => RefinesDelivery
<1>1. Init => Promise!Init
    BY DEF Init, Promise!Init, NoCall, Status
<1>2. LinkInv /\ [Next]_vars => LinkInv'
    BY LinkStep
<1>3. LinkInv /\ LinkInv' /\ [Next]_vars => [Promise!Next]_Promise!vars
    BY DeliveryStep DEF Promise!vars
<1> QED
    BY <1>1, <1>2, <1>3, LinkInit, PTL DEF Spec, RefinesDelivery, Promise!Spec
=============================================================================
