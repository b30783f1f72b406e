------------------------------- MODULE Packets -------------------------------
(***************************************************************************)
(* The packet layer under Connector: how the network brokers of MySQL      *)
(* Connector/Python cut payloads into packets, with and without            *)
(* compression, number them, and put the packets of the server together    *)
(* from the bytes of the socket.  A byte is a record that says what it is  *)
(* part of; zlib.compress makes one byte that holds its argument.  The     *)
(* 2^24 - 1, the 256 and the lengths of headers are small constants.       *)
(***************************************************************************)
EXTENDS Integers, FiniteSets, Sequences, SequencesExt

CONSTANTS
    MaxPayload,     \* MAX_PAYLOAD_LENGTH
    Header,         \* PACKET_HEADER_LENGTH: the length in all bytes but the last
    OuterHeader,    \* COMPRESSED_PACKET_HEADER_LENGTH
    MinCompress,    \* MIN_COMPRESS_LENGTH
    Numbers,        \* packet numbers are taken modulo this
    Commands,       \* bound: the lengths of the commands' payloads
    Data,           \* bound: the lengths of the chunks of a LOCAL INFILE
    Replies,        \* bound: the payload lengths of an answer's packets
    MaxPieces,      \* bound: the compressed packets of an answer
    MaxExchanges    \* bound: the commands sent in a behaviour

ASSUME PacketsAssumption ==
    /\ Header \in Nat \ {0, 1} /\ OuterHeader \in Nat \ {0}
    /\ MaxPayload \in Nat /\ MaxPayload > Header
    /\ MinCompress \in Nat /\ MinCompress < MaxPayload - Header
    /\ Numbers \in Nat \ {0, 1}
    /\ Commands \subseteq Nat \ {0} /\ Data \subseteq 1..(MaxPayload - Header - 1)
    /\ Replies \subseteq Seq(0..MaxPayload) \ {<<>>}
    /\ MaxPieces \in Nat \ {0} /\ MaxExchanges \in Nat

VARIABLES
    compressed,     \* the broker is a NetworkBrokerCompressed
    pktnr,          \* _pktnr and _compressed_pktnr
    uplink,         \* the packets that the server has not read yet
    server,         \* the server's side of the exchange
    downlink,       \* the bytes that the client has not read yet
    owed,           \* history: the packets sent by the server, not returned yet
    recv,           \* the recv() that is running
    queue,          \* _queue_read
    sending,        \* history: whose turn it is, the payloads on their way, and what they may suffer
    kind,           \* history: the server's bytes, as cut and as received
    last,           \* history: what the last recv() returned, and what it owed
    exchanges

client == <<pktnr, recv, queue, last>>
vars   == <<compressed, client, uplink, server, downlink, owed, sending, kind, exchanges>>

-----------------------------------------------------------------------------
HeadByte(i, len, nr) == [part |-> "head", i |-> i, len |-> len, nr |-> nr]
BodyByte(i)          == [part |-> "body", i |-> i]
OuterByte(i, p)      == [part |-> "outer", i |-> i, nr |-> p.nr, size |-> p.size,
                         len |-> Len(p.body)]

(* A packet whose payload is the bytes from + 1, ..., from + len.          *)
Packet(len, nr, from) ==
    [i \in 1..Header |-> HeadByte(i, len, nr)] \o [i \in 1..len |-> BodyByte(from + i)]

(* Faulty: no empty packet after a payload of exactly MaxPayload bytes.    *)
Faulty_PreparePackets(n, nr) ==
    [k \in 1..IF n % MaxPayload = 0 /\ n > 0 THEN n \div MaxPayload ELSE (n \div MaxPayload) + 1 |->
        Packet(IF k <= n \div MaxPayload THEN MaxPayload ELSE n % MaxPayload,
               (nr + k - 1) % Numbers, (k - 1) * MaxPayload)]

(* The packets of a payload of n bytes: full ones, then one that is not.   *)
PreparePackets(n, nr) ==
    [k \in 1..((n \div MaxPayload) + 1) |->
        Packet(IF k <= n \div MaxPayload THEN MaxPayload ELSE n % MaxPayload,
               (nr + k - 1) % Numbers, (k - 1) * MaxPayload)]

(* What the socket carries: a plain packet, or a compressed one, in which  *)
(* size is the length before compression, and 0 says that there is none.   *)
Raw(s, nr)    == [nr |-> nr, size |-> 0, body |-> s]
Zipped(s, nr) == [nr |-> nr, size |-> Len(s), body |-> <<[part |-> "zip", plain |-> s]>>]

Unzipped(size, body) == IF size = 0 THEN body ELSE body[1].plain

Chunk(s, k) == SubSeq(s, (k - 1) * MaxPayload + 1, Min({k * MaxPayload, Len(s)}))

(* NetworkBrokerCompressed.send: the packets, in one compressed packet or  *)
(* in pieces of MaxPayload bytes and a last one that is shorter.           *)
CompressedPackets(n, nr, cnr) ==
    LET s == FlattenSeq(PreparePackets(n, nr)) IN
    IF n >= MaxPayload - Header
      THEN [k \in 1..((Len(s) \div MaxPayload) + 1) |-> Zipped(Chunk(s, k), (cnr + k - 1) % Numbers)]
      ELSE <<IF n > MinCompress THEN Zipped(s, cnr) ELSE Raw(s, cnr)>>

PlainPackets(n, nr) ==
    LET packets == PreparePackets(n, nr) IN
    [k \in DOMAIN packets |-> Raw(packets[k], (nr + k - 1) % Numbers)]

(* The last compressed packet is empty: its size is 0, which means that it *)
(* is not compressed, and the server takes the bytes of zlib for data.     *)
EmptyLast(n) ==
    /\ compressed /\ n >= MaxPayload - Header
    /\ Len(FlattenSeq(PreparePackets(n, 0))) % MaxPayload = 0

-----------------------------------------------------------------------------
NoRecv == [at |-> "idle", need |-> 0, chunk |-> <<>>, head |-> <<>>,
           pkt |-> <<>>, offset |-> 0]

Init ==
    /\ compressed \in BOOLEAN
    /\ pktnr = [plain |-> 0, outer |-> 0]
    /\ uplink = <<>> /\ downlink = <<>>
    /\ server = [at |-> "command", nr |-> 0, buf |-> <<>>, got |-> 0, error |-> "none"]
    /\ owed = <<>> /\ queue = <<>>
    /\ recv = NoRecv
    /\ sending = [turn |-> "command", lengths |-> <<>>, emptyLast |-> FALSE]
    /\ kind = [hard |-> FALSE, torn |-> FALSE]
    /\ last = [result |-> "none", packet |-> <<>>, due |-> <<>>]
    /\ exchanges = 0

(* Faulty: the number goes on past 255.                                    *)
Faulty_NextNumber(nr) == nr + 1

(* _set_next_pktnr, _set_next_compressed_pktnr                             *)
NextNumber(nr) == (nr + 1) % Numbers

(* send() of a payload of n bytes, with the numbers to start from.  The    *)
(* compressed broker counts compressed packets, and keeps _pktnr at the    *)
(* number of the first packet; the plain one has it at the last.           *)
Send(n, nr, cnr, turn) ==
    LET packets == IF compressed THEN CompressedPackets(n, nr, cnr) ELSE PlainPackets(n, nr)
        latest  == packets[Len(packets)].nr
    IN
    /\ uplink' = uplink \o packets
    /\ pktnr' = IF compressed THEN [plain |-> nr, outer |-> latest]
                ELSE [pktnr EXCEPT !.plain = latest]
    /\ sending' = [turn |-> turn, lengths |-> Append(sending.lengths, n),
                   emptyLast |-> sending.emptyLast \/ EmptyLast(n)]

(* A session is followed until its bytes were torn or cut in a hard place. *)
Idle == recv.at = "idle" /\ last.result # "garbled" /\ ~kind.torn

MaySend(turn) == Idle /\ ~kind.hard /\ owed = <<>> /\ sending.turn = turn

(* _send_cmd starts from 0.  The server has answered the command before.   *)
SendCommand(n) ==
    /\ MaySend("command")
    /\ exchanges < MaxExchanges /\ exchanges' = exchanges + 1
    /\ Send(n, 0, 0, "server")
    /\ UNCHANGED <<compressed, server, downlink, owed, recv, queue, kind, last>>

(* _send_data: each chunk, and the empty payload at the end, goes on from  *)
(* the numbers of the packet before.                                       *)
SendData(n) ==
    /\ MaySend("data")
    /\ exchanges' = IF n = 0 THEN exchanges ELSE exchanges + 1
    /\ exchanges' <= MaxExchanges
    /\ Send(n, NextNumber(pktnr.plain), NextNumber(pktnr.outer), IF n = 0 THEN "server" ELSE "data")
    /\ UNCHANGED <<compressed, server, downlink, owed, recv, queue, kind, last>>

-----------------------------------------------------------------------------
(* The server reads a packet, and takes it for the next of the exchange.   *)
ServerReads ==
    /\ server.at \in {"command", "data"} /\ server.error = "none" /\ uplink # <<>>
    /\ LET p == Head(uplink)
           plain == Unzipped(p.size, p.body)
       IN
       server' = IF p.nr # server.nr THEN [server EXCEPT !.error = "out of order"]
                 ELSE IF Len(plain) > MaxPayload + (IF compressed THEN 0 ELSE Header)
                        THEN [server EXCEPT !.error = "too long"]
                 ELSE [server EXCEPT !.buf = @ \o plain, !.nr = NextNumber(@)]
    /\ uplink' = Tail(uplink)
    /\ UNCHANGED <<compressed, client, downlink, owed, sending, kind, exchanges>>

(* The bytes at position o of s begin with a header.                       *)
IsHeader(s, o, n) ==
    /\ Len(s) >= o + n
    /\ \A i \in 1..n : s[o + i].part = "head" /\ s[o + i].i = i

(* The server takes a whole packet out of what it has read; one that is    *)
(* shorter than MaxPayload ends the payload, which it acts on.             *)
ServerTakes ==
    /\ server.at \in {"command", "data"} /\ server.error = "none"
    /\ Len(server.buf) >= Header
    /\ LET len  == server.buf[1].len
           body == SubSeq(server.buf, Header + 1, Header + len)
           rest == SubSeq(server.buf, Header + len + 1, Len(server.buf))
       IN
       IF ~IsHeader(server.buf, 0, Header)
         THEN server' = [server EXCEPT !.error = "garbled"]
         ELSE /\ Len(server.buf) >= Header + len
              /\ server' =
                   IF \E i \in 1..len : body[i] # BodyByte(server.got + i)
                     THEN [server EXCEPT !.error = "garbled"]
                     ELSE [server EXCEPT !.buf = rest, !.got = @ + len,
                             !.at = IF len = MaxPayload THEN @
                                    ELSE IF @ = "command" THEN "answer"
                                    ELSE IF server.got + len = 0 THEN "end"
                                    ELSE "data taken"]
    /\ UNCHANGED <<compressed, client, uplink, downlink, owed, sending, kind, exchanges>>

(* A chunk of data has no answer: the client goes on without one.          *)
ServerStores ==
    /\ server.at = "data taken"
    /\ server' = [server EXCEPT !.at = "data", !.got = 0]
    /\ sending' = [sending EXCEPT !.lengths = Tail(@)]
    /\ UNCHANGED <<compressed, client, uplink, downlink, owed, kind, exchanges>>

(* The ways to cut n bytes: where each piece ends.                         *)
Cuttings(n) ==
    UNION {{cuts \in [1..k -> 1..n] :
              cuts[k] = n /\ \A j \in 1..(k - 1) : cuts[j] < cuts[j + 1]} : k \in 1..MaxPieces}

Cut(cuts, j) == IF j = 0 THEN 0 ELSE cuts[j]

(* The pieces that the server cuts its bytes into.                         *)
Pieces(s, cuts) == [j \in DOMAIN cuts |-> SubSeq(s, Cut(cuts, j - 1) + 1, cuts[j])]

Outer(p) == [i \in 1..OuterHeader |-> OuterByte(i, p)] \o p.body

(* Compressed packets may end anywhere.  It is hard on the client when one *)
(* ends within the length of a packet, or a packet goes on past the next.  *)
Hard(cuts, starts, ends) ==
    \E k \in DOMAIN starts, j \in DOMAIN cuts :
        /\ cuts[j] >= starts[k]
        /\ \/ cuts[j] < starts[k] + Header - 2
           \/ j < Len(cuts) /\ cuts[j + 1] < ends[k]

(* The server sends packets with payloads of these lengths, and waits for  *)
(* the next command or for data.                                           *)
ServerSends(lengths, next) ==
    LET packets == [k \in DOMAIN lengths |->
                      Packet(lengths[k], (server.nr + k - 1) % Numbers, 0)]
        s == FlattenSeq(packets)
        ends == [k \in DOMAIN lengths |-> Len(FlattenSeq(SubSeq(packets, 1, k)))]
        starts == [k \in DOMAIN lengths |-> ends[k] - Header - lengths[k] + 1]
    IN
    /\ owed' = packets
    /\ sending' = [sending EXCEPT !.turn = next, !.lengths = Tail(@)]
    /\ \/ /\ ~compressed
          /\ downlink' = s
          /\ server' = [server EXCEPT !.at = next, !.got = 0,
                                      !.nr = IF next = "command" THEN 0
                                             ELSE (@ + Len(lengths)) % Numbers]
          /\ UNCHANGED kind
       \/ /\ compressed
          /\ \E cuts \in Cuttings(Len(s)), zip \in BOOLEAN :
                LET pieces == Pieces(s, cuts)
                    Wrap(k) == LET nr == (server.nr + k - 1) % Numbers IN
                               Outer(IF zip THEN Zipped(pieces[k], nr) ELSE Raw(pieces[k], nr))
                IN
                /\ \A k \in DOMAIN pieces : Len(pieces[k]) <= MaxPayload
                /\ downlink' = FlattenSeq([k \in DOMAIN pieces |-> Wrap(k)])
                /\ server' = [server EXCEPT !.at = next, !.got = 0,
                                            !.nr = IF next = "command" THEN 0
                                                   ELSE (@ + Len(pieces)) % Numbers]
                /\ kind' = [kind EXCEPT !.hard = @ \/ Hard(cuts, starts, ends)]
    /\ UNCHANGED <<compressed, client, uplink, exchanges>>

ServerAnswers ==
    /\ server.at \in {"answer", "end"} /\ server.error = "none"
    /\ \/ \E lengths \in Replies : ServerSends(lengths, "command")
       \/ server.at = "answer" /\ ServerSends(<<1>>, "data")

-----------------------------------------------------------------------------
Expect(at, n) == [recv EXCEPT !.at = at, !.need = n, !.chunk = <<>>]

(* recv() ends: it returns a packet, or raises.                            *)
Return(result, packet) ==
    /\ recv' = NoRecv
    /\ last' = [result |-> result, packet |-> packet, due |-> Head(owed)]
    /\ owed' = IF result = "packet" THEN Tail(owed) ELSE owed

(* Faulty: pop() for popleft(), the packet read last is returned first.    *)
Faulty_Dequeue(q) ==
    /\ queue' = Front(q)
    /\ pktnr' = [pktnr EXCEPT !.plain = Last(q)[Header].nr]
    /\ Return("packet", Last(q))

(* The packet at the head of _queue_read is returned.                      *)
Dequeue(q) ==
    /\ queue' = Tail(q)
    /\ pktnr' = [pktnr EXCEPT !.plain = Head(q)[Header].nr]
    /\ Return("packet", Head(q))

(* recv(): read a header, unless packets are queued.                       *)
Recv ==
    /\ Idle /\ owed # <<>>
    /\ IF queue # <<>>
         THEN Dequeue(queue)
         ELSE /\ recv' = Expect("header", IF compressed THEN OuterHeader ELSE Header)
              /\ UNCHANGED <<pktnr, queue, last, owed>>
    /\ UNCHANGED <<compressed, uplink, server, downlink, sending, kind, exchanges>>

(* _recv_chunk: one recv_into(), which gives what has arrived.             *)
RecvInto ==
    /\ recv.need > 0 /\ downlink # <<>>
    /\ \E k \in {1, Min({recv.need, Len(downlink)})} :
          /\ recv' = [recv EXCEPT !.need = @ - k, !.chunk = @ \o SubSeq(downlink, 1, k)]
          /\ downlink' = SubSeq(downlink, k + 1, Len(downlink))
    /\ UNCHANGED <<compressed, pktnr, queue, last, uplink, server, owed, sending, kind, exchanges>>

(* The read timeout expires; what was read of the packet is lost with it.  *)
TimeOut ==
    /\ recv.need > 0
    /\ Return("timeout", <<>>)
    /\ kind' = [kind EXCEPT !.torn = @ \/ recv.chunk # <<>> \/ recv.at # "header"]
    /\ UNCHANGED <<compressed, pktnr, queue, uplink, server, downlink, sending, exchanges>>

(* The header of a plain packet is there.                                  *)
PlainHeader ==
    /\ recv.at = "header" /\ recv.need = 0 /\ ~compressed
    /\ pktnr' = [pktnr EXCEPT !.plain = recv.chunk[Header].nr]
    /\ recv' = [Expect("body", recv.chunk[1].len) EXCEPT !.head = recv.chunk]
    /\ UNCHANGED <<compressed, queue, last, uplink, server, downlink, owed, sending, kind, exchanges>>

PlainBody ==
    /\ recv.at = "body" /\ recv.need = 0 /\ ~compressed
    /\ Return("packet", recv.head \o recv.chunk)
    /\ UNCHANGED <<compressed, pktnr, queue, uplink, server, downlink, sending, kind, exchanges>>

(* The header of a compressed packet is there: the first, or one more.     *)
OuterHeaderRead ==
    /\ recv.at \in {"header", "more header"} /\ recv.need = 0 /\ compressed
    /\ pktnr' = [pktnr EXCEPT !.outer = recv.chunk[1].nr]
    /\ recv' = [Expect(IF recv.at = "header" THEN "body" ELSE "more body", recv.chunk[1].len)
                  EXCEPT !.head = recv.chunk]
    /\ UNCHANGED <<compressed, queue, last, uplink, server, downlink, owed, sending, kind, exchanges>>

(* The rest of what is decompressed from position o: the length there.     *)
Enqueue(pkt, o) ==
    LET end == o + Header + pkt[o + 1].len IN
    /\ queue' = Append(queue, SubSeq(pkt, o + 1, Min({end, Len(pkt)})))
    /\ recv' = [recv EXCEPT !.at = "split", !.need = 0, !.chunk = <<>>, !.pkt = pkt, !.offset = end]

(* The compressed packet is there.  The one more is taken for the end of   *)
(* the packet that needed it.                                              *)
OuterBodyRead ==
    /\ recv.at \in {"body", "more body"} /\ recv.need = 0 /\ compressed
    /\ LET pkt == recv.pkt \o Unzipped(recv.head[1].size, recv.chunk) IN
       IF recv.at = "body"
         THEN recv' = [recv EXCEPT !.at = "split", !.chunk = <<>>, !.pkt = pkt] /\ UNCHANGED queue
         ELSE Enqueue(pkt, recv.offset)
    /\ UNCHANGED <<compressed, pktnr, last, uplink, server, downlink, owed, sending, kind, exchanges>>

(* Faulty: a packet that ends with the bytes at hand needs more of them.   *)
Faulty_Complete(pkt, o) == o + Header + pkt[o + 1].len < Len(pkt)

(* The packet at position o is all there.                                  *)
Complete(pkt, o) == o + Header + pkt[o + 1].len <= Len(pkt)

(* The loop of _recv_compressed_pkt: the packets are queued one by one.    *)
Split ==
    /\ recv.at = "split" /\ compressed
    /\ LET pkt == recv.pkt  o == recv.offset IN
       \/ /\ o >= Len(pkt)
          /\ Dequeue(queue)
       \/ /\ o < Len(pkt) /\ ~IsHeader(pkt, o, Header - 1)    \* struct.error, or any length
          /\ Return("garbled", <<>>)
          /\ UNCHANGED <<pktnr, queue>>
       \/ /\ o < Len(pkt) /\ IsHeader(pkt, o, Header - 1) /\ Complete(pkt, o)
          /\ Enqueue(pkt, o)
          /\ UNCHANGED <<pktnr, last, owed>>
       \/ /\ o < Len(pkt) /\ IsHeader(pkt, o, Header - 1) /\ ~Complete(pkt, o)
          /\ recv' = Expect("more header", OuterHeader)
          /\ UNCHANGED <<pktnr, last, owed, queue>>
    /\ UNCHANGED <<compressed, uplink, server, downlink, sending, kind, exchanges>>

Receiving ==
    \/ RecvInto \/ PlainHeader \/ PlainBody \/ OuterHeaderRead \/ OuterBodyRead \/ Split

Next ==
    \/ \E n \in Commands : SendCommand(n)
    \/ \E n \in Data \cup {0} : SendData(n)
    \/ Recv \/ Receiving \/ TimeOut
    \/ ServerReads \/ ServerTakes \/ ServerStores \/ ServerAnswers

Spec == Init /\ [][Next]_vars

(* A recv() that can go on does.                                           *)
FairSpec == Spec /\ WF_vars(Receiving)

-----------------------------------------------------------------------------
(* Every variable holds values of its type.                                *)
TypeOK ==
    /\ compressed \in BOOLEAN /\ exchanges \in 0..MaxExchanges
    /\ pktnr \in [plain : 0..(Numbers - 1), outer : 0..(Numbers - 1)]
    /\ recv.at \in {"idle", "header", "body", "more header", "more body", "split"}
    /\ recv.need \in Nat
    /\ server.error \in {"none", "out of order", "too long", "garbled"}
    /\ server.nr \in 0..(Numbers - 1)

(* send() takes payloads of arbitrary length: the server gets them byte    *)
(* for byte in packets numbered without a gap, knows when it has them all  *)
(* and is never left to wait for more, unless a compressed send has ended  *)
(* with the empty packet.                                                  *)
ServerGetsAll ==
    ~sending.emptyLast =>
        /\ server.error = "none"
        /\ server.at \in {"answer", "end", "data taken"} => server.got = Head(sending.lengths)
        /\ server.at \in {"answer", "end"} =>
              uplink = <<>> /\ server.buf = <<>> /\ Len(sending.lengths) = 1
        /\ sending.turn = "server" /\ uplink = <<>> /\ server.buf = <<>> =>
              server.at \in {"answer", "end"}

(* recv() returns the packets of the server, whole and in order, however   *)
(* the socket and the server cut their bytes, and a late packet after a    *)
(* timeout too, unless the timeout tore a packet or a cut was a hard one.  *)
PacketsWhole ==
    ~kind.hard /\ ~kind.torn =>
        /\ last.result # "garbled"
        /\ last.result = "packet" => last.packet = last.due

(* recv() never waits for bytes that the server does not owe.              *)
RecvReturns ==
    (recv.at # "idle") ~> (recv.at = "idle" \/ kind.hard \/ kind.torn)
=============================================================================
