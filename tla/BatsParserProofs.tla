------------------------- MODULE BatsParserProofs -------------------------
(***************************************************************************)
(* Proofs about BatsParser, for every size of word, header and buffer: that *)
(* its buffer never overflows, whatever the feed; and, for every feed that *)
(* keeps to the protocol, that each command is the next message due, with  *)
(* its own sequence number, seconds and datagram.  For the second the      *)
(* bytes, messages and units of all that was sent are laid out on one line *)
(* of places, on which the parser's buffer and the wire have theirs.       *)
(***************************************************************************)
EXTENDS BatsParser, Concatenation

\* What the parser can take in one cycle.
Word == [bytes : {s \in Seq(Nat) : Len(s) <= WORD}, eof_bad : BOOLEAN]

BufferInv ==
    /\ buffer \in Seq(Nat) /\ Len(buffer) <= BUF_BYTES
    /\ wire \in Seq(Word)

---------------------------------------------------------------------------
\* A datagram in words.

LEMMA WordsAreShort ==
    ASSUME NEW bytes \in Seq(Nat), NEW bad \in BOOLEAN
    PROVE  Words(bytes, bad) \in Seq(Word)
<1>. DEFINE N == Len(bytes)
            y == N + WORD - 1
            n == y \div WORD
            last(i) == IF i = n THEN N ELSE i * WORD
            ws == [i \in 1 .. n |-> [bytes |-> SubSeq(bytes, (i - 1) * WORD + 1, last(i)),
                                     eof_bad |-> bad /\ i = n]]
<1>1. WORD \in Nat /\ WORD > 0 /\ N \in Nat /\ y \in Nat
  BY SizeAssumption
<1>2. n \in Nat /\ y = WORD * n + (y % WORD) /\ y % WORD \in 0 .. WORD - 1
  BY <1>1
<1>. HIDE DEF n, y
<1>3. WORD * n >= N /\ WORD * n < N + WORD
  <2>1. y = N + WORD - 1
    BY DEF y
  <2>. QED BY <1>1, <1>2, <2>1
<1>4. ws = Words(bytes, bad)
  BY DEF Words, n, y
<1>5. ASSUME NEW i \in 1 .. n PROVE ws[i] \in Word
  <2>. DEFINE from == (i - 1) * WORD + 1
  <2>1. from \in Nat /\ from >= 1 /\ i * WORD = from + WORD - 1 /\ i * WORD \in Nat
    BY <1>1, <1>2
  <2>2. last(i) \in Nat /\ last(i) <= N /\ last(i) <= from + WORD - 1
    <3>1. CASE i = n
      <4>1. WORD * n = i * WORD
        BY <1>1, <1>2, <3>1
      <4>. QED BY <1>1, <1>3, <2>1, <3>1, <4>1
    <3>2. CASE i # n
      <4>1. WORD * (n - (i + 1)) >= 0
        BY <1>1, <1>2, <3>2
      <4>2. WORD * n = WORD * (n - (i + 1)) + (i * WORD + WORD)
        BY <1>1, <1>2
      <4>3. i * WORD + WORD <= WORD * n
        <5>1. WORD * (n - (i + 1)) \in Int
          BY <1>1, <1>2
        <5>. QED BY <1>1, <2>1, <4>1, <4>2, <5>1
      <4>. QED BY <1>1, <1>2, <1>3, <2>1, <3>2, <4>3
    <3>. QED BY <3>1, <3>2
  <2>3. ws[i] = [bytes |-> SubSeq(bytes, from, last(i)), eof_bad |-> bad /\ i = n]
    OBVIOUS
  <2>. HIDE DEF from, last, ws
  <2>4. SubSeq(bytes, from, last(i)) \in Seq(Nat)
    BY <2>1, <2>2
  <2>5. Len(SubSeq(bytes, from, last(i))) <= WORD
    BY <1>1, <2>1, <2>2
  <2>6. (bad /\ i = n) \in BOOLEAN
    OBVIOUS
  <2>. QED BY <2>3, <2>4, <2>5, <2>6 DEF Word
<1>6. ws \in [1 .. n -> Word]
  BY <1>5
<1>7. ws \in Seq(Word)
  <2>1. \A S : \A f \in [1 .. n -> S] : f \in Seq(S)
    BY <1>2
  <2>. HIDE DEF ws
  <2>. QED BY <1>6, <2>1, Zenon
<1>. QED BY <1>4, <1>7

---------------------------------------------------------------------------
\* A datagram in bytes: its message k ends at[k] bytes into it.

Message == [len : Nat, type : Nat, val : Nat]

\* The feeds that the invariant of the stream is about.
Regular == WellFormed /\ NoHeartbeats

Size(m) == IF m.len < 3 THEN 3 ELSE m.len

LEMMA MessageInBytes ==
    ASSUME NEW m \in Message
    PROVE  /\ MessageBytes(m) \in Seq(Nat) /\ Len(MessageBytes(m)) = Size(m)
           /\ MessageBytes(m)[1] = m.len /\ MessageBytes(m)[2] = m.type /\ MessageBytes(m)[3] = m.val
<1>1. m.len \in Nat /\ m.type \in Nat /\ m.val \in Nat
  BY DEF Message
<1>. DEFINE u == <<m.len, m.type, m.val>>
            v == Zeros(m.len - 3)
<1>2. u \in Seq(Nat) /\ Len(u) = 3 /\ u[1] = m.len /\ u[2] = m.type /\ u[3] = m.val
  BY <1>1
<1>3. v \in Seq(Nat) /\ Len(v) = IF m.len < 3 THEN 0 ELSE m.len - 3
  <2>1. CASE m.len < 3
    <3>1. 1 .. m.len - 3 = {}
      BY <1>1, <2>1
    <3>2. v = <<>> /\ <<>> \in Seq(Nat) /\ Len(<<>>) = 0
      BY <3>1 DEF Zeros
    <3>. HIDE DEF v
    <3>. QED BY <2>1, <3>2
  <2>2. CASE m.len >= 3
    BY <1>1, <2>2 DEF Zeros
  <2>. QED BY <1>1, <2>1, <2>2
<1>4. MessageBytes(m) = u \o v
  BY DEF MessageBytes
<1>. HIDE DEF u, v
<1>5. u \o v \in Seq(Nat) /\ Len(u \o v) = Len(u) + Len(v) /\ \A a \in 1 .. Len(u) : (u \o v)[a] = u[a]
  <2>1. u \in Seq(Nat) /\ v \in Seq(Nat)
    BY <1>2, <1>3
  <2>. QED BY <2>1, Joined
<1>6. Len(MessageBytes(m)) = Size(m)
  BY <1>1, <1>2, <1>3, <1>4, <1>5 DEF Size
<1>. QED BY <1>2, <1>4, <1>5, <1>6

LEMMA HeaderInBytes ==
    ASSUME NEW d, d.seq \in Nat, Len(d.msgs) \in Nat
    PROVE  /\ HeaderBytes(d) \in Seq(Nat) /\ Len(HeaderBytes(d)) = HDR
           /\ HeaderBytes(d)[3] = Len(d.msgs) /\ HeaderBytes(d)[5] = d.seq
<1>. DEFINE u == <<0, 0, Len(d.msgs), 1, d.seq>>
            v == Zeros(HDR - 5)
<1>1. u \in Seq(Nat) /\ Len(u) = 5 /\ u[3] = Len(d.msgs) /\ u[5] = d.seq
  OBVIOUS
<1>2. HDR \in Nat /\ HDR >= 5
  BY SizeAssumption
<1>3. v \in Seq(Nat) /\ Len(v) = HDR - 5
  BY <1>2 DEF Zeros
<1>4. HeaderBytes(d) = u \o v
  BY DEF HeaderBytes
<1>. HIDE DEF u, v
<1>5. u \o v \in Seq(Nat) /\ Len(u \o v) = Len(u) + Len(v) /\ \A a \in 1 .. Len(u) : (u \o v)[a] = u[a]
  <2>1. u \in Seq(Nat) /\ v \in Seq(Nat)
    BY <1>1, <1>3
  <2>. QED BY <2>1, Joined
<1>. QED BY <1>1, <1>2, <1>3, <1>4, <1>5

\* Message k of datagram d: where it ends, and what it starts with.
MessageAt(at, d, k) ==
    /\ at[k] = at[k-1] + Size(d.msgs[k]) /\ at[k] <= Len(Bytes(d))
    /\ Bytes(d)[at[k-1] + 1] = d.msgs[k].len
    /\ Bytes(d)[at[k-1] + 2] = d.msgs[k].type
    /\ Bytes(d)[at[k-1] + 3] = d.msgs[k].val

LEMMA Layout ==
    ASSUME NEW d \in Datagrams
    PROVE  \E at \in [Nat -> Nat] :
              /\ Bytes(d) \in Seq(Nat) /\ at[0] = HDR /\ Len(Bytes(d)) = at[Len(d.msgs)]
              /\ Bytes(d)[3] = Len(d.msgs) /\ Bytes(d)[5] = d.seq
              /\ \A k \in 1 .. Len(d.msgs) : MessageAt(at, d, k)
<1>1. d.seq \in Nat /\ d.msgs \in Seq(Message) /\ Len(d.msgs) \in Nat
  BY FeedAssumption DEF Message
<1>2. \A k \in 1 .. Len(d.msgs) : d.msgs[k] \in Message
  BY <1>1
<1>3. PICK s : s = [i \in 1 .. Len(d.msgs) |-> MessageBytes(d.msgs[i])]
  OBVIOUS
<1>4. s \in Seq(Seq(Nat)) /\ Len(s) = Len(d.msgs)
  BY <1>1, <1>2, <1>3, MessageInBytes
<1>5. PICK h : h = HeaderBytes(d)
  OBVIOUS
<1>6. h \in Seq(Nat) /\ Len(h) = HDR /\ h[3] = Len(d.msgs) /\ h[5] = d.seq
  BY <1>1, <1>5, HeaderInBytes
<1>7. Bytes(d) = h \o FlattenSeq(s)
  BY <1>3, <1>5 DEF Bytes
<1>8. PICK at \in [Nat -> Nat] :
         /\ at[0] = Len(h) /\ Bytes(d) \in Seq(Nat) /\ Len(Bytes(d)) = at[Len(s)]
         /\ LaidOut(at, s, Bytes(d))
         /\ \A a \in 1 .. Len(h) : Bytes(d)[a] = h[a]
  <2>1. h \in Seq(Nat) /\ s \in Seq(Seq(Nat))
    BY <1>4, <1>6
  <2>2. \E at \in [Nat -> Nat] : Composed(at, h, s, h \o FlattenSeq(s), Nat)
    BY <2>1, ConcatenatedBehind, Zenon
  <2>. QED BY <1>7, <2>2, Zenon DEF Composed
<1>9. Bytes(d)[3] = Len(d.msgs) /\ Bytes(d)[5] = d.seq
  <2>1. 3 \in 1 .. HDR /\ 5 \in 1 .. HDR
    BY SizeAssumption
  <2>. QED BY <1>6, <1>8, <2>1, Zenon
<1>10. ASSUME NEW k \in 1 .. Len(d.msgs) PROVE MessageAt(at, d, k)
  <2>1. PICK m \in Message : m = d.msgs[k]
    BY <1>2
  <2>2. s[k] = MessageBytes(m)
    BY <1>3, <2>1
  <2>3. Len(s[k]) = Size(m) /\ s[k][1] = m.len /\ s[k][2] = m.type /\ s[k][3] = m.val
    BY <2>2, MessageInBytes
  <2>4. 1 \in 1 .. Size(m) /\ 2 \in 1 .. Size(m) /\ 3 \in 1 .. Size(m)
    <3>1. m.len \in Nat
      BY DEF Message
    <3>2. Size(m) \in Nat /\ Size(m) >= 3
      BY <3>1 DEF Size
    <3>3. \A n \in Nat : n >= 3 => 1 \in 1 .. n /\ 2 \in 1 .. n /\ 3 \in 1 .. n
      OBVIOUS
    <3>. QED BY <3>2, <3>3, Zenon
  <2>5. PartAt(at, s, Bytes(d), k)
    BY <1>4, <1>8, Zenon DEF LaidOut
  <2>6. /\ at[k] = at[k-1] + Size(m) /\ at[k] <= Len(Bytes(d))
        /\ \A a \in 1 .. Size(m) : Bytes(d)[at[k-1] + a] = s[k][a]
    BY <1>8, <2>3, <2>5, Zenon DEF PartAt
  <2>. QED BY <2>1, <2>3, <2>4, <2>6, Zenon DEF MessageAt
<1>. QED BY <1>4, <1>6, <1>8, <1>9, <1>10, Zenon

---------------------------------------------------------------------------
\* A cycle.

LEMMA Compressed ==
    ASSUME NEW b \in Seq(Nat), NEW consume \in Nat
    PROVE  compress_buffer(b, consume) \in Seq(Nat) /\ Len(compress_buffer(b, consume)) <= Len(b)
<1>1. CASE consume + 1 <= Len(b)
  BY <1>1 DEF compress_buffer
<1>2. CASE consume + 1 > Len(b)
  <2>1. SubSeq(b, consume + 1, Len(b)) = <<>>
    BY <1>2
  <2>. QED BY <2>1 DEF compress_buffer
<1>. QED BY <1>1, <1>2

\* What a cycle leaves in the buffer is at most what it put together.
LEMMA CycleShrinks ==
    ASSUME NEW in, Cycle(in), abuf(in) \in Seq(Nat), Len(abuf(in)) <= BUF_BYTES
    PROVE  buffer' \in Seq(Nat) /\ Len(buffer') <= BUF_BYTES
<1>1. <<>> \in Seq(Nat) /\ Len(<<>>) <= BUF_BYTES
  BY SizeAssumption
<1>2. msg_length(in) \in Nat
  BY DEF msg_length, new_uxx_be
<1>3. HDR \in Nat /\ BUF_BYTES \in Nat
  BY SizeAssumption
<1>4. \A n \in Nat : /\ compress_buffer(abuf(in), n) \in Seq(Nat)
                     /\ Len(compress_buffer(abuf(in), n)) <= BUF_BYTES
  <2>1. ASSUME NEW n \in Nat
        PROVE  /\ compress_buffer(abuf(in), n) \in Seq(Nat)
               /\ Len(compress_buffer(abuf(in), n)) <= BUF_BYTES
    <3>1. PICK b \in Seq(Nat) : b = abuf(in)
      OBVIOUS
    <3>2. compress_buffer(b, n) \in Seq(Nat) /\ Len(compress_buffer(b, n)) <= Len(b)
      BY Compressed
    <3>3. Len(compress_buffer(b, n)) \in Nat /\ Len(b) \in Nat /\ Len(b) <= BUF_BYTES
      BY <3>1, <3>2
    <3>. QED BY <1>3, <3>1, <3>2, <3>3
  <2>. QED BY <2>1
<1>5. buffer' \in {<<>>, abuf(in), compress_buffer(abuf(in), HDR), compress_buffer(abuf(in), msg_length(in))}
  BY DEF Cycle, ReadHeader, AwaitHeader, FlushMalformed, ReadMessage, AwaitMessage, KeepBuffering, NextBuffer
<1>. QED BY <1>1, <1>2, <1>3, <1>4, <1>5, Zenon

LEMMA BufferStep == BufferInv /\ [Next]_vars => BufferInv'
<1>. SUFFICES ASSUME BufferInv, [Next]_vars PROVE BufferInv'
  OBVIOUS
<1>1. /\ WORD \in Nat /\ BUF_BYTES \in Nat /\ <<>> \in Seq(Nat) /\ Len(<<>>) = 0
      /\ buffer \in Seq(Nat) /\ Len(buffer) <= BUF_BYTES /\ wire \in Seq(Word)
  BY SizeAssumption DEF BufferInv
<1>2. CASE WordCycle
  <2>1. /\ wire # <<>> /\ wire' = Tail(wire) /\ Cycle(Head(wire))
        /\ Len(buffer) <= BUF_BYTES - WORD
    BY <1>2 DEF WordCycle, ready_for_udp_input
  <2>2. Head(wire) \in Word /\ Tail(wire) \in Seq(Word)
    BY <1>1, <2>1, HeadTailProperties
  <2>3. Head(wire).bytes \in Seq(Nat) /\ Len(Head(wire).bytes) <= WORD
    BY <2>2 DEF Word
  <2>4. abuf(Head(wire)) \in Seq(Nat) /\ Len(abuf(Head(wire))) <= BUF_BYTES
    BY <1>1, <2>1, <2>3 DEF abuf
  <2>. QED BY <2>1, <2>2, <2>4, CycleShrinks DEF BufferInv
<1>3. CASE IdleCycle
  <2>1. Cycle(NoWord) /\ wire' = wire
    BY <1>3 DEF IdleCycle
  <2>2. abuf(NoWord) = buffer
    BY <1>1 DEF abuf, NoWord
  <2>. QED BY <1>1, <2>1, <2>2, CycleShrinks DEF BufferInv
<1>4. CASE LeaveReset
  BY <1>1, <1>4 DEF LeaveReset, BufferInv
<1>5. CASE PressReset
  <2>1. <<>> \in Seq(Word)
    OBVIOUS
  <2>. QED BY <1>1, <1>5, <2>1 DEF PressReset, BufferInv
<1>6. ASSUME NEW d \in Datagrams, Send(d) PROVE BufferInv'
  <2>1. Bytes(d) \in Seq(Nat) /\ buffer' = buffer
    BY <1>6, Layout DEF Send, parser
  <2>2. \A n \in 1 .. Len(Bytes(d)) : SubSeq(Bytes(d), 1, n) \in Seq(Nat)
    BY <2>1
  <2>3. wire' \in Seq(Word)
    <3>1. CASE wire' = Words(Bytes(d), FALSE)
      BY <2>1, <3>1, WordsAreShort
    <3>2. CASE \E n \in 1 .. Len(Bytes(d)) : wire' = Words(SubSeq(Bytes(d), 1, n), TRUE)
      BY <2>2, <3>2, WordsAreShort
    <3>. QED BY <1>6, <3>1, <3>2 DEF Send
  <2>. QED BY <1>1, <2>1, <2>3 DEF BufferInv
<1>7. CASE UNCHANGED vars
  BY <1>7 DEF vars, parser, BufferInv
<1>. QED BY <1>2, <1>3, <1>4, <1>5, <1>6, <1>7 DEF Next, Clock

\* For every size of word, header and buffer, and every feed: the parser's buffer
\* never overflows, not even between the appending of a word and the taking of a
\* message; ready_for_udp_input promises no more than there is room for.
THEOREM BufferNeverOverflows == Spec => []BufferBounded
<1>1. Init => BufferInv
  <2>1. <<>> \in Seq(Nat) /\ <<>> \in Seq(Word) /\ Len(<<>>) = 0
    OBVIOUS
  <2>. QED BY <2>1, SizeAssumption DEF Init, BufferInv
<1>2. BufferInv => BufferBounded
  <2>. SUFFICES ASSUME BufferInv PROVE BufferBounded
    OBVIOUS
  <2>1. ASSUME wire # <<>>, ready_for_udp_input PROVE Len(abuf(Head(wire))) <= BUF_BYTES
    <3>1. Head(wire) \in Word
      BY <2>1, HeadTailProperties DEF BufferInv
    <3>2. Head(wire).bytes \in Seq(Nat) /\ Len(Head(wire).bytes) <= WORD
      BY <3>1 DEF Word
    <3>3. Len(buffer) <= BUF_BYTES - WORD /\ buffer \in Seq(Nat)
      BY <2>1 DEF ready_for_udp_input, BufferInv
    <3>. QED BY <3>2, <3>3, SizeAssumption DEF abuf
  <2>. QED BY <2>1 DEF BufferBounded, BufferInv
<1>. QED BY <1>1, <1>2, BufferStep, PTL DEF Spec

---------------------------------------------------------------------------
\* The stream.  Its bytes F, its messages G, message k from place Start(k) + 1
\* to stop[k], with left[k] messages of its unit to come, itself included; the
\* words on the wire stand between at[w+1], at[w+2] and so on.

Due == [seq : Nat, type : Nat, val : Nat, datagram : Nat]

Start(stop, left, k) == stop[k-1] + IF left[k-1] = 1 THEN HDR ELSE 0

\* Message e is between b and c.
MessageThere(F, e, b, c) ==
    /\ c >= b + 3 /\ (F[b + 1] # 0 => c = b + F[b + 1])
    /\ F[b + 2] = e.type /\ F[b + 3] = e.val

\* Message k: its bytes, and its place in its unit.
Written(F, G, stop, left, k) ==
    /\ MessageThere(F, G[k], Start(stop, left, k), stop[k])
    /\ 1 <= left[k] /\ left[k] <= COUNT_MAX
    /\ left[k-1] = 1 => F[stop[k-1] + 3] = left[k] /\ G[k].seq = F[stop[k-1] + 5] % SEQ_RANGE
    /\ left[k-1] # 1 => /\ left[k] = left[k-1] - 1 /\ G[k].seq = SeqAfter(G[k-1].seq)
                        /\ G[k].datagram = G[k-1].datagram

Script(F, G, stop, left, m, top) ==
    /\ left[top] = 1
    /\ \A k \in m + 1 .. top : Written(F, G, stop, left, k) /\ stop[k] <= stop[top]

Queue(G, q, m, top) ==
    /\ q \in Seq(Due) /\ top = m + Len(q)
    /\ \A j \in 1 .. Len(q) : q[j] = G[m + j]

\* The bytes buf stand between b and c.
HeldAt(F, buf, b, c) ==
    /\ buf \in Seq(Nat) /\ c = b + Len(buf)
    /\ \A a \in 1 .. Len(buf) : buf[a] = F[b + a]

\* The words ws are what follows at[w+1]; only a bad end of frame stops before to.
Arriving(F, at, ws, w, to) ==
    /\ \A i \in 1 .. Len(ws) + 1 : at[w + i] <= to
    /\ \A i \in 1 .. Len(ws) : /\ HeldAt(F, ws[i].bytes, at[w + i], at[w + (i + 1)])
                               /\ ws[i].eof_bad => i = Len(ws)
    /\ at[w + (Len(ws) + 1)] = to \/ (Len(ws) # 0 /\ ws[Len(ws)].eof_bad)

\* The parser has taken b bytes and m messages: between messages of a unit its
\* registers are those of the next message.
Placed(G, stop, left, m, top, b) ==
    /\ state = "ReadMsg" => /\ b = Start(stop, left, m + 1) /\ m < top
                            /\ total_counter = left[m + 1] /\ next_seq_no = G[m + 1].seq
                            /\ G[m + 1].datagram <= recv_time_r
    /\ state # "ReadMsg" => b = stop[m] /\ left[m] = 1

\* A datagram later than the last word's has no byte before c.
Timely(G, stop, left, m, top, c) ==
    \A k \in m + 1 .. top :
        /\ G[k].datagram <= datagrams
        /\ left[k-1] = 1 /\ G[k].datagram > recv_time_r => stop[k-1] >= c

held == IF state = "Reset" THEN <<>> ELSE buffer

Ghosts(F, G, stop, left, at, m, top, w, b) ==
    /\ F \in [Nat -> Nat] /\ G \in [Nat -> Due] /\ stop \in [Nat -> Nat] /\ left \in [Nat -> Nat]
    /\ at \in [Nat -> Nat] /\ m \in Nat /\ top \in Nat /\ w \in Nat /\ b \in Nat

Stream(F, G, stop, left, at, m, top, w, b) ==
    /\ Ghosts(F, G, stop, left, at, m, top, w, b)
    /\ Script(F, G, stop, left, m, top) /\ Queue(G, due, m, top)
    /\ HeldAt(F, held, b, at[w + 1]) /\ Arriving(F, at, wire, w, stop[top])
    /\ Placed(G, stop, left, m, top, b) /\ Timely(G, stop, left, m, top, at[w + 1])

Streams == \E F, G, stop, left, at, m, top, w, b : Stream(F, G, stop, left, at, m, top, w, b)

StreamInv ==
    /\ BufferInv /\ recv_time_r \in Nat /\ datagrams \in Nat /\ recv_time_r <= datagrams
    /\ state \in {"Noop", "Reset", "ReadHdr", "ReadMsg"}
    /\ ~flushed => seconds_r = clock /\ Streams

\* The end of a datagram marked bad, a reset and the power-up leave a stream of
\* nothing.
Drained == due = <<>> /\ wire = <<>> /\ held = <<>> /\ state # "ReadMsg"

LEMMA NothingLeft == Drained => Streams
<1>. SUFFICES ASSUME due = <<>>, wire = <<>>, held = <<>>, state # "ReadMsg" PROVE Streams
  BY DEF Drained
<1>1. PICK F \in [Nat -> Nat], left \in [Nat -> Nat], G \in [Nat -> Due] :
         F = [k \in Nat |-> 0] /\ left = [k \in Nat |-> 1]
         /\ G = [k \in Nat |-> [seq |-> 0, type |-> 0, val |-> 0, datagram |-> 0]]
  BY DEF Due
<1>2. Ghosts(F, G, F, left, F, 0, 0, 0, 0)
  BY DEF Ghosts
<1>3. F[0] = 0 /\ F[1] = 0 /\ left[0] = 1
  BY <1>1
<1>4. Len(<<>>) = 0 /\ <<>> \in Seq(Nat) /\ <<>> \in Seq(Due)
  OBVIOUS
<1>5. Script(F, G, F, left, 0, 0)
  BY <1>3 DEF Script
<1>6. Queue(G, due, 0, 0)
  BY <1>4 DEF Queue
<1>7. HeldAt(F, held, 0, F[0 + 1])
  BY <1>3, <1>4 DEF HeldAt
<1>8. Arriving(F, F, wire, 0, F[0])
  BY <1>3, <1>4 DEF Arriving
<1>9. Placed(G, F, left, 0, 0, 0)
  BY <1>3 DEF Placed
<1>10. Timely(G, F, left, 0, 0, F[0 + 1])
  BY DEF Timely
<1>11. Stream(F, G, F, left, F, 0, 0, 0, 0)
  BY <1>2, <1>5, <1>6, <1>7, <1>8, <1>9, <1>10 DEF Stream
<1>. QED BY <1>11 DEF Streams

---------------------------------------------------------------------------
\* A cycle and the stream.

LEMMA HeldJoins ==
    ASSUME NEW F, NEW u, NEW v, NEW b \in Nat, NEW c \in Nat, NEW c2 \in Nat,
           HeldAt(F, u, b, c), HeldAt(F, v, c, c2)
    PROVE  HeldAt(F, u \o v, b, c2)
<1>1. u \in Seq(Nat) /\ v \in Seq(Nat) /\ c = b + Len(u) /\ c2 = c + Len(v)
  BY DEF HeldAt
<1>20. PICK z : z = u \o v
  OBVIOUS
<1>2. PICK x \in Nat, y \in Nat : z = u \o v /\ x = Len(u) /\ y = Len(v)
  BY <1>1, <1>20, LenProperties, Zenon
<1>3. /\ z \in Seq(Nat) /\ Len(z) = x + y
      /\ \A a \in 1 .. x : z[a] = u[a]
      /\ \A a \in 1 .. y : z[x + a] = v[a]
  BY <1>1, <1>2, Joined
<1>4. ASSUME NEW a \in 1 .. x + y PROVE z[a] = F[b + a]
  <2>1. CASE a \in 1 .. x
    BY <1>2, <1>3, <2>1 DEF HeldAt
  <2>2. CASE a \notin 1 .. x
    <3>1. PICK e \in 1 .. y : a = x + e
      <4>1. a - x \in 1 .. y /\ a = x + (a - x)
        BY <2>2
      <4>. QED BY <4>1
    <3>2. z[a] = v[e] /\ v[e] = F[c + e]
      BY <1>2, <1>3, <3>1 DEF HeldAt
    <3>3. c + e = b + a
      BY <1>1, <1>2, <3>1
    <3>. QED BY <3>2, <3>3
  <2>. QED BY <2>1, <2>2
<1>5. c2 = b + Len(z)
  BY <1>1, <1>2, <1>3
<1>. QED BY <1>2, <1>3, <1>4, <1>5 DEF HeldAt

LEMMA HeldLess ==
    ASSUME NEW F, NEW u, NEW b \in Nat, NEW c \in Nat, NEW n \in Nat, HeldAt(F, u, b, c), n <= Len(u)
    PROVE  HeldAt(F, compress_buffer(u, n), b + n, c)
<1>1. u \in Seq(Nat) /\ c = b + Len(u) /\ Len(u) \in Nat
  BY DEF HeldAt
<1>20. PICK z : z = compress_buffer(u, n)
  OBVIOUS
<1>2. PICK x \in Nat : z = compress_buffer(u, n) /\ x = Len(u)
  BY <1>1, <1>20
<1>3. z \in Seq(Nat) /\ Len(z) = x - n /\ \A a \in 1 .. x - n : z[a] = u[n + a]
  BY <1>1, <1>2, SubSeqProperties DEF compress_buffer
<1>4. ASSUME NEW a \in 1 .. x - n PROVE z[a] = F[(b + n) + a]
  <2>1. n + a \in 1 .. x /\ b + (n + a) = (b + n) + a
    BY <1>2
  <2>2. u[n + a] = F[b + (n + a)]
    BY <1>2, <2>1 DEF HeldAt
  <2>. QED BY <1>3, <2>1, <2>2
<1>5. c = (b + n) + (x - n)
  BY <1>1, <1>2
<1>. QED BY <1>2, <1>3, <1>4, <1>5 DEF HeldAt

LEMMA HeldFields ==
    ASSUME NEW F, NEW in, NEW b \in Nat, NEW c \in Nat, HeldAt(F, abuf(in), b, c)
    PROVE  /\ Len(abuf(in)) >= 2 => new_uxx_be(in, 0) = F[b + 1] /\ new_uxx_be(in, 1) = F[b + 2]
           /\ Len(abuf(in)) >= 3 => new_uxx_be(in, 2) = F[b + 3]
           /\ Len(abuf(in)) >= 5 => new_uxx_be(in, 4) = F[b + 5]
<1>10. PICK u : u = abuf(in)
  OBVIOUS
<1>1. PICK len \in Nat : len = Len(u) /\ u = abuf(in)
  BY <1>10, LenProperties, Zenon DEF HeldAt
<1>2. \A a \in 1 .. len : u[a] = F[b + a]
  BY <1>1, Zenon DEF HeldAt
<1>3. \A n \in Nat : n < len => new_uxx_be(in, n) = u[n + 1]
  BY <1>1 DEF new_uxx_be
<1>4. len >= 2 => new_uxx_be(in, 0) = F[b + 1] /\ new_uxx_be(in, 1) = F[b + 2]
  BY <1>2, <1>3
<1>5. len >= 3 => new_uxx_be(in, 2) = F[b + 3]
  BY <1>2, <1>3
<1>6. len >= 5 => new_uxx_be(in, 4) = F[b + 5]
  BY <1>2, <1>3
<1>. QED BY <1>1, <1>4, <1>5, <1>6, Zenon

\* The cycle reads message e, between b and q.
Reads(in, e, b, q) ==
    /\ msg_length(in) \in Nat /\ msg_length(in) <= Len(abuf(in)) /\ q = b + msg_length(in)
    /\ msg_type(in) = e.type /\ new_uxx_be(in, 2) = e.val

\* The message of a ready cycle is the next one of the stream.
LEMMA MessageHere ==
    ASSUME NEW F \in [Nat -> Nat], NEW e, NEW q \in Nat, NEW b \in Nat, NEW c \in Nat, NEW in
    PROVE  MessageThere(F, e, b, q) /\ HeldAt(F, abuf(in), b, c) /\ msg_ready(in)
           => Reads(in, e, b, q)
<1>. SUFFICES ASSUME MessageThere(F, e, b, q), HeldAt(F, abuf(in), b, c), msg_ready(in)
              PROVE  Reads(in, e, b, q)
  OBVIOUS
<1>1. Len(abuf(in)) \in Nat /\ Len(abuf(in)) >= 2 /\ msg_length(in) # 0 /\ msg_length(in) <= Len(abuf(in))
  BY DEF msg_ready, msg_malformed, msg_known, HeldAt
<1>2. msg_length(in) = F[b + 1] /\ msg_type(in) = F[b + 2]
  BY <1>1, HeldFields, Zenon DEF msg_length, msg_type
<1>3. F[b + 1] \in Nat
  OBVIOUS
<1>4. q = b + F[b + 1] /\ q >= b + 3 /\ F[b + 2] = e.type /\ F[b + 3] = e.val
  BY <1>1, <1>2, Zenon DEF MessageThere
<1>5. 2 < Len(abuf(in))
  <2>1. PICK x \in Nat, len \in Nat : x = F[b + 1] /\ len = Len(abuf(in))
    BY <1>1, <1>3
  <2>2. x <= len /\ q = b + x /\ q >= b + 3
    BY <1>1, <1>2, <1>4, <2>1, Zenon
  <2>3. 2 < len
    BY <2>2
  <2>. QED BY <2>1, <2>3
<1>6. new_uxx_be(in, 2) = F[b + 3]
  <2>1. Len(abuf(in)) >= 3
    BY <1>1, <1>5
  <2>. QED BY <2>1, HeldFields
<1>. QED BY <1>1, <1>2, <1>3, <1>4, <1>6 DEF Reads

\* What a cycle works on: the stream with the word taken.
Input(F, G, stop, left, at, m, top, w, b, in) ==
    /\ Ghosts(F, G, stop, left, at, m, top, w, b)
    /\ Script(F, G, stop, left, m, top) /\ Queue(G, due, m, top)
    /\ HeldAt(F, abuf(in), b, at[w + 1]) /\ (~in.eof_bad => Arriving(F, at, wire', w, stop[top]))
    /\ Placed(G, stop, left, m, top, b) /\ Timely(G, stop, left, m, top, at[w + 1])'
    /\ at[w + 1] <= stop[top]
    /\ in.eof_bad \in BOOLEAN /\ (in.eof_bad => wire' = <<>>)
    /\ recv_time_r \in Nat /\ recv_time_r' \in Nat /\ recv_time_r <= recv_time_r' /\ seconds_r = clock

\* A flush by a bad end of frame.
LEMMA BadEnd == Drained' => Streams'
  BY NothingLeft, PTL

\* Taking a message takes the next one off the stream.
LEMMA MessageTaken ==
    ASSUME NEW F, NEW G, NEW stop, NEW left, NEW at, NEW m, NEW top, NEW w, NEW b, NEW in,
           Input(F, G, stop, left, at, m, top, w, b, in), ReadMessage(in)
    PROVE  /\ seconds_r' = clock' /\ Streams' /\ due # <<>>
           /\ msg_type(in) = Head(due).type /\ new_uxx_be(in, 2) = Head(due).val
           /\ next_seq_no = Head(due).seq /\ seconds_r = clock /\ recv_time_r >= Head(due).datagram
<1>1. /\ F \in [Nat -> Nat] /\ G \in [Nat -> Due] /\ stop \in [Nat -> Nat] /\ left \in [Nat -> Nat]
      /\ at \in [Nat -> Nat] /\ m \in Nat /\ top \in Nat /\ w \in Nat /\ b \in Nat
  BY DEF Input, Ghosts
<1>. DEFINE e == G[m + 1]
<1>0. state = "ReadMsg" /\ Placed(G, stop, left, m, top, b)
  BY DEF Input, ReadMessage
<1>2. m < top /\ total_counter = left[m + 1]
  BY <1>0 DEF Placed
<1>01. b = Start(stop, left, m + 1)
  BY <1>0 DEF Placed
<1>02. next_seq_no = e.seq /\ e.datagram <= recv_time_r
  BY <1>0 DEF Placed
<1>3. /\ m + 1 \in m + 1 .. top /\ m + 1 \in Nat /\ stop[m + 1] \in Nat /\ left[m + 1] \in Nat
      /\ e \in Due /\ at[w + 1] \in Nat
  BY <1>1, <1>2
<1>4. Written(F, G, stop, left, m + 1) /\ left[top] = 1
  BY <1>3 DEF Input, Script
<1>41. left[m + 1] \in Nat /\ 1 <= left[m + 1] /\ left[m + 1] <= COUNT_MAX
  BY <1>3, <1>4 DEF Written
<1>. HIDE DEF e
<1>5. /\ msg_length(in) \in Nat /\ msg_length(in) <= Len(abuf(in)) /\ stop[m + 1] = b + msg_length(in)
      /\ msg_type(in) = e.type /\ new_uxx_be(in, 2) = e.val
  <2>1. MessageThere(F, e, Start(stop, left, m + 1), stop[m + 1])
    BY <1>4 DEF Written, e
  <2>2. msg_ready(in) /\ HeldAt(F, abuf(in), b, at[w + 1])
    BY DEF ReadMessage, Input
  <2>3. MessageThere(F, e, b, stop[m + 1])
    BY <1>01, <2>1, Zenon
  <2>4. PICK q \in Nat, c \in Nat : q = stop[m + 1] /\ c = at[w + 1]
    BY <1>3
  <2>5. MessageThere(F, e, b, q) /\ HeldAt(F, abuf(in), b, c)
    BY <2>2, <2>3, <2>4, Zenon
  <2>6. F \in [Nat -> Nat] /\ b \in Nat
    BY <1>1
  <2>7. Reads(in, e, b, q)
    BY <2>2, <2>5, <2>6, MessageHere, Zenon
  <2>. QED BY <2>4, <2>7, Zenon DEF Reads
<1>6. /\ due \in Seq(Due) /\ top = m + Len(due) /\ Len(due) \in Nat /\ Len(due) >= 1
      /\ \A j \in 1 .. Len(due) : due[j] = G[m + j]
  <2>1. due \in Seq(Due) /\ top = m + Len(due) /\ \A j \in 1 .. Len(due) : due[j] = G[m + j]
    BY DEF Input, Queue
  <2>2. Len(due) \in Nat
    BY <2>1, LenProperties, Zenon
  <2>3. Len(due) >= 1
    BY <1>1, <1>2, <2>1, <2>2
  <2>. QED BY <2>1, <2>2, <2>3, Zenon
<1>7. due # <<>> /\ Head(due) = e
  BY <1>6 DEF e
<1>8. seconds_r' = clock'
  BY <1>5, <1>7 DEF ReadMessage, Input
<1>9. Streams'
  <2>1. CASE in.eof_bad
    <3>1. state' = "ReadHdr" /\ buffer' = <<>> /\ due' = <<>> /\ wire' = <<>>
      BY <2>1 DEF ReadMessage, NextState, NextBuffer, Settle, Input
    <3>. QED BY <3>1, BadEnd DEF Drained, held
  <2>2. CASE ~in.eof_bad
    <3>1. /\ state' = IF total_counter <= 1 THEN "ReadHdr" ELSE "ReadMsg"
          /\ buffer' = compress_buffer(abuf(in), msg_length(in)) /\ due' = Tail(due)
          /\ next_seq_no' = SeqAfter(next_seq_no) /\ total_counter' = (total_counter + 65535) % 65536
      BY <1>7, <2>2 DEF ReadMessage, NextState, NextBuffer, Settle, UnitOver
    <3>2. Ghosts(F, G, stop, left, at, m + 1, top, w, stop[m + 1])
      BY <1>1, <1>3 DEF Ghosts
    <3>3. Script(F, G, stop, left, m + 1, top)
      <4>1. \A k \in (m + 1) + 1 .. top : k \in m + 1 .. top
        BY <1>1
      <4>. QED BY <4>1 DEF Input, Script
    <3>4. Queue(G, due', m + 1, top)
      <4>1. PICK t : t = Tail(due)
        OBVIOUS
      <4>2. t \in Seq(Due) /\ Len(t) = Len(due) - 1 /\ \A j \in 1 .. Len(t) : t[j] = due[j + 1]
        BY <1>6, <4>1
      <4>3. \A j \in 1 .. Len(t) : j + 1 \in 1 .. Len(due) /\ m + (j + 1) = (m + 1) + j
        BY <1>1, <1>6, <4>2
      <4>4. top = (m + 1) + Len(t)
        BY <1>1, <1>6, <4>2
      <4>5. \A j \in 1 .. Len(t) : t[j] = G[(m + 1) + j]
        BY <1>6, <4>2, <4>3
      <4>6. Queue(G, t, m + 1, top)
        BY <4>2, <4>4, <4>5, Zenon DEF Queue
      <4>. QED BY <3>1, <4>1, <4>6
    <3>5. HeldAt(F, held', stop[m + 1], at[w + 1])
      <4>1. HeldAt(F, compress_buffer(abuf(in), msg_length(in)), b + msg_length(in), at[w + 1])
        BY <1>1, <1>3, <1>5, HeldLess DEF Input
      <4>2. held' = compress_buffer(abuf(in), msg_length(in))
        BY <3>1 DEF held
      <4>. QED BY <1>5, <4>1, <4>2, Zenon
    <3>6. Placed(G, stop, left, m + 1, top, stop[m + 1])'
      <4>1. CASE total_counter <= 1
        <5>1. left[m + 1] = 1
          BY <1>2, <1>41, <4>1
        <5>. QED BY <3>1, <4>1, <5>1 DEF Placed
      <4>2. CASE ~(total_counter <= 1)
        <5>1. left[m + 1] # 1 /\ left[m + 1] >= 1 /\ left[m + 1] <= COUNT_MAX /\ m + 1 # top
          BY <1>2, <1>4, <1>41, <4>2
        <5>2. m + 2 \in m + 1 .. top /\ m + 2 = (m + 1) + 1 /\ (m + 2) - 1 = m + 1 /\ m + 2 \in Nat
          BY <1>1, <1>2, <5>1
        <5>3. Written(F, G, stop, left, m + 2)
          BY <5>2 DEF Input, Script
        <5>4. /\ left[m + 2] = left[m + 1] - 1 /\ G[m + 2].seq = SeqAfter(e.seq)
              /\ G[m + 2].datagram = e.datagram
          BY <5>1, <5>2, <5>3 DEF Written, e
        <5>5. total_counter' = left[m + 2]
          <6>1. \A t \in Nat : t >= 1 /\ t <= COUNT_MAX => (t + 65535) % 65536 = t - 1
            BY SMT DEF COUNT_MAX
          <6>2. total_counter' = left[m + 1] - 1
            BY <1>2, <1>41, <3>1, <6>1
          <6>. QED BY <5>4, <6>2
        <5>6. next_seq_no' = G[m + 2].seq
          BY <1>02, <3>1, <5>4
        <5>7. stop[m + 1] = Start(stop, left, m + 2)
          BY <1>3, <5>1, <5>2 DEF Start
        <5>8. G[m + 2].datagram <= recv_time_r'
          <6>1. e.datagram \in Nat
            BY <1>3 DEF Due
          <6>. QED BY <1>02, <5>4, <6>1 DEF Input
        <5>9. m + 1 < top
          BY <1>1, <1>2, <5>1
        <5>. QED BY <3>1, <4>2, <5>2, <5>5, <5>6, <5>7, <5>8, <5>9 DEF Placed
      <4>. QED BY <4>1, <4>2
    <3>7. Timely(G, stop, left, m + 1, top, at[w + 1])'
      <4>1. \A k \in (m + 1) + 1 .. top : k \in m + 1 .. top
        BY <1>1
      <4>. QED BY <4>1 DEF Input, Timely
    <3>8. Stream(F, G, stop, left, at, m + 1, top, w, stop[m + 1])'
      BY <2>2, <3>2, <3>3, <3>4, <3>5, <3>6, <3>7 DEF Stream, Input
    <3>. QED BY <3>8 DEF Streams
  <2>. QED BY <2>1, <2>2 DEF Input
<1>10. seconds_r = clock /\ recv_time_r >= e.datagram
  BY <1>02, <1>3 DEF Input, Due
<1>. QED BY <1>02, <1>5, <1>7, <1>8, <1>9, <1>10, Zenon

\* Reading a header leads to the first message of its unit.
LEMMA HeaderTaken ==
    ASSUME NEW F, NEW G, NEW stop, NEW left, NEW at, NEW m, NEW top, NEW w, NEW b, NEW in,
           Input(F, G, stop, left, at, m, top, w, b, in), ReadHeader(in)
    PROVE  seconds_r' = clock' /\ Streams'
<1>1. /\ F \in [Nat -> Nat] /\ G \in [Nat -> Due] /\ stop \in [Nat -> Nat] /\ left \in [Nat -> Nat]
      /\ at \in [Nat -> Nat] /\ m \in Nat /\ top \in Nat /\ w \in Nat /\ b \in Nat
  BY DEF Input, Ghosts
<1>2. b = stop[m] /\ left[m] = 1 /\ Len(abuf(in)) >= HDR /\ HDR \in Nat /\ HDR >= 5
  BY SizeAssumption DEF Input, Placed, ReadHeader, hdr_ready
<1>3. PICK c \in Nat, e \in Nat : c = at[w + 1] /\ e = stop[top]
  BY <1>1
<1>4. HeldAt(F, abuf(in), b, c) /\ c <= e
  BY <1>3 DEF Input
<1>5. Len(abuf(in)) \in Nat /\ c = b + Len(abuf(in))
  <2>1. Len(abuf(in)) \in Nat
    BY <1>4, LenProperties, Zenon DEF HeldAt
  <2>. QED BY <1>4, <2>1 DEF HeldAt
<1>6. seconds_r' = clock'
  BY DEF ReadHeader, Input
<1>7. CASE in.eof_bad
  <2>1. state' = "ReadHdr" /\ buffer' = <<>> /\ due' = <<>> /\ wire' = <<>>
    BY <1>7 DEF ReadHeader, NextState, NextBuffer, Settle, Input
  <2>. QED BY <1>6, <2>1, BadEnd DEF Drained, held
<1>8. CASE ~in.eof_bad
  <2>1. /\ state' = "ReadMsg" /\ buffer' = compress_buffer(abuf(in), HDR) /\ due' = due
        /\ total_counter' = new_uxx_be(in, 2) /\ next_seq_no' = new_uxx_be(in, 4) % SEQ_RANGE
    BY <1>8 DEF ReadHeader, NextState, NextBuffer, Settle
  <2>2. m < top
    <3>1. m <= top
      <4>1. Len(due) \in Nat
        BY LenProperties, Zenon DEF Input, Queue
      <4>. QED BY <1>1, <4>1 DEF Input, Queue
    <3>2. m # top
      BY <1>2, <1>3, <1>4, <1>5
    <3>. QED BY <1>1, <3>1, <3>2
  <2>3. m + 1 \in m + 1 .. top /\ m + 1 \in Nat /\ (m + 1) - 1 = m /\ G[m + 1] \in Due
    BY <1>1, <2>2
  <2>4. left[m + 1] = F[b + 3] /\ G[m + 1].seq = F[b + 5] % SEQ_RANGE
    <3>1. Written(F, G, stop, left, m + 1)
      BY <2>3 DEF Input, Script
    <3>. QED BY <1>2, <2>3, <3>1 DEF Written
  <2>5. total_counter' = left[m + 1] /\ next_seq_no' = G[m + 1].seq
    <3>1. Len(abuf(in)) >= 3 /\ Len(abuf(in)) >= 5
      BY <1>2, <1>5
    <3>2. new_uxx_be(in, 2) = F[b + 3] /\ new_uxx_be(in, 4) = F[b + 5]
      BY <1>1, <1>4, <3>1, HeldFields
    <3>. QED BY <2>1, <2>4, <3>2
  <2>6. G[m + 1].datagram <= recv_time_r'
    <3>1. left[m] = 1 /\ G[m + 1].datagram > recv_time_r' => stop[m] >= c
      BY <1>3, <2>3 DEF Input, Timely
    <3>2. ~(stop[m] >= c)
      BY <1>2, <1>5, <1>1
    <3>3. G[m + 1].datagram \in Nat /\ recv_time_r' \in Nat
      BY <2>3 DEF Due, Input
    <3>. QED BY <1>2, <3>1, <3>2, <3>3
  <2>. DEFINE b2 == b + HDR
  <2>7. b2 \in Nat /\ b2 = Start(stop, left, m + 1)
    <3>1. Start(stop, left, m + 1) = stop[m] + IF left[m] = 1 THEN HDR ELSE 0
      BY <2>3, Zenon DEF Start
    <3>2. Start(stop, left, m + 1) = b + HDR
      BY <1>2, <3>1
    <3>3. b + HDR \in Nat
      <4>1. \A x, y \in Nat : x + y \in Nat
        OBVIOUS
      <4>. QED BY <1>1, <1>2, <4>1, Zenon
    <3>. QED BY <3>2, <3>3, Zenon
  <2>. HIDE DEF b2
  <2>8. Ghosts(F, G, stop, left, at, m, top, w, b2)
    BY <1>1, <2>7 DEF Ghosts
  <2>9. Queue(G, due', m, top)
    BY <2>1 DEF Input
  <2>10. HeldAt(F, held', b2, at[w + 1])
    <3>1. HeldAt(F, compress_buffer(abuf(in), HDR), b + HDR, c)
      BY <1>1, <1>2, <1>4, <1>5, HeldLess
    <3>2. held' = compress_buffer(abuf(in), HDR)
      BY <2>1 DEF held
    <3>. QED BY <1>3, <3>1, <3>2, Zenon DEF b2
  <2>11. Placed(G, stop, left, m, top, b2)'
    BY <2>1, <2>2, <2>5, <2>6, <2>7 DEF Placed
  <2>12. Stream(F, G, stop, left, at, m, top, w, b2)'
    BY <1>8, <2>8, <2>9, <2>10, <2>11 DEF Stream, Input
  <2>. QED BY <1>6, <2>12 DEF Streams
<1>. QED BY <1>7, <1>8 DEF Input

\* A cycle that takes nothing only adds to the buffer.
LEMMA NothingTaken ==
    ASSUME NEW F, NEW G, NEW stop, NEW left, NEW at, NEW m, NEW top, NEW w, NEW b, NEW in,
           Input(F, G, stop, left, at, m, top, w, b, in),
           AwaitHeader(in) \/ AwaitMessage(in) \/ KeepBuffering(in)
    PROVE  seconds_r' = clock' /\ Streams'
<1>1. /\ state # "Reset" /\ NextState(in, state) /\ NextBuffer(in, abuf(in)) /\ Settle(in, due)
      /\ total_counter' = total_counter /\ next_seq_no' = next_seq_no
      /\ seconds_r' = seconds_r /\ clock' = clock
  BY DEF AwaitHeader, AwaitMessage, KeepBuffering
<1>2. seconds_r' = clock'
  BY <1>1 DEF Input
<1>3. CASE in.eof_bad
  <2>1. state' = "ReadHdr" /\ buffer' = <<>> /\ due' = <<>> /\ wire' = <<>>
    BY <1>1, <1>3 DEF NextState, NextBuffer, Settle, Input
  <2>. QED BY <1>2, <2>1, BadEnd DEF Drained, held
<1>4. CASE ~in.eof_bad
  <2>1. state' = state /\ held' = abuf(in) /\ due' = due
    BY <1>1, <1>4 DEF NextState, NextBuffer, Settle, held
  <2>2. Placed(G, stop, left, m, top, b)'
    <3>1. CASE state = "ReadMsg"
      <4>1. m + 1 \in Nat /\ G \in [Nat -> Due]
        BY DEF Input, Ghosts
      <4>2. G[m + 1].datagram \in Nat
        BY <4>1 DEF Due
      <4>3. G[m + 1].datagram <= recv_time_r'
        BY <3>1, <4>2 DEF Input, Placed
      <4>. QED BY <1>1, <2>1, <3>1, <4>3 DEF Input, Placed
    <3>2. CASE state # "ReadMsg"
      BY <1>1, <2>1, <3>2 DEF Input, Placed
    <3>. QED BY <3>1, <3>2
  <2>3. Stream(F, G, stop, left, at, m, top, w, b)'
    BY <1>4, <2>1, <2>2 DEF Stream, Input
  <2>. QED BY <1>2, <2>3 DEF Streams
<1>. QED BY <1>3, <1>4 DEF Input

LEMMA CycleKeeps ==
    ASSUME NEW F, NEW G, NEW stop, NEW left, NEW at, NEW m, NEW top, NEW w, NEW b, NEW in,
           Input(F, G, stop, left, at, m, top, w, b, in), Cycle(in), ~flushed'
    PROVE  seconds_r' = clock' /\ Streams'
<1>1. ~FlushMalformed(in)
  BY DEF FlushMalformed
<1>. QED BY <1>1, MessageTaken, HeaderTaken, NothingTaken, Zenon DEF Cycle

---------------------------------------------------------------------------
\* The steps.

LEMMA ArrivingTail ==
    ASSUME NEW F, NEW at \in [Nat -> Nat], NEW ws \in Seq(Word), NEW w \in Nat, NEW to \in Nat,
           Arriving(F, at, ws, w, to), ws # <<>>
    PROVE  /\ ~Head(ws).eof_bad => Arriving(F, at, Tail(ws), w + 1, to)
           /\ HeldAt(F, Head(ws).bytes, at[w + 1], at[(w + 1) + 1])
           /\ Head(ws).eof_bad \in BOOLEAN /\ (Head(ws).eof_bad => Tail(ws) = <<>>)
           /\ at[(w + 1) + 1] <= to
<1>0. Len(ws) \in Nat /\ Len(ws) # 0
  BY LenProperties, EmptySeq, Zenon
<1>00. PICK t : t = Tail(ws)
  OBVIOUS
<1>1. PICK n \in Nat : n = Len(ws) /\ t = Tail(ws)
  BY <1>0, <1>00, Zenon
<1>01. n >= 1
  BY <1>0, <1>1
<1>2. t \in Seq(Word) /\ Len(t) = n - 1 /\ \A i \in 1 .. n - 1 : t[i] = ws[i + 1]
  BY <1>1, <1>01
<1>3. \A i \in 1 .. n - 1 : i + 1 \in 1 .. n /\ (w + 1) + i = w + (i + 1) /\ (w + 1) + (i + 1) = w + ((i + 1) + 1)
  BY <1>01
<1>4. /\ \A i \in 1 .. n + 1 : at[w + i] <= to
      /\ \A i \in 1 .. n : HeldAt(F, ws[i].bytes, at[w + i], at[w + (i + 1)])
      /\ \A i \in 1 .. n : ws[i].eof_bad => i = n
      /\ at[w + (n + 1)] = to \/ (n # 0 /\ ws[n].eof_bad)
  BY <1>1 DEF Arriving
<1>5. ASSUME NEW i \in 1 .. n - 1
      PROVE  HeldAt(F, t[i].bytes, at[(w + 1) + i], at[(w + 1) + (i + 1)]) /\ (t[i].eof_bad => i = n - 1)
  <2>1. HeldAt(F, ws[i + 1].bytes, at[w + (i + 1)], at[w + ((i + 1) + 1)])
    BY <1>3, <1>4
  <2>2. ws[i + 1].eof_bad => i + 1 = n
    BY <1>3, <1>4
  <2>. QED BY <1>1, <1>2, <1>3, <2>1, <2>2
<1>6. \A i \in 1 .. (n - 1) + 1 : at[(w + 1) + i] <= to
  <2>1. ASSUME NEW i \in 1 .. (n - 1) + 1 PROVE at[(w + 1) + i] <= to
    <3>1. i + 1 \in 1 .. n + 1 /\ (w + 1) + i = w + (i + 1)
      BY <1>01
    <3>. QED BY <1>4, <3>1
  <2>. QED BY <2>1
<1>7. ASSUME ~Head(ws).eof_bad
      PROVE  at[(w + 1) + ((n - 1) + 1)] = to \/ (n - 1 # 0 /\ t[n - 1].eof_bad)
  <2>1. (w + 1) + ((n - 1) + 1) = w + (n + 1)
    BY <1>01
  <2>2. ws[1] = Head(ws)
    BY <1>1
  <2>3. CASE n = 1
    BY <1>4, <1>7, <2>1, <2>2, <2>3
  <2>4. CASE n # 1
    <3>1. n - 1 \in 1 .. n - 1 /\ n - 1 # 0 /\ (n - 1) + 1 = n
      BY <1>01, <2>4
    <3>. QED BY <1>2, <1>4, <2>1, <3>1
  <2>. QED BY <2>3, <2>4
<1>8. ws[1] = Head(ws) /\ 1 \in 1 .. n /\ 1 + 1 \in 1 .. n + 1 /\ w + (1 + 1) = (w + 1) + 1
  BY <1>01
<1>9. Head(ws) \in Word /\ Head(ws).eof_bad \in BOOLEAN
  <2>1. Head(ws) \in Word
    BY HeadTailProperties, Zenon
  <2>. QED BY <2>1 DEF Word
<1>10. HeldAt(F, Head(ws).bytes, at[w + 1], at[(w + 1) + 1]) /\ at[(w + 1) + 1] <= to
  BY <1>4, <1>8
<1>11. Head(ws).eof_bad => t = <<>>
  <2>1. Head(ws).eof_bad => n = 1
    BY <1>4, <1>8
  <2>2. n = 1 => Len(t) = 0
    BY <1>2
  <2>3. Len(t) = 0 => t = <<>>
    BY <1>2, EmptySeq, Zenon
  <2>. QED BY <2>1, <2>2, <2>3
<1>12. ~Head(ws).eof_bad => Arriving(F, at, t, w + 1, to)
  <2>1. n - 1 = Len(t) /\ Len(t) \in Nat
    BY <1>1, <1>2
  <2>. QED BY <1>5, <1>6, <1>7, <2>1 DEF Arriving
<1>. QED BY <1>1, <1>9, <1>10, <1>11, <1>12

\* A word taken, or none, is the input of a cycle.
LEMMA WordTaken ==
    ASSUME NEW F, NEW G, NEW stop, NEW left, NEW at, NEW m, NEW top, NEW w, NEW b,
           Stream(F, G, stop, left, at, m, top, w, b), StreamInv, ~flushed, WordCycle
    PROVE  Input(F, G, stop, left, at, m, top, w + 1, b, Head(wire))
<1>1. /\ F \in [Nat -> Nat] /\ G \in [Nat -> Due] /\ stop \in [Nat -> Nat] /\ left \in [Nat -> Nat]
      /\ at \in [Nat -> Nat] /\ m \in Nat /\ top \in Nat /\ w \in Nat /\ b \in Nat
  BY DEF Stream, Ghosts
<1>2. /\ wire # <<>> /\ wire' = Tail(wire) /\ recv_time_r' = datagrams /\ datagrams' = datagrams
      /\ held = buffer
  BY DEF WordCycle, ready_for_udp_input, ds_timestamp, held
<1>3. wire \in Seq(Word) /\ recv_time_r \in Nat /\ datagrams \in Nat /\ recv_time_r <= datagrams
  BY DEF StreamInv, BufferInv
<1>4. PICK c \in Nat, c2 \in Nat, e \in Nat : c = at[w + 1] /\ c2 = at[(w + 1) + 1] /\ e = stop[top]
  <2>1. w + 1 \in Nat /\ (w + 1) + 1 \in Nat
    BY <1>1
  <2>2. at[w + 1] \in Nat /\ at[(w + 1) + 1] \in Nat /\ stop[top] \in Nat
    BY <1>1, <2>1
  <2>. QED BY <2>2, Zenon
<1>5. Arriving(F, at, wire, w, e)
  BY <1>4 DEF Stream
<1>6. /\ ~Head(wire).eof_bad => Arriving(F, at, Tail(wire), w + 1, e)
      /\ HeldAt(F, Head(wire).bytes, c, c2)
      /\ Head(wire).eof_bad \in BOOLEAN /\ (Head(wire).eof_bad => Tail(wire) = <<>>) /\ c2 <= e
  BY <1>1, <1>2, <1>3, <1>4, <1>5, ArrivingTail
<1>7. HeldAt(F, abuf(Head(wire)), b, c2)
  <2>1. HeldAt(F, buffer, b, c)
    BY <1>2, <1>4 DEF Stream
  <2>. QED BY <1>1, <1>6, <2>1, HeldJoins DEF abuf
<1>8. Timely(G, stop, left, m, top, at[(w + 1) + 1])'
  <2>1. ASSUME NEW k \in m + 1 .. top
        PROVE  G[k].datagram <= datagrams' /\ ~(G[k].datagram > recv_time_r')
    <3>1. k \in Nat
      BY <1>1
    <3>2. G[k].datagram \in Nat
      BY <1>1, <3>1 DEF Due
    <3>3. G[k].datagram <= datagrams
      BY DEF Stream, Timely
    <3>. QED BY <1>2, <1>3, <3>2, <3>3
  <2>. QED BY <2>1 DEF Timely
<1>9. Ghosts(F, G, stop, left, at, m, top, w + 1, b)
  BY <1>1 DEF Ghosts
<1>. QED BY <1>2, <1>3, <1>4, <1>6, <1>7, <1>8, <1>9 DEF Stream, Input, StreamInv

LEMMA NoWordTaken ==
    ASSUME NEW F, NEW G, NEW stop, NEW left, NEW at, NEW m, NEW top, NEW w, NEW b,
           Stream(F, G, stop, left, at, m, top, w, b), StreamInv, ~flushed, IdleCycle
    PROVE  Input(F, G, stop, left, at, m, top, w, b, NoWord)
<1>1. /\ wire' = wire /\ recv_time_r' = recv_time_r /\ datagrams' = datagrams /\ Cycle(NoWord)
  BY DEF IdleCycle
<1>2. state # "Reset"
  BY <1>1 DEF Cycle, ReadHeader, AwaitHeader, FlushMalformed, ReadMessage, AwaitMessage, KeepBuffering
<1>3. held = abuf(NoWord)
  <2>1. buffer \in Seq(Nat)
    BY DEF StreamInv, BufferInv
  <2>. QED BY <1>2, <2>1 DEF abuf, NoWord, held
<1>4. NoWord.eof_bad = FALSE
  BY DEF NoWord
<1>5. /\ Ghosts(F, G, stop, left, at, m, top, w, b) /\ Arriving(F, at, wire', w, stop[top])
      /\ HeldAt(F, abuf(NoWord), b, at[w + 1])
  BY <1>1, <1>3 DEF Stream
<1>6. at[w + 1] <= stop[top]
  <2>1. Len(wire) \in Nat
    BY LenProperties, Zenon DEF StreamInv, BufferInv
  <2>2. 1 \in 1 .. Len(wire) + 1
    BY <2>1
  <2>. QED BY <2>2 DEF Stream, Arriving
<1>7. Timely(G, stop, left, m, top, at[w + 1])'
  BY <1>1 DEF Stream, Timely
<1>8. seconds_r = clock /\ recv_time_r \in Nat /\ recv_time_r' \in Nat /\ recv_time_r <= recv_time_r'
  BY <1>1 DEF StreamInv
<1>9. NoWord.eof_bad \in BOOLEAN /\ (NoWord.eof_bad => wire' = <<>>)
  BY <1>4
<1>. QED BY <1>5, <1>6, <1>7, <1>8, <1>9 DEF Stream, Input

---------------------------------------------------------------------------
\* A datagram sent: where its words are in the stream.

LEMMA WordBounds ==
    ASSUME NEW N \in Nat, NEW n, n = (N + WORD - 1) \div WORD
    PROVE  /\ n \in Nat /\ (n = 0 <=> N = 0)
           /\ \A i \in 1 .. n : /\ (i - 1) * WORD \in Nat /\ i * WORD \in Nat
                                /\ (i - 1) * WORD < N /\ (i # n => i * WORD < N)
                                /\ i * WORD = (i - 1) * WORD + WORD
<1>. DEFINE y == N + WORD - 1
<1>1. WORD \in Nat /\ WORD > 0 /\ y \in Nat
  BY SizeAssumption
<1>2. n \in Nat /\ y = WORD * n + (y % WORD) /\ y % WORD \in 0 .. WORD - 1
  BY <1>1
<1>3. WORD * n >= N /\ WORD * n < N + WORD /\ WORD * n \in Nat
  <2>1. WORD * n \in Nat
    BY <1>1, <1>2
  <2>2. PICK x \in Nat, z \in Nat : x = WORD * n /\ z = y % WORD
    BY <1>2, <2>1
  <2>3. y = x + z /\ z <= WORD - 1
    BY <1>1, <1>2, <2>2
  <2>4. x >= N /\ x < N + WORD
    BY <1>1, <2>2, <2>3
  <2>. QED BY <2>1, <2>2, <2>4, Zenon
<1>. HIDE DEF y
<1>4. n = 0 => N = 0
  <2>1. WORD * 0 = 0
    BY <1>1
  <2>. QED BY <1>3, <2>1
<1>5. N = 0 => n = 0
  <2>1. ASSUME n >= 1 PROVE WORD * n >= WORD
    <3>1. WORD * (n - 1) >= 0 /\ WORD * (n - 1) \in Nat
      BY <1>1, <1>2, <2>1
    <3>2. WORD * n = WORD * (n - 1) + WORD
      BY <1>1, <1>2
    <3>. QED BY <1>1, <1>3, <3>1, <3>2
  <2>. QED BY <1>1, <1>2, <1>3, <2>1
<1>6. ASSUME NEW i \in 1 .. n
      PROVE  /\ (i - 1) * WORD \in Nat /\ i * WORD \in Nat
             /\ (i - 1) * WORD < N /\ (i # n => i * WORD < N)
             /\ i * WORD = (i - 1) * WORD + WORD
  <2>1. (i - 1) * WORD \in Nat /\ i * WORD \in Nat /\ i * WORD = (i - 1) * WORD + WORD
    BY <1>1, <1>2
  <2>2. \A k \in 0 .. n : k * WORD <= WORD * n /\ k * WORD \in Nat
    <3>1. ASSUME NEW k \in 0 .. n PROVE k * WORD <= WORD * n /\ k * WORD \in Nat
      <4>1. WORD * (n - k) \in Nat /\ k * WORD \in Nat
        BY <1>1, <1>2
      <4>2. WORD * n = WORD * (n - k) + k * WORD
        BY <1>1, <1>2
      <4>. QED BY <1>3, <4>1, <4>2
    <3>. QED BY <3>1
  <2>3. i * WORD <= WORD * n
    BY <1>2, <2>2
  <2>4. (i - 1) * WORD < N
    BY <1>1, <1>3, <2>1, <2>3
  <2>5. ASSUME i # n PROVE i * WORD < N
    <3>1. (i + 1) * WORD <= WORD * n /\ (i + 1) * WORD \in Nat
      BY <1>2, <2>2, <2>5
    <3>2. (i + 1) * WORD = i * WORD + WORD
      BY <1>1, <1>2
    <3>. QED BY <1>1, <1>3, <2>1, <3>1, <3>2
  <2>. QED BY <2>1, <2>4, <2>5
<1>. QED BY <1>2, <1>4, <1>5, <1>6

LEMMA WordsArrive ==
    ASSUME NEW F, NEW bytes \in Seq(Nat), NEW bad \in BOOLEAN, NEW e \in Nat, NEW to \in Nat,
           \A a \in 1 .. Len(bytes) : bytes[a] = F[e + a],
           e + Len(bytes) <= to, bad \/ e + Len(bytes) = to, bad => Len(bytes) > 0
    PROVE  \E at \in [Nat -> Nat] : at[0 + 1] = e /\ Arriving(F, at, Words(bytes, bad), 0, to)
<1>1. PICK N \in Nat : N = Len(bytes)
  BY LenProperties, Zenon
<1>2. PICK n : n = (N + WORD - 1) \div WORD
  OBVIOUS
<1>3. /\ n \in Nat /\ (n = 0 <=> N = 0)
      /\ \A i \in 1 .. n : /\ (i - 1) * WORD \in Nat /\ i * WORD \in Nat
                           /\ (i - 1) * WORD < N /\ (i # n => i * WORD < N)
                           /\ i * WORD = (i - 1) * WORD + WORD
  BY <1>2, WordBounds
<1>4. PICK off : off = [i \in 0 .. n |-> IF i = n THEN N ELSE i * WORD]
  OBVIOUS
<1>5. /\ off[0] = 0 /\ off[n] = N
      /\ \A i \in 0 .. n : off[i] \in Nat /\ off[i] <= N
      /\ \A i \in 1 .. n : off[i - 1] = (i - 1) * WORD /\ off[i - 1] < off[i]
  <2>1. off[0] = 0
    <3>1. 0 * WORD = 0
      BY SizeAssumption
    <3>. QED BY <1>3, <1>4, <3>1
  <2>2. ASSUME NEW i \in 0 .. n PROVE off[i] \in Nat /\ off[i] <= N
    <3>1. CASE i = 0
      BY <2>1, <3>1
    <3>2. CASE i \in 1 .. n
      <4>1. i * WORD \in Nat /\ (i # n => i * WORD < N)
        BY <1>3, <3>2
      <4>. QED BY <1>4, <4>1
    <3>. QED BY <1>3, <3>1, <3>2
  <2>3. ASSUME NEW i \in 1 .. n PROVE off[i - 1] = (i - 1) * WORD /\ off[i - 1] < off[i]
    <3>1. /\ (i - 1) * WORD \in Nat /\ i * WORD \in Nat /\ (i - 1) * WORD < N
          /\ i * WORD = (i - 1) * WORD + WORD
      BY <1>3
    <3>2. off[i - 1] = (i - 1) * WORD
      BY <1>3, <1>4
    <3>3. off[i] = N \/ off[i] = i * WORD
      BY <1>4
    <3>. QED BY SizeAssumption, <3>1, <3>2, <3>3
  <2>4. off[n] = N
    BY <1>3, <1>4
  <2>. QED BY <2>1, <2>2, <2>3, <2>4
<1>6. PICK at : at = [i \in Nat |-> e + IF i \in 1 .. n + 1 THEN off[i - 1] ELSE 0]
  OBVIOUS
<1>7. /\ at \in [Nat -> Nat]
      /\ \A i \in 1 .. n + 1 : at[i] = e + off[i - 1] /\ off[i - 1] \in Nat /\ off[i - 1] <= N
  <2>1. \A i \in 1 .. n + 1 : i - 1 \in 0 .. n /\ i \in Nat
    BY <1>3
  <2>2. ASSUME NEW i \in Nat PROVE (e + IF i \in 1 .. n + 1 THEN off[i - 1] ELSE 0) \in Nat
    BY <1>5, <2>1
  <2>. QED BY <1>5, <1>6, <2>1, <2>2
<1>8. PICK ws : ws = Words(bytes, bad)
  OBVIOUS
<1>9. /\ ws \in Seq(Word) /\ Len(ws) = n
      /\ \A i \in 1 .. n : /\ ws[i].bytes = SubSeq(bytes, off[i - 1] + 1, off[i])
                           /\ ws[i].eof_bad = (bad /\ i = n)
  <2>1. ws \in Seq(Word)
    BY <1>8, WordsAreShort
  <2>2. ws = [i \in 1 .. n |-> [bytes |-> SubSeq(bytes, (i - 1) * WORD + 1, IF i = n THEN N ELSE i * WORD),
                                eof_bad |-> bad /\ i = n]]
    BY <1>1, <1>2, <1>8 DEF Words
  <2>3. ASSUME NEW i \in 1 .. n
        PROVE  /\ ws[i].bytes = SubSeq(bytes, off[i - 1] + 1, off[i])
               /\ ws[i].eof_bad = (bad /\ i = n)
    <3>1. off[i] = (IF i = n THEN N ELSE i * WORD) /\ off[i - 1] = (i - 1) * WORD
      <4>1. i \in 0 .. n
        BY <1>3
      <4>2. off[i] = (IF i = n THEN N ELSE i * WORD)
        BY <1>4, <4>1, Zenon
      <4>. QED BY <1>5, <4>2
    <3>. QED BY <2>2, <3>1
  <2>4. Len(ws) = n
    <3>1. DOMAIN ws = 1 .. n
      BY <2>2
    <3>. QED BY <1>3, <2>1, <3>1, LenProperties
  <2>. QED BY <2>1, <2>3, <2>4
<1>10. ASSUME NEW i \in 1 .. n PROVE HeldAt(F, ws[i].bytes, at[i], at[i + 1])
  <2>1. PICK p \in Nat, q \in Nat : p = off[i - 1] /\ q = off[i]
    <3>1. i - 1 \in 0 .. n /\ i \in 0 .. n
      BY <1>3
    <3>. QED BY <1>5, <3>1
  <2>2. p < q /\ q <= N
    <3>1. i \in 0 .. n
      BY <1>3
    <3>. QED BY <1>5, <2>1, <3>1
  <2>3. PICK u : u = SubSeq(bytes, p + 1, q)
    OBVIOUS
  <2>4. u \in Seq(Nat) /\ Len(u) = q - p /\ \A a \in 1 .. q - p : u[a] = bytes[p + a]
    <3>1. p + 1 \in 1 .. q /\ q \in 1 .. Len(bytes) /\ q - (p + 1) + 1 = q - p
      BY <1>1, <2>2
    <3>2. u \in Seq(Nat) /\ Len(u) = q - (p + 1) + 1
      BY <2>3, <3>1
    <3>3. \A a \in 1 .. q - p : u[a] = bytes[p + a]
      <4>1. \A a \in 1 .. q - (p + 1) + 1 : u[a] = bytes[(p + 1) + a - 1]
        BY <2>3, <3>1, SubSeqProperties
      <4>2. \A a \in 1 .. q - p : (p + 1) + a - 1 = p + a
        BY <2>2
      <4>. QED BY <3>1, <4>1, <4>2, Zenon
    <3>. QED BY <3>1, <3>2, <3>3
  <2>5. \A a \in 1 .. q - p : u[a] = F[(e + p) + a]
    <3>1. ASSUME NEW a \in 1 .. q - p PROVE u[a] = F[(e + p) + a]
      <4>1. p + a \in 1 .. N /\ e + (p + a) = (e + p) + a
        BY <2>2
      <4>. QED BY <1>1, <2>4, <4>1
    <3>. QED BY <3>1
  <2>6. at[i] = e + p /\ at[i + 1] = e + q
    <3>1. i \in 1 .. n + 1 /\ i + 1 \in 1 .. n + 1 /\ (i + 1) - 1 = i
      BY <1>3
    <3>. QED BY <1>7, <2>1, <3>1
  <2>7. HeldAt(F, u, e + p, e + q)
    <3>1. e + q = (e + p) + (q - p)
      BY <2>2
    <3>. QED BY <2>4, <2>5, <3>1 DEF HeldAt
  <2>8. ws[i].bytes = u
    BY <1>9, <2>1, <2>3
  <2>. QED BY <2>6, <2>7, <2>8
<1>11. at[1] = e /\ at[n + 1] = e + N /\ \A i \in 1 .. n + 1 : at[i] <= to
  <2>1. 1 \in 1 .. n + 1 /\ n + 1 \in 1 .. n + 1 /\ 1 - 1 = 0 /\ (n + 1) - 1 = n
    BY <1>3
  <2>2. at[1] = e + off[0] /\ at[n + 1] = e + off[n]
    BY <1>7, <2>1, Zenon
  <2>3. at[1] = e /\ at[n + 1] = e + N
    BY <1>5, <2>2
  <2>4. e + N <= to
    BY <1>1
  <2>5. ASSUME NEW i \in 1 .. n + 1 PROVE at[i] <= to
    <3>1. PICK x \in Nat : at[i] = e + x /\ x <= N
      BY <1>7
    <3>. QED BY <2>4, <3>1
  <2>. QED BY <2>3, <2>5
<1>12. Arriving(F, at, ws, 0, to)
  <2>1. \A k \in 1 .. n + 1 : 0 + k = k
    BY <1>3
  <2>2. \A i \in 1 .. n : 0 + i = i /\ 0 + (i + 1) = i + 1
    BY <1>3
  <2>3. at[0 + (n + 1)] = to \/ (n # 0 /\ ws[n].eof_bad)
    <3>1. CASE bad
      <4>1. n # 0 /\ n \in 1 .. n
        BY <1>1, <1>3, <3>1
      <4>. QED BY <1>9, <3>1, <4>1
    <3>2. CASE ~bad
      <4>1. 0 + (n + 1) = n + 1
        BY <1>3
      <4>. QED BY <1>1, <1>11, <3>2, <4>1
    <3>. QED BY <3>1, <3>2
  <2>. QED BY <1>9, <1>10, <1>11, <2>1, <2>2, <2>3 DEF Arriving
<1>13. at[0 + 1] = e
  <2>1. 0 + 1 = 1
    OBVIOUS
  <2>. QED BY <1>11, <2>1, Zenon
<1>. QED BY <1>7, <1>8, <1>12, <1>13, Zenon

\* h is f up to base, and g behind.
Patched(f, h, base, g, n) ==
    /\ \A p \in Nat : p <= base => h[p] = f[p]
    /\ \A a \in 1 .. n : h[base + a] = g[a]

LEMMA PatchExists ==
    ASSUME NEW S, NEW f \in [Nat -> S], NEW base \in Nat, NEW g, NEW n \in Nat, \A a \in 1 .. n : g[a] \in S
    PROVE  \E h \in [Nat -> S] : Patched(f, h, base, g, n)
<1>1. PICK h : h = [p \in Nat |-> IF p - base \in 1 .. n THEN g[p - base] ELSE f[p]]
  OBVIOUS
<1>2. h \in [Nat -> S]
  BY <1>1
<1>3. \A p \in Nat : p <= base => h[p] = f[p]
  BY <1>1
<1>4. ASSUME NEW a \in 1 .. n PROVE h[base + a] = g[a]
  <2>1. base + a \in Nat /\ (base + a) - base = a
    OBVIOUS
  <2>2. h[base + a] = IF (base + a) - base \in 1 .. n THEN g[(base + a) - base] ELSE f[base + a]
    BY <1>1, <2>1, Zenon
  <2>. QED BY <2>1, <2>2, Zenon
<1>. QED BY <1>2, <1>3, <1>4 DEF Patched

\* Sequence numbers follow each other, where they wrap too.
LEMMA ModNext ==
    ASSUME NEW S \in Nat \ {0}, NEW x \in Nat
    PROVE  ((x % S) + 1) % S = (x + 1) % S
<1>1. PICK r \in Nat : r = x % S
  OBVIOUS
<1>2. PICK q \in Nat : q = x \div S
  OBVIOUS
<1>3. x = S * q + r /\ r < S
  BY <1>1, <1>2
<1>4. \A z \in Nat, k \in Nat, t \in Nat : z = S * k + t /\ t < S => z % S = t
  <2>1. SUFFICES ASSUME NEW z \in Nat, NEW k \in Nat, NEW t \in Nat, z = S * k + t, t < S PROVE z % S = t
    OBVIOUS
  <2>2. PICK k2 \in Nat, t2 \in Nat : k2 = z \div S /\ t2 = z % S
    OBVIOUS
  <2>3. z = S * k2 + t2 /\ t2 < S
    BY <2>2
  <2>4. k = k2
    <3>1. ASSUME k < k2 PROVE FALSE
      <4>1. S * (k2 - k) >= S
        BY <3>1
      <4>2. S * k2 = S * k + S * (k2 - k)
        OBVIOUS
      <4>. QED BY <2>1, <2>3, <4>1, <4>2
    <3>2. ASSUME k2 < k PROVE FALSE
      <4>1. S * (k - k2) >= S
        BY <3>2
      <4>2. S * k = S * k2 + S * (k - k2)
        OBVIOUS
      <4>. QED BY <2>1, <2>3, <4>1, <4>2
    <3>. QED BY <3>1, <3>2
  <2>. QED BY <2>1, <2>2, <2>3, <2>4
<1>5. CASE r + 1 < S
  <2>0. x + 1 \in Nat /\ r + 1 \in Nat /\ 0 \in Nat
    OBVIOUS
  <2>1. x + 1 = S * q + (r + 1)
    BY <1>3
  <2>2. (x + 1) % S = r + 1
    BY <1>4, <1>5, <2>0, <2>1, Zenon
  <2>3. r + 1 = S * 0 + (r + 1)
    OBVIOUS
  <2>4. (r + 1) % S = r + 1
    BY <1>4, <1>5, <2>0, <2>3, Zenon
  <2>. QED BY <1>1, <2>2, <2>4
<1>6. CASE r + 1 = S
  <2>0. x + 1 \in Nat /\ r + 1 \in Nat /\ 0 \in Nat /\ 0 < S /\ q + 1 \in Nat /\ 1 \in Nat
    OBVIOUS
  <2>1. x + 1 = S * (q + 1) + 0
    BY <1>3, <1>6
  <2>2. (x + 1) % S = 0
    BY <1>4, <2>1, <2>0, Zenon
  <2>3. r + 1 = S * 1 + 0
    BY <1>6
  <2>4. (r + 1) % S = 0
    BY <1>4, <2>3, <2>0, Zenon
  <2>. QED BY <1>1, <2>2, <2>4
<1>. QED BY <1>3, <1>5, <1>6

\* The stream with datagram d behind it.
Extended(F, G, stop, left, F2, G2, stop2, left2, top, e, pos, d, number) ==
    /\ Patched(F, F2, e, Bytes(d), Len(Bytes(d)))
    /\ Patched(G, G2, top, Messages(d, number), Len(d.msgs))
    /\ Patched(stop, stop2, top, [i \in 1 .. Len(d.msgs) |-> e + pos[i]], Len(d.msgs))
    /\ Patched(left, left2, top, [i \in 1 .. Len(d.msgs) |-> Len(d.msgs) + 1 - i], Len(d.msgs))

Kept(F2, G2, stop2, left2, stop, k) == Written(F2, G2, stop2, left2, k) /\ stop2[k] = stop[k]

LEMMA OldWritten ==
    ASSUME NEW F, NEW G, NEW stop \in [Nat -> Nat], NEW left, NEW F2, NEW G2, NEW stop2, NEW left2,
           NEW top \in Nat, NEW e \in Nat, NEW pos, NEW d, NEW number, NEW m \in Nat, NEW k \in m + 1 .. top
    PROVE  Extended(F, G, stop, left, F2, G2, stop2, left2, top, e, pos, d, number)
           => (Written(F, G, stop, left, k) /\ stop[k] <= e => Kept(F2, G2, stop2, left2, stop, k))
<1>. SUFFICES ASSUME Extended(F, G, stop, left, F2, G2, stop2, left2, top, e, pos, d, number),
                     Written(F, G, stop, left, k), stop[k] <= e
              PROVE  Kept(F2, G2, stop2, left2, stop, k)
  OBVIOUS
<1>1. k \in Nat /\ k - 1 \in Nat /\ k <= top /\ k - 1 <= top
  OBVIOUS
<1>2. /\ \A p \in Nat : p <= e => F2[p] = F[p]
      /\ \A p \in Nat : p <= top => G2[p] = G[p] /\ stop2[p] = stop[p] /\ left2[p] = left[p]
  BY DEF Extended, Patched
<1>3. /\ G2[k] = G[k] /\ stop2[k] = stop[k] /\ left2[k] = left[k]
      /\ G2[k - 1] = G[k - 1] /\ stop2[k - 1] = stop[k - 1] /\ left2[k - 1] = left[k - 1]
  BY <1>1, <1>2
<1>4. PICK s \in Nat, t \in Nat : s = stop[k - 1] /\ t = stop[k]
  BY <1>1
<1>5. HDR \in Nat /\ HDR >= 5
  BY SizeAssumption
<1>6. PICK p : p = Start(stop, left, k)
  OBVIOUS
<1>7. /\ p \in Nat /\ (left[k - 1] = 1 => p = s + HDR) /\ Start(stop2, left2, k) = p
  BY <1>3, <1>4, <1>5, <1>6 DEF Start
<1>8. MessageThere(F, G[k], p, t)
  BY <1>4, <1>6 DEF Written
<1>9. t >= p + 3 /\ t <= e
  BY <1>4, <1>8 DEF MessageThere
<1>10. p + 1 \in Nat /\ p + 1 <= e /\ p + 2 \in Nat /\ p + 2 <= e /\ p + 3 \in Nat /\ p + 3 <= e
  BY <1>7, <1>9
<1>11. F2[p + 1] = F[p + 1] /\ F2[p + 2] = F[p + 2] /\ F2[p + 3] = F[p + 3]
  BY <1>2, <1>10
<1>12. MessageThere(F2, G2[k], p, t)
  BY <1>3, <1>8, <1>11 DEF MessageThere
<1>13. left[k - 1] = 1 => F2[s + 3] = F[s + 3] /\ F2[s + 5] = F[s + 5]
  <2>1. left[k - 1] = 1 => s + 3 <= e /\ s + 5 <= e /\ s + 3 \in Nat /\ s + 5 \in Nat
    BY <1>5, <1>7, <1>9
  <2>. QED BY <1>2, <2>1
<1>14. /\ 1 <= left[k] /\ left[k] <= COUNT_MAX
       /\ left[k - 1] = 1 => F[s + 3] = left[k] /\ G[k].seq = F[s + 5] % SEQ_RANGE
       /\ left[k - 1] # 1 => /\ left[k] = left[k - 1] - 1 /\ G[k].seq = SeqAfter(G[k - 1].seq)
                             /\ G[k].datagram = G[k - 1].datagram
  BY <1>4 DEF Written
<1>15. /\ 1 <= left2[k] /\ left2[k] <= COUNT_MAX
       /\ left2[k - 1] = 1 => F2[stop2[k - 1] + 3] = left2[k] /\ G2[k].seq = F2[stop2[k - 1] + 5] % SEQ_RANGE
       /\ left2[k - 1] # 1 => /\ left2[k] = left2[k - 1] - 1 /\ G2[k].seq = SeqAfter(G2[k - 1].seq)
                              /\ G2[k].datagram = G2[k - 1].datagram
  BY <1>3, <1>4, <1>13, <1>14
<1>16. MessageThere(F2, G2[k], Start(stop2, left2, k), stop2[k])
  BY <1>3, <1>4, <1>7, <1>12, Zenon
<1>. QED BY <1>3, <1>15, <1>16 DEF Written, Kept

\* What the feed's assumptions say of one of its messages.
LEMMA MessageFed ==
    ASSUME NEW d \in Datagrams, NEW i \in 1 .. Len(d.msgs)
    PROVE  d.seq \in Nat /\ Len(d.msgs) \in Nat /\ d.msgs[i] \in Message
<1>1. d.seq \in Nat /\ d.msgs \in Seq(Message)
  BY FeedAssumption, Zenon DEF Message
<1>2. d.msgs[i] \in Message
  BY <1>1, ElementOfSeq, Zenon
<1>. QED BY <1>1, <1>2, LenProperties, Zenon

\* Message i of datagram number stands behind message top, which ends at e.
Appended(F2, G2, stop2, left2, top, e, pos, number, i) ==
    /\ Written(F2, G2, stop2, left2, top + i)
    /\ stop2[top + i] = e + pos[i] /\ G2[top + i].datagram = number
    /\ (left2[(top + i) - 1] = 1 => stop2[(top + i) - 1] = e)

LEMMA NewWritten ==
    ASSUME NEW F, NEW G, NEW stop, NEW left, NEW F2, NEW G2, NEW stop2, NEW left2,
           NEW top \in Nat, NEW e \in Nat, NEW pos, NEW d, NEW number \in Nat, NEW i
    PROVE  /\ Regular /\ d \in Datagrams /\ i \in 1 .. Len(d.msgs) /\ pos \in [Nat -> Nat]
           /\ Extended(F, G, stop, left, F2, G2, stop2, left2, top, e, pos, d, number)
           /\ e = stop[top] /\ left[top] = 1 /\ pos[0] = HDR /\ Len(Bytes(d)) \in Nat
           /\ Bytes(d)[3] = Len(d.msgs) /\ Bytes(d)[5] = d.seq
           /\ MessageAt(pos, d, i) /\ HDR + 3 <= Len(Bytes(d))
           => Appended(F2, G2, stop2, left2, top, e, pos, number, i)
<1>0. SUFFICES ASSUME
           /\ Regular /\ d \in Datagrams /\ i \in 1 .. Len(d.msgs) /\ pos \in [Nat -> Nat]
           /\ Extended(F, G, stop, left, F2, G2, stop2, left2, top, e, pos, d, number)
           /\ e = stop[top] /\ left[top] = 1 /\ pos[0] = HDR /\ Len(Bytes(d)) \in Nat
           /\ Bytes(d)[3] = Len(d.msgs) /\ Bytes(d)[5] = d.seq
           /\ MessageAt(pos, d, i) /\ HDR + 3 <= Len(Bytes(d))
       PROVE  Appended(F2, G2, stop2, left2, top, e, pos, number, i)
  OBVIOUS
<1>01. d \in Datagrams /\ i \in 1 .. Len(d.msgs) /\ Len(Bytes(d)) \in Nat
  BY <1>0
<1>02. d.seq \in Nat /\ Len(d.msgs) \in Nat /\ d.msgs[i] \in Message
  BY <1>01, MessageFed, Zenon
<1>1. PICK N \in Nat, len \in Nat, seq \in Nat, msg \in Message :
         N = Len(d.msgs) /\ len = Len(Bytes(d)) /\ seq = d.seq /\ msg = d.msgs[i]
  BY <1>01, <1>02, Zenon
<1>03. i \in 1 .. N
  BY <1>01, <1>1, Zenon
<1>2. N >= 1 /\ N <= COUNT_MAX /\ (msg.len = 0 \/ msg.len >= 3)
  <2>1. Len(d.msgs) <= COUNT_MAX /\ (d.msgs[i].len = 0 \/ d.msgs[i].len >= 3)
    BY <1>0, Zenon DEF Regular, WellFormed
  <2>2. N >= 1
    BY <1>03
  <2>. QED BY <1>1, <2>1, <2>2, Zenon
<1>5. msg.len \in Nat
  BY DEF Message
<1>6. i \in Nat /\ i >= 1 /\ i <= N /\ i - 1 \in Nat
  BY <1>03
<1>04. pos[i - 1] \in Nat /\ pos[i] \in Nat
  BY <1>0, <1>6, Zenon
<1>7. PICK p \in Nat, q \in Nat : p = pos[i - 1] /\ q = pos[i]
  BY <1>04, Zenon
<1>8. /\ q = p + Size(msg) /\ q <= len
      /\ Bytes(d)[p + 1] = msg.len /\ Bytes(d)[p + 2] = msg.type /\ Bytes(d)[p + 3] = msg.val
  BY <1>0, <1>1, <1>7, Zenon DEF MessageAt
<1>9. q >= p + 3 /\ (msg.len # 0 => q = p + msg.len)
  BY <1>2, <1>5, <1>8 DEF Size
<1>10. HDR \in Nat /\ HDR >= 5 /\ HDR + 3 <= len
  BY <1>0, <1>1, SizeAssumption
<1>11. /\ \A a \in Nat : a <= top => /\ stop2[a] = stop[a] /\ left2[a] = left[a] /\ G2[a] = G[a]
       /\ \A a \in 1 .. len : F2[e + a] = Bytes(d)[a]
  BY <1>0, <1>1, Zenon DEF Extended, Patched
<1>111. stop[top] = e /\ left[top] = 1
  BY <1>0
<1>112. \A a \in 1 .. N : stop2[top + a] = e + pos[a] /\ left2[top + a] = N + 1 - a
  <2>1. /\ \A a \in 1 .. N : stop2[top + a] = [j \in 1 .. N |-> e + pos[j]][a]
        /\ \A a \in 1 .. N : left2[top + a] = [j \in 1 .. N |-> N + 1 - j][a]
    BY <1>0, <1>1 DEF Extended, Patched
  <2>. QED BY <2>1
<1>12. \A a \in 1 .. N : /\ G2[top + a].type = d.msgs[a].type /\ G2[top + a].val = d.msgs[a].val
                         /\ G2[top + a].seq = (seq + a - 1) % SEQ_RANGE
                         /\ G2[top + a].datagram = number
  <2>1. \A a \in 1 .. N : G2[top + a] = Messages(d, number)[a]
    BY <1>0, <1>1, Zenon DEF Extended, Patched
  <2>2. Messages(d, number) = [j \in 1 .. N |->
           [seq |-> (seq + j - 1) % SEQ_RANGE, type |-> d.msgs[j].type,
            val |-> d.msgs[j].val, datagram |-> number]]
    BY <1>1, Zenon DEF Messages
  <2>3. ASSUME NEW a \in 1 .. N
        PROVE  G2[top + a] = [seq |-> (seq + a - 1) % SEQ_RANGE, type |-> d.msgs[a].type,
                              val |-> d.msgs[a].val, datagram |-> number]
    BY <2>1, <2>2, Zenon
  <2>4. ASSUME NEW a \in 1 .. N
        PROVE  /\ G2[top + a].type = d.msgs[a].type /\ G2[top + a].val = d.msgs[a].val
               /\ G2[top + a].seq = (seq + a - 1) % SEQ_RANGE /\ G2[top + a].datagram = number
    <3>1. PICK s, y, z : s = (seq + a - 1) % SEQ_RANGE /\ y = d.msgs[a].type /\ z = d.msgs[a].val
      OBVIOUS
    <3>2. G2[top + a] = [seq |-> s, type |-> y, val |-> z, datagram |-> number]
      BY <2>3, <3>1, Zenon
    <3>3. G2[top + a].seq = s /\ G2[top + a].type = y /\ G2[top + a].val = z /\ G2[top + a].datagram = number
      BY <3>2
    <3>. QED BY <3>1, <3>3, Zenon
  <2>. QED BY <2>4, Zenon
<1>13. PICK k \in Nat : k = top + i
  BY <1>6
<1>14. /\ stop2[k] = e + q /\ left2[k] = N + 1 - i
       /\ G2[k].type = msg.type /\ G2[k].val = msg.val /\ G2[k].datagram = number
       /\ G2[k].seq = (seq + i - 1) % SEQ_RANGE
  BY <1>1, <1>03, <1>7, <1>112, <1>12, <1>13, Zenon
<1>. DEFINE InUnit == /\ Start(stop2, left2, k) = e + p
                      /\ left2[k - 1] = 1 => F2[stop2[k - 1] + 3] = left2[k] /\ G2[k].seq = F2[stop2[k - 1] + 5] % SEQ_RANGE
                      /\ left2[k - 1] # 1 => /\ left2[k] = left2[k - 1] - 1 /\ G2[k].seq = SeqAfter(G2[k - 1].seq)
                                             /\ G2[k].datagram = G2[k - 1].datagram
                      /\ left2[k - 1] = 1 => stop2[k - 1] = e
<1>15. ASSUME i = 1 PROVE InUnit
  <2>1. k - 1 = top /\ i - 1 = 0
    BY <1>13, <1>15
  <2>2. stop2[k - 1] = e /\ left2[k - 1] = 1 /\ p = HDR
    <3>1. stop2[top] = e /\ left2[top] = 1
      BY <1>11, <1>111
    <3>2. p = HDR
      BY <1>0, <1>7, <2>1, Zenon
    <3>. QED BY <2>1, <3>1, <3>2, Zenon
  <2>3. 3 \in 1 .. len /\ 5 \in 1 .. len
    BY <1>10
  <2>4. F2[e + 3] = N /\ F2[e + 5] = seq
    BY <1>0, <1>1, <1>11, <2>3, Zenon
  <2>5. left2[k] = N /\ (seq + i - 1) = seq
    BY <1>14, <1>15
  <2>6. F2[stop2[k - 1] + 3] = left2[k] /\ G2[k].seq = F2[stop2[k - 1] + 5] % SEQ_RANGE
    BY <1>14, <2>2, <2>4, <2>5, Zenon
  <2>7. Start(stop2, left2, k) = e + p
    BY <2>2, Zenon DEF Start
  <2>. QED BY <2>2, <2>6, <2>7, Zenon
<1>16. ASSUME i # 1 PROVE InUnit
  <2>1. i - 1 \in 1 .. N /\ k - 1 = top + (i - 1) /\ i >= 2
    BY <1>6, <1>13, <1>16
  <2>2. stop2[k - 1] = e + p /\ left2[k - 1] = N + 1 - (i - 1)
    BY <1>7, <1>112, <2>1, Zenon
  <2>3. left2[k - 1] # 1 /\ left2[k] = left2[k - 1] - 1
    <3>1. N + 1 - (i - 1) # 1 /\ N + 1 - i = (N + 1 - (i - 1)) - 1
      BY <1>6, <2>1
    <3>. QED BY <1>14, <2>2, <3>1, Zenon
  <2>4. G2[k - 1].seq = (seq + (i - 1) - 1) % SEQ_RANGE /\ G2[k - 1].datagram = number
    BY <1>12, <2>1, Zenon
  <2>5. PICK x \in Nat : x = seq + (i - 1) - 1 /\ x + 1 = seq + i - 1
    <3>1. seq + (i - 1) - 1 \in Nat /\ (seq + (i - 1) - 1) + 1 = seq + i - 1
      BY <1>6, <2>1
    <3>. QED BY <3>1, Zenon
  <2>7. G2[k].seq = SeqAfter(G2[k - 1].seq)
    <3>1. ((x % SEQ_RANGE) + 1) % SEQ_RANGE = (x + 1) % SEQ_RANGE
      BY ModNext, SizeAssumption
    <3>. QED BY <1>14, <2>4, <2>5, <3>1, Zenon DEF SeqAfter
  <2>8. Start(stop2, left2, k) = e + p
    <3>1. Start(stop2, left2, k) = (e + p) + 0
      BY <2>2, <2>3, Zenon DEF Start
    <3>2. (e + p) + 0 = e + p
      OBVIOUS
    <3>. QED BY <3>1, <3>2, Zenon
  <2>9. G2[k].datagram = G2[k - 1].datagram
    BY <1>14, <2>4, Zenon
  <2>. QED BY <2>3, <2>7, <2>8, <2>9, Zenon
<1>17. InUnit
  BY <1>15, <1>16, Zenon
<1>18. 1 <= left2[k] /\ left2[k] <= COUNT_MAX
  <2>1. COUNT_MAX \in Nat
    BY SMT DEF COUNT_MAX
  <2>2. N + 1 - i >= 1 /\ N + 1 - i <= COUNT_MAX
    BY <1>2, <1>6, <2>1
  <2>. QED BY <1>14, <2>2
<1>19. MessageThere(F2, G2[k], e + p, e + q)
  <2>1. p + 1 \in 1 .. len /\ p + 2 \in 1 .. len /\ p + 3 \in 1 .. len
    <3>1. q <= len
      BY <1>8
    <3>. QED BY <1>9, <3>1
  <2>2. /\ F2[e + (p + 1)] = msg.len /\ F2[e + (p + 2)] = msg.type /\ F2[e + (p + 3)] = msg.val
    BY <1>8, <1>11, <2>1, Zenon
  <2>3. /\ e + (p + 1) = (e + p) + 1 /\ e + (p + 2) = (e + p) + 2 /\ e + (p + 3) = (e + p) + 3
    OBVIOUS
  <2>4. /\ F2[(e + p) + 1] = msg.len /\ F2[(e + p) + 2] = msg.type /\ F2[(e + p) + 3] = msg.val
    BY <2>2, <2>3, Zenon
  <2>5. e + q >= (e + p) + 3 /\ (msg.len # 0 => e + q = (e + p) + msg.len)
    BY <1>5, <1>9
  <2>. QED BY <1>14, <2>4, <2>5, Zenon DEF MessageThere
<1>20. Written(F2, G2, stop2, left2, k)
  <2>1. MessageThere(F2, G2[k], Start(stop2, left2, k), stop2[k])
    BY <1>14, <1>17, <1>19, Zenon
  <2>. QED BY <1>17, <1>18, <2>1 DEF Written
<1>. QED BY <1>7, <1>13, <1>14, <1>17, <1>20, Zenon DEF Appended

\* A datagram whole, or cut short and marked bad, arrives behind place e.
LEMMA WireArrives ==
    ASSUME NEW F, NEW d \in Datagrams, NEW e \in Nat, NEW to \in Nat
    PROVE  /\ Send(d) /\ Bytes(d) \in Seq(Nat) /\ to = e + Len(Bytes(d))
           /\ \A a \in 1 .. Len(Bytes(d)) : F[e + a] = Bytes(d)[a]
           => \E at \in [Nat -> Nat] : at[0 + 1] = e /\ Arriving(F, at, wire', 0, to)
<1>0. SUFFICES ASSUME Send(d), Bytes(d) \in Seq(Nat), to = e + Len(Bytes(d)),
                      \A a \in 1 .. Len(Bytes(d)) : F[e + a] = Bytes(d)[a]
               PROVE  \E at \in [Nat -> Nat] : at[0 + 1] = e /\ Arriving(F, at, wire', 0, to)
  OBVIOUS
<1>1. PICK u \in Seq(Nat), N \in Nat : u = Bytes(d) /\ N = Len(u)
  BY <1>0, LenProperties, Zenon
<1>2. to = e + N /\ \A a \in 1 .. N : u[a] = F[e + a]
  BY <1>0, <1>1, Zenon
<1>3. CASE wire' = Words(u, FALSE)
  <2>1. e + Len(u) <= to /\ e + Len(u) = to /\ FALSE \in BOOLEAN
    BY <1>1, <1>2
  <2>2. \A a \in 1 .. Len(u) : u[a] = F[e + a]
    BY <1>1, <1>2, Zenon
  <2>3. \E at \in [Nat -> Nat] : at[0 + 1] = e /\ Arriving(F, at, Words(u, FALSE), 0, to)
    BY <2>1, <2>2, WordsArrive
  <2>. QED BY <1>3, <2>3, Zenon
<1>4. ASSUME NEW n \in 1 .. N, wire' = Words(SubSeq(u, 1, n), TRUE)
      PROVE  \E at \in [Nat -> Nat] : at[0 + 1] = e /\ Arriving(F, at, wire', 0, to)
  <2>1. PICK v : v = SubSeq(u, 1, n)
    OBVIOUS
  <2>2. v \in Seq(Nat) /\ Len(v) = n /\ \A a \in 1 .. n : v[a] = u[a]
    BY <1>1, <2>1, SubSeqProperties
  <2>3. \A a \in 1 .. Len(v) : v[a] = F[e + a]
    <3>1. \A a \in 1 .. n : a \in 1 .. N
      OBVIOUS
    <3>. QED BY <1>2, <2>2, <3>1, Zenon
  <2>4. e + Len(v) <= to /\ Len(v) > 0 /\ TRUE \in BOOLEAN
    BY <1>2, <2>2
  <2>5. \E at \in [Nat -> Nat] : at[0 + 1] = e /\ Arriving(F, at, Words(v, TRUE), 0, to)
    BY <2>2, <2>3, <2>4, WordsArrive
  <2>. QED BY <1>4, <2>1, <2>5, Zenon
<1>5. wire' = Words(u, FALSE) \/ \E n \in 1 .. N : wire' = Words(SubSeq(u, 1, n), TRUE)
  BY <1>0, <1>1, Zenon DEF Send
<1>. QED BY <1>3, <1>4, <1>5

LEMMA DatagramSent ==
    ASSUME NEW F, NEW G, NEW stop, NEW left, NEW at, NEW m, NEW top, NEW w, NEW b, NEW d \in Datagrams
    PROVE  /\ Regular /\ Stream(F, G, stop, left, at, m, top, w, b) /\ StreamInv /\ Send(d)
           => Streams'
<1>0. SUFFICES ASSUME Regular, Stream(F, G, stop, left, at, m, top, w, b), StreamInv, Send(d)
               PROVE  Streams'
  OBVIOUS
<1>1. /\ F \in [Nat -> Nat] /\ G \in [Nat -> Due] /\ stop \in [Nat -> Nat] /\ left \in [Nat -> Nat]
      /\ at \in [Nat -> Nat] /\ m \in Nat /\ top \in Nat /\ w \in Nat /\ b \in Nat
  BY <1>0, Zenon DEF Stream, Ghosts
<1>2. /\ wire = <<>> /\ state' = state /\ buffer' = buffer /\ total_counter' = total_counter
      /\ next_seq_no' = next_seq_no /\ recv_time_r' = recv_time_r
      /\ due' = due \o Messages(d, datagrams + 1) /\ datagrams' = datagrams + 1
  BY <1>0 DEF Send, parser
<1>3. datagrams \in Nat
  BY <1>0 DEF StreamInv
<1>4. PICK pos \in [Nat -> Nat] :
         /\ Bytes(d) \in Seq(Nat) /\ pos[0] = HDR /\ Len(Bytes(d)) = pos[Len(d.msgs)]
         /\ Bytes(d)[3] = Len(d.msgs) /\ Bytes(d)[5] = d.seq
         /\ \A k \in 1 .. Len(d.msgs) : MessageAt(pos, d, k)
  BY Layout, Zenon
<1>5. d.seq \in Nat /\ d.msgs \in Seq(Message)
  BY FeedAssumption, Zenon DEF Message
<1>6. PICK N \in Nat, len \in Nat, e \in Nat, number \in Nat :
         N = Len(d.msgs) /\ len = Len(Bytes(d)) /\ e = stop[top] /\ number = datagrams + 1
  <2>1. Len(d.msgs) \in Nat /\ Len(Bytes(d)) \in Nat
    BY <1>4, <1>5, LenProperties, Zenon
  <2>2. stop[top] \in Nat /\ datagrams + 1 \in Nat
    BY <1>1, <1>3
  <2>. QED BY <2>1, <2>2, Zenon
<1>7. N >= 1
  <2>1. d.msgs # <<>>
    BY <1>0, Zenon DEF Regular, NoHeartbeats
  <2>2. Len(d.msgs) >= 1
    BY <1>5, <2>1
  <2>. QED BY <1>6, <2>2
<1>8. Script(F, G, stop, left, m, top) /\ Queue(G, due, m, top) /\ HeldAt(F, held, b, at[w + 1])
      /\ Arriving(F, at, wire, w, stop[top]) /\ Placed(G, stop, left, m, top, b)
      /\ Timely(G, stop, left, m, top, at[w + 1])
  BY <1>0, Zenon DEF Stream
<1>9. at[w + 1] = e
  <2>1. Len(<<>>) = 0 /\ 0 + 1 = 1
    OBVIOUS
  <2>2. at[w + (0 + 1)] = e
    BY <1>2, <1>6, <1>8, <2>1, Zenon DEF Arriving
  <2>. QED BY <2>1, <2>2, Zenon
<1>10. HDR + 3 <= len /\ len = pos[N] /\ \A i \in 1 .. N : pos[i] <= len
  <2>1. len = pos[N]
    BY <1>4, <1>6, Zenon
  <2>2. \A i \in 1 .. N : MessageAt(pos, d, i)
    BY <1>4, <1>6, Zenon
  <2>3. \A i \in 1 .. N : pos[i] <= len
    BY <1>6, <2>2, Zenon DEF MessageAt
  <2>4. 1 \in 1 .. N /\ 1 - 1 = 0
    BY <1>7
  <2>5. d.msgs[1] \in Message
    BY <1>6, <2>4, MessageFed, Zenon
  <2>6. pos[1] = HDR + Size(d.msgs[1])
    BY <1>4, <2>2, <2>4, Zenon DEF MessageAt
  <2>7. PICK msg \in Message : msg = d.msgs[1]
    BY <2>5
  <2>8. Size(msg) \in Nat /\ Size(msg) >= 3
    BY DEF Message, Size
  <2>9. HDR \in Nat
    BY SizeAssumption
  <2>10. pos[1] >= HDR + 3
    BY <2>6, <2>7, <2>8, <2>9
  <2>11. pos[1] <= len /\ pos[1] \in Nat
    BY <2>3, <2>4
  <2>12. HDR + 3 <= len
    BY <2>9, <2>10, <2>11
  <2>. QED BY <2>1, <2>3, <2>12
<1>. DEFINE msgs == Messages(d, number)
            ends == [i \in 1 .. Len(d.msgs) |-> e + pos[i]]
            lefts == [i \in 1 .. Len(d.msgs) |-> Len(d.msgs) + 1 - i]
<1>11. msgs \in Seq(Due) /\ Len(msgs) = N /\ \A i \in 1 .. N : msgs[i] \in Due
  <2>1. ASSUME NEW i \in 1 .. N
        PROVE  [seq |-> (d.seq + i - 1) % SEQ_RANGE, type |-> d.msgs[i].type,
                val |-> d.msgs[i].val, datagram |-> number] \in Due
    <3>1. d.msgs[i] \in Message
      BY <1>6, MessageFed, Zenon
    <3>2. d.msgs[i].type \in Nat /\ d.msgs[i].val \in Nat
      BY <3>1 DEF Message
    <3>3. (d.seq + i - 1) % SEQ_RANGE \in Nat
      <4>1. d.seq + i - 1 \in Nat
        <5>1. PICK s \in Nat : s = d.seq
          BY <1>5
        <5>2. i \in Nat /\ i >= 1
          OBVIOUS
        <5>3. s + i - 1 \in Nat
          BY <5>2
        <5>. QED BY <5>1, <5>3, Zenon
      <4>. QED BY <4>1, SizeAssumption
    <3>. QED BY <3>2, <3>3 DEF Due
  <2>2. msgs = [i \in 1 .. N |->
          [seq |-> (d.seq + i - 1) % SEQ_RANGE, type |-> d.msgs[i].type,
           val |-> d.msgs[i].val, datagram |-> number]]
    BY <1>6, Zenon DEF Messages
  <2>3. msgs \in [1 .. N -> Due]
    BY <2>1, <2>2
  <2>4. \A S : \A f \in [1 .. N -> S] : f \in Seq(S) /\ Len(f) = N /\ \A i \in 1 .. N : f[i] \in S
    OBVIOUS
  <2>. HIDE DEF msgs
  <2>. QED BY <2>3, <2>4, Zenon
<1>12. PICK F2 \in [Nat -> Nat] : Patched(F, F2, e, Bytes(d), Len(Bytes(d)))
  <2>1. \A a \in 1 .. Len(Bytes(d)) : Bytes(d)[a] \in Nat
    BY <1>4, ElementOfSeq, Zenon
  <2>. QED BY <1>1, <1>6, <2>1, PatchExists, Zenon
<1>13. PICK G2 \in [Nat -> Due] : Patched(G, G2, top, msgs, Len(d.msgs))
  <2>1. \A a \in 1 .. Len(d.msgs) : msgs[a] \in Due
    BY <1>6, <1>11, Zenon
  <2>. QED BY <1>1, <1>6, <2>1, PatchExists, Zenon
<1>14. PICK stop2 \in [Nat -> Nat] : Patched(stop, stop2, top, ends, Len(d.msgs))
  <2>1. \A a \in 1 .. N : [i \in 1 .. N |-> e + pos[i]][a] \in Nat
    <3>1. \A a \in 1 .. N : a \in Nat
      OBVIOUS
    <3>2. \A a \in 1 .. N : pos[a] \in Nat
      BY <3>1
    <3>. QED BY <3>2
  <2>2. \A a \in 1 .. Len(d.msgs) : ends[a] \in Nat
    BY <1>6, <2>1
  <2>. QED BY <1>1, <1>6, <2>2, PatchExists, Zenon
<1>15. PICK left2 \in [Nat -> Nat] : Patched(left, left2, top, lefts, Len(d.msgs))
  <2>1. \A a \in 1 .. N : [i \in 1 .. N |-> N + 1 - i][a] \in Nat
    OBVIOUS
  <2>2. \A a \in 1 .. Len(d.msgs) : lefts[a] \in Nat
    BY <1>6, <2>1
  <2>. QED BY <1>1, <1>6, <2>2, PatchExists, Zenon
<1>16. Extended(F, G, stop, left, F2, G2, stop2, left2, top, e, pos, d, number)
  BY <1>12, <1>13, <1>14, <1>15, Zenon DEF Extended
<1>. HIDE DEF msgs, ends, lefts
<1>17. /\ \A k \in Nat : k <= top => G2[k] = G[k] /\ stop2[k] = stop[k] /\ left2[k] = left[k]
       /\ \A p \in Nat : p <= e => F2[p] = F[p]
       /\ \A a \in 1 .. len : F2[e + a] = Bytes(d)[a]
       /\ \A i \in 1 .. N : G2[top + i] = msgs[i]
       /\ \A i \in 1 .. N : stop2[top + i] = ends[i] /\ left2[top + i] = lefts[i]
  BY <1>6, <1>12, <1>13, <1>14, <1>15, Zenon DEF Patched
<1>18. PICK top2 \in Nat : top2 = top + N
  BY <1>1
<1>19. stop2[top2] = e + len /\ left2[top2] = 1
  <2>1. N \in 1 .. N /\ N + 1 - N = 1
    BY <1>7
  <2>2. stop2[top2] = ends[N] /\ left2[top2] = lefts[N]
    BY <1>17, <1>18, <2>1, Zenon
  <2>3. ends[N] = e + pos[N]
    <3>1. ends = [i \in 1 .. N |-> e + pos[i]]
      BY <1>6, Zenon DEF ends
    <3>. QED BY <2>1, <3>1, Zenon
  <2>4. lefts[N] = 1
    <3>1. lefts = [i \in 1 .. N |-> N + 1 - i]
      BY <1>6, Zenon DEF lefts
    <3>2. lefts[N] = N + 1 - N
      BY <2>1, <3>1, Zenon
    <3>. QED BY <2>1, <3>2, Zenon
  <2>. QED BY <1>10, <2>2, <2>3, <2>4, Zenon
<1>20. ASSUME NEW k \in m + 1 .. top
       PROVE  Written(F2, G2, stop2, left2, k) /\ stop2[k] <= stop2[top2]
  <2>1. Written(F, G, stop, left, k) /\ stop[k] <= e
    BY <1>6, <1>8, Zenon DEF Script
  <2>2. Written(F2, G2, stop2, left2, k) /\ stop2[k] = stop[k]
    <3>1. Kept(F2, G2, stop2, left2, stop, k)
      BY <1>1, <1>16, <2>1, OldWritten, Zenon
    <3>. QED BY <3>1, Zenon DEF Kept
  <2>3. stop[k] \in Nat
    BY <1>1
  <2>4. stop[k] <= e + len
    BY <2>1, <2>3
  <2>. QED BY <1>19, <2>2, <2>4, Zenon
<1>21. left[top] = 1
  BY <1>8, Zenon DEF Script
<1>22. ASSUME NEW i \in 1 .. N
       PROVE  /\ Written(F2, G2, stop2, left2, top + i) /\ stop2[top + i] <= stop2[top2]
              /\ G2[top + i].datagram = number
              /\ (left2[(top + i) - 1] = 1 => stop2[(top + i) - 1] = e)
  <2>1. i \in 1 .. Len(d.msgs) /\ MessageAt(pos, d, i) /\ HDR + 3 <= Len(Bytes(d)) /\ Len(Bytes(d)) \in Nat
    BY <1>4, <1>6, <1>10, Zenon
  <2>2. /\ Written(F2, G2, stop2, left2, top + i)
        /\ stop2[top + i] = e + pos[i] /\ G2[top + i].datagram = number
        /\ (left2[(top + i) - 1] = 1 => stop2[(top + i) - 1] = e)
    <3>1. Appended(F2, G2, stop2, left2, top, e, pos, number, i)
      BY <1>0, <1>1, <1>4, <1>6, <1>16, <1>21, <2>1, NewWritten, Zenon
    <3>. QED BY <3>1, Zenon DEF Appended
  <2>3. e + pos[i] <= e + len
    <3>1. pos[i] <= len /\ pos[i] \in Nat
      BY <1>10
    <3>. QED BY <3>1
  <2>. QED BY <1>19, <2>2, <2>3, Zenon
<1>23. \A k \in m + 1 .. top2 : k \in m + 1 .. top \/ \E i \in 1 .. N : k = top + i
  <2>1. ASSUME NEW k \in m + 1 .. top2, k \notin m + 1 .. top PROVE \E i \in 1 .. N : k = top + i
    <3>1. k - top \in 1 .. N /\ k = top + (k - top)
      BY <1>1, <1>18, <2>1
    <3>. QED BY <3>1
  <2>. QED BY <2>1
<1>24. Script(F2, G2, stop2, left2, m, top2)
  BY <1>19, <1>20, <1>22, <1>23, Zenon DEF Script
<1>25. Queue(G2, due', m, top2)
  <2>1. due \in Seq(Due) /\ top = m + Len(due) /\ \A j \in 1 .. Len(due) : due[j] = G[m + j]
    BY <1>8, Zenon DEF Queue
  <2>20. PICK z : z = due \o msgs
    OBVIOUS
  <2>2. PICK n \in Nat : n = Len(due) /\ z = due \o msgs
    BY <2>1, <2>20, LenProperties, Zenon
  <2>3. /\ z \in Seq(Due) /\ Len(z) = n + N
        /\ \A a \in 1 .. n : z[a] = due[a]
        /\ \A a \in 1 .. N : z[n + a] = msgs[a]
    <3>1. /\ due \o msgs \in Seq(Due) /\ Len(due \o msgs) = Len(due) + Len(msgs)
          /\ \A a \in 1 .. Len(due) : (due \o msgs)[a] = due[a]
          /\ \A a \in 1 .. Len(msgs) : (due \o msgs)[Len(due) + a] = msgs[a]
      <4>1. due \in Seq(Due) /\ msgs \in Seq(Due)
        BY <1>11, <2>1
      <4>. QED BY <4>1, Joined
    <3>. QED BY <1>11, <2>2, <3>1, Zenon
  <2>4. top = m + n
    BY <2>1, <2>2, Zenon
  <2>5. ASSUME NEW j \in 1 .. n + N PROVE z[j] = G2[m + j]
    <3>1. CASE j \in 1 .. n
      <4>1. m + j \in Nat /\ m + j <= top
        BY <1>1, <2>4, <3>1
      <4>2. G2[m + j] = G[m + j]
        BY <1>17, <4>1, Zenon
      <4>. QED BY <2>1, <2>2, <2>3, <3>1, <4>2, Zenon
    <3>2. CASE j \notin 1 .. n
      <4>1. PICK i \in 1 .. N : j = n + i
        <5>1. j - n \in 1 .. N /\ j = n + (j - n)
          BY <3>2
        <5>. QED BY <5>1
      <4>2. m + j = top + i
        BY <1>1, <2>4, <4>1
      <4>3. z[j] = msgs[i]
        BY <2>3, <4>1, Zenon
      <4>4. G2[m + j] = msgs[i]
        BY <1>17, <4>2, Zenon
      <4>. QED BY <4>3, <4>4, Zenon
    <3>. QED BY <3>1, <3>2
  <2>6. top2 = m + (n + N)
    BY <1>1, <1>18, <2>4
  <2>7. due' = z
    BY <1>2, <1>6, <2>2, Zenon DEF msgs
  <2>8. Queue(G2, z, m, top2)
    BY <2>3, <2>5, <2>6, Zenon DEF Queue
  <2>. QED BY <2>7, <2>8, Zenon
<1>26. HeldAt(F2, held', b, e)
  <2>1. PICK u : u = held /\ u = held'
    BY <1>2 DEF held
  <2>2. u \in Seq(Nat) /\ e = b + Len(u) /\ \A a \in 1 .. Len(u) : u[a] = F[b + a]
    BY <1>8, <1>9, <2>1, Zenon DEF HeldAt
  <2>3. PICK n \in Nat : n = Len(u)
    BY <2>2, LenProperties, Zenon
  <2>4. \A a \in 1 .. n : b + a \in Nat /\ b + a <= e
    BY <1>1, <2>2, <2>3
  <2>5. \A a \in 1 .. n : u[a] = F2[b + a]
    BY <1>17, <2>2, <2>3, <2>4, Zenon
  <2>6. HeldAt(F2, u, b, e)
    BY <2>2, <2>3, <2>5, Zenon DEF HeldAt
  <2>. QED BY <2>1, <2>6, Zenon
<1>27. PICK at2 \in [Nat -> Nat] : at2[0 + 1] = e /\ Arriving(F2, at2, wire', 0, stop2[top2])
  <2>1. PICK to \in Nat : to = e + len
    OBVIOUS
  <2>2. \A a \in 1 .. Len(Bytes(d)) : F2[e + a] = Bytes(d)[a]
    BY <1>6, <1>17, Zenon
  <2>3. to = e + Len(Bytes(d))
    BY <1>6, <2>1, Zenon
  <2>4. \E at2 \in [Nat -> Nat] : at2[0 + 1] = e /\ Arriving(F2, at2, wire', 0, to)
    BY <1>0, <1>4, <2>2, <2>3, WireArrives, Zenon
  <2>. QED BY <1>19, <2>1, <2>4, Zenon
<1>28. m \in Nat /\ m <= top
  <2>1. Len(due) \in Nat /\ top = m + Len(due)
    BY <1>8, LenProperties, Zenon DEF Queue
  <2>. QED BY <1>1, <2>1
<1>29. Placed(G2, stop2, left2, m, top2, b)'
  <2>1. stop2[m] = stop[m] /\ left2[m] = left[m]
    BY <1>17, <1>28, Zenon
  <2>2. CASE state = "ReadMsg"
    <3>1. /\ b = Start(stop, left, m + 1) /\ m < top /\ total_counter = left[m + 1]
          /\ next_seq_no = G[m + 1].seq /\ G[m + 1].datagram <= recv_time_r
      BY <1>8, <2>2, Zenon DEF Placed
    <3>2. m + 1 \in Nat /\ m + 1 <= top /\ (m + 1) - 1 = m /\ m < top2
      BY <1>1, <1>18, <3>1
    <3>3. G2[m + 1] = G[m + 1] /\ left2[m + 1] = left[m + 1]
      BY <1>17, <3>2, Zenon
    <3>4. Start(stop2, left2, m + 1) = Start(stop, left, m + 1)
      BY <2>1, <3>2, Zenon DEF Start
    <3>5. /\ b = Start(stop2, left2, m + 1) /\ total_counter' = left2[m + 1]
          /\ next_seq_no' = G2[m + 1].seq /\ G2[m + 1].datagram <= recv_time_r'
      BY <1>2, <3>1, <3>3, <3>4, Zenon
    <3>6. state' = "ReadMsg"
      BY <1>2, <2>2
    <3>. QED BY <3>2, <3>5, <3>6 DEF Placed
  <2>3. CASE state # "ReadMsg"
    <3>1. b = stop[m] /\ left[m] = 1
      BY <1>8, <2>3, Zenon DEF Placed
    <3>2. state' # "ReadMsg"
      BY <1>2, <2>3
    <3>. QED BY <2>1, <3>1, <3>2 DEF Placed
  <2>. QED BY <2>2, <2>3
<1>30. Timely(G2, stop2, left2, m, top2, e)'
  <2>1. ASSUME NEW k \in m + 1 .. top
        PROVE  G2[k].datagram <= datagrams' /\ (left2[k-1] = 1 /\ G2[k].datagram > recv_time_r' => stop2[k-1] >= e)
    <3>1. k \in Nat /\ k <= top /\ k - 1 \in Nat /\ k - 1 <= top
      BY <1>1
    <3>2. G2[k] = G[k] /\ left2[k-1] = left[k-1] /\ stop2[k-1] = stop[k-1] /\ G[k] \in Due
      BY <1>1, <1>17, <3>1, Zenon
    <3>3. G[k].datagram <= datagrams /\ (left[k-1] = 1 /\ G[k].datagram > recv_time_r => stop[k-1] >= e)
      BY <1>8, <1>9, Zenon DEF Timely
    <3>4. PICK x \in Nat : x = G[k].datagram
      BY <3>2 DEF Due
    <3>5. x <= datagrams + 1
      BY <1>3, <3>3, <3>4
    <3>. QED BY <1>2, <3>2, <3>3, <3>4, <3>5, Zenon
  <2>2. ASSUME NEW i \in 1 .. N
        PROVE  /\ G2[top + i].datagram <= datagrams'
               /\ left2[(top + i) - 1] = 1 /\ G2[top + i].datagram > recv_time_r' => stop2[(top + i) - 1] >= e
    <3>1. e >= e /\ number <= number
      OBVIOUS
    <3>. QED BY <1>2, <1>6, <1>22, <3>1, Zenon
  <2>3. ASSUME NEW k \in m + 1 .. top2
        PROVE  G2[k].datagram <= datagrams' /\ (left2[k-1] = 1 /\ G2[k].datagram > recv_time_r' => stop2[k-1] >= e)
    BY <1>23, <2>1, <2>2, Zenon
  <2>. QED BY <2>3 DEF Timely
<1>31. Ghosts(F2, G2, stop2, left2, at2, m, top2, 0, b)
  BY <1>1, <1>18 DEF Ghosts
<1>32. Stream(F2, G2, stop2, left2, at2, m, top2, 0, b)'
  <2>1. HeldAt(F2, held', b, at2[0 + 1])
    BY <1>26, <1>27, Zenon
  <2>2. Timely(G2, stop2, left2, m, top2, at2[0 + 1])'
    BY <1>27, <1>30 DEF Timely
  <2>. QED BY <1>24, <1>25, <1>27, <1>29, <1>31, <2>1, <2>2 DEF Stream
<1>. QED BY <1>32 DEF Streams

---------------------------------------------------------------------------
\* The invariant and what it says.

LEMMA StreamStep == Regular /\ StreamInv /\ [Next]_vars => StreamInv'
<1>0. SUFFICES ASSUME Regular, StreamInv, [Next]_vars PROVE StreamInv'
  OBVIOUS
<1>1. /\ BufferInv /\ recv_time_r \in Nat /\ datagrams \in Nat /\ recv_time_r <= datagrams
      /\ state \in {"Noop", "Reset", "ReadHdr", "ReadMsg"}
      /\ (~flushed => seconds_r = clock /\ Streams)
  BY <1>0 DEF StreamInv
<1>2. BufferInv'
  BY <1>0, <1>1, BufferStep
<1>3. CASE WordCycle \/ IdleCycle
  <2>1. PICK in : Cycle(in)
    BY <1>3 DEF WordCycle, IdleCycle
  <2>2. (~flushed' => ~flushed) /\ state' \in {"Noop", "Reset", "ReadHdr", "ReadMsg"}
    BY <1>1, <2>1 DEF Cycle, ReadHeader, AwaitHeader, FlushMalformed, ReadMessage, AwaitMessage,
                      KeepBuffering, NextState
  <2>3. recv_time_r' \in Nat /\ datagrams' \in Nat /\ recv_time_r' <= datagrams'
    BY <1>1, <1>3 DEF WordCycle, IdleCycle, ds_timestamp
  <2>4. ASSUME ~flushed' PROVE seconds_r' = clock' /\ Streams'
    <3>1. PICK F, G, stop, left, at, m, top, w, b : Stream(F, G, stop, left, at, m, top, w, b)
      BY <1>1, <2>2, <2>4, Zenon DEF Streams
    <3>2. CASE WordCycle
      <4>1. Input(F, G, stop, left, at, m, top, w + 1, b, Head(wire))
        BY <1>0, <2>2, <2>4, <3>1, <3>2, WordTaken
      <4>2. Cycle(Head(wire))
        BY <3>2 DEF WordCycle
      <4>. QED BY <2>4, <4>1, <4>2, CycleKeeps
    <3>3. CASE IdleCycle
      <4>1. Input(F, G, stop, left, at, m, top, w, b, NoWord)
        BY <1>0, <2>2, <2>4, <3>1, <3>3, NoWordTaken
      <4>2. Cycle(NoWord)
        BY <3>3 DEF IdleCycle
      <4>. QED BY <2>4, <4>1, <4>2, CycleKeeps
    <3>. QED BY <1>3, <3>2, <3>3
  <2>. QED BY <1>2, <2>2, <2>3, <2>4 DEF StreamInv
<1>4. CASE LeaveReset
  <2>1. held' = held /\ UNCHANGED <<recv_time_r, wire, due, flushed, datagrams>>
    BY <1>4 DEF LeaveReset, held
  <2>2. state = "Reset" /\ state' = "ReadHdr" /\ seconds_r' = clock'
    BY <1>4 DEF LeaveReset
  <2>3. ASSUME ~flushed PROVE Streams'
    <3>1. PICK F, G, stop, left, at, m, top, w, b : Stream(F, G, stop, left, at, m, top, w, b)
      BY <1>1, <2>3, Zenon DEF Streams
    <3>2. Placed(G, stop, left, m, top, b)'
      BY <2>2, <3>1 DEF Stream, Placed
    <3>3. Timely(G, stop, left, m, top, at[w + 1])'
      BY <2>1, <3>1 DEF Stream, Timely
    <3>4. Stream(F, G, stop, left, at, m, top, w, b)'
      BY <2>1, <3>1, <3>2, <3>3 DEF Stream
    <3>. QED BY <3>4 DEF Streams
  <2>. QED BY <1>1, <1>2, <2>1, <2>2, <2>3 DEF StreamInv
<1>5. CASE PressReset
  <2>1. Drained'
    BY <1>5 DEF PressReset, Drained, held
  <2>2. Streams'
    BY <2>1, BadEnd
  <2>. QED BY <1>1, <1>2, <1>5, <2>2 DEF PressReset, StreamInv
<1>6. ASSUME NEW d \in Datagrams, Send(d) PROVE StreamInv'
  <2>1. /\ state' = state /\ seconds_r' = seconds_r /\ recv_time_r' = recv_time_r
        /\ clock' = clock /\ flushed' = flushed /\ datagrams' = datagrams + 1
    BY <1>6 DEF Send, parser
  <2>2. ASSUME ~flushed PROVE Streams'
    <3>1. PICK F, G, stop, left, at, m, top, w, b : Stream(F, G, stop, left, at, m, top, w, b)
      BY <1>1, <2>2, Zenon DEF Streams
    <3>. QED BY <1>0, <1>6, <3>1, DatagramSent, Zenon
  <2>. QED BY <1>1, <1>2, <2>1, <2>2 DEF StreamInv
<1>7. CASE UNCHANGED vars
  <2>1. /\ UNCHANGED <<state, total_counter, next_seq_no, seconds_r, recv_time_r, clock, flushed>>
        /\ UNCHANGED <<wire, due, held, datagrams>>
    BY <1>7 DEF vars, parser, held
  <2>2. ASSUME ~flushed PROVE Streams'
    <3>1. PICK F, G, stop, left, at, m, top, w, b : Stream(F, G, stop, left, at, m, top, w, b)
      BY <1>1, <2>2, Zenon DEF Streams
    <3>2. Placed(G, stop, left, m, top, b)'
      BY <2>1, <3>1 DEF Stream, Placed
    <3>3. Timely(G, stop, left, m, top, at[w + 1])'
      BY <2>1, <3>1 DEF Stream, Timely
    <3>4. Stream(F, G, stop, left, at, m, top, w, b)'
      BY <2>1, <3>1, <3>2, <3>3 DEF Stream
    <3>. QED BY <3>4 DEF Streams
  <2>. QED BY <1>1, <1>2, <2>1, <2>2 DEF StreamInv
<1>. QED BY <1>0, <1>3, <1>4, <1>5, <1>6, <1>7 DEF Next, Clock

LEMMA StreamInit == Init => StreamInv
<1>. SUFFICES ASSUME Init PROVE StreamInv
  OBVIOUS
<1>1. BufferInv
  <2>1. <<>> \in Seq(Nat) /\ <<>> \in Seq(Word) /\ Len(<<>>) = 0
    OBVIOUS
  <2>. QED BY <2>1, SizeAssumption DEF Init, BufferInv
<1>2. Drained
  BY DEF Init, Drained, held
<1>3. Streams
  BY <1>2, NothingLeft
<1>. QED BY <1>1, <1>3 DEF Init, StreamInv

\* A command is made of the message at the head of the stream.
LEMMA CommandIsDue ==
    Regular /\ StreamInv /\ [Next]_vars /\ ~(UNCHANGED vars) /\ Emits /\ ~flushed
    => /\ due # <<>>
       /\ cmd'.type = Head(due).type /\ cmd'.val = Head(due).val
       /\ cmd'.seq = Head(due).seq /\ cmd'.seconds = clock
       /\ cmd'.recv >= Head(due).datagram
<1>0. SUFFICES ASSUME Regular, StreamInv, [Next]_vars, ~(UNCHANGED vars), Emits, ~flushed
      PROVE  /\ due # <<>>
             /\ cmd'.type = Head(due).type /\ cmd'.val = Head(due).val
             /\ cmd'.seq = Head(due).seq /\ cmd'.seconds = clock
             /\ cmd'.recv >= Head(due).datagram
  OBVIOUS
<1>1. PICK F, G, stop, left, at, m, top, w, b : Stream(F, G, stop, left, at, m, top, w, b)
  BY <1>0, Zenon DEF StreamInv, Streams
<1>2. WordCycle \/ IdleCycle
  <2>1. datagrams \in Nat
    BY <1>0 DEF StreamInv
  <2>2. cmd' # <<>> /\ datagrams' = datagrams
    BY <1>0 DEF Emits
  <2>3. ~LeaveReset /\ ~PressReset
    BY <2>2 DEF LeaveReset, PressReset
  <2>4. ASSUME NEW d \in Datagrams PROVE ~Send(d)
    <3>1. Send(d) => datagrams' = datagrams + 1
      BY Zenon DEF Send
    <3>2. datagrams + 1 # datagrams
      BY <2>1
    <3>. QED BY <2>2, <3>1, <3>2, Zenon
  <2>. QED BY <1>0, <2>3, <2>4, Zenon DEF Next, Clock
<1>3. PICK in, w2 : Input(F, G, stop, left, at, m, top, w2, b, in) /\ Cycle(in)
  <2>1. CASE WordCycle
    <3>1. Cycle(Head(wire))
      BY <2>1 DEF WordCycle
    <3>. QED BY <1>0, <1>1, <2>1, <3>1, WordTaken
  <2>2. CASE IdleCycle
    <3>1. Cycle(NoWord)
      BY <2>2 DEF IdleCycle
    <3>. QED BY <1>0, <1>1, <2>2, <3>1, NoWordTaken
  <2>. QED BY <1>2, <2>1, <2>2
<1>4. cmd' # <<>>
  BY <1>0 DEF Emits
<1>5. ReadMessage(in) /\ cmd' = Command(in)
  BY <1>3, <1>4 DEF Cycle, ReadHeader, AwaitHeader, FlushMalformed, ReadMessage, AwaitMessage, KeepBuffering
<1>6. /\ due # <<>>
      /\ msg_type(in) = Head(due).type /\ new_uxx_be(in, 2) = Head(due).val
      /\ next_seq_no = Head(due).seq /\ seconds_r = clock /\ recv_time_r >= Head(due).datagram
  BY <1>3, <1>5, MessageTaken
<1>7. /\ cmd'.type = msg_type(in) /\ cmd'.val = new_uxx_be(in, 2) /\ cmd'.seconds = seconds_r
      /\ cmd'.seq = next_seq_no /\ cmd'.recv = recv_time_r
  BY <1>5 DEF Command
<1>. QED BY <1>6, <1>7, Zenon

\* For a feed without heartbeats: each command is the next message due,
\* with its own sequence number and the time of the last Time message before it, as
\* long as the parser did not lose its place.
THEOREM EveryCommandIsDue == WellFormed /\ NoHeartbeats => (Spec => EmitsWhatIsDue)
<1>0. SUFFICES ASSUME Regular PROVE Spec => EmitsWhatIsDue
  BY DEF Regular
<1>1. StreamInv /\ [Next]_vars
      => [Emits /\ ~flushed => /\ due # <<>>
                               /\ cmd'.type = Head(due).type /\ cmd'.val = Head(due).val
                               /\ cmd'.seq = Head(due).seq /\ cmd'.seconds = clock]_vars
  BY <1>0, CommandIsDue
<1>2. StreamInv /\ [Next]_vars => StreamInv'
  BY <1>0, StreamStep
<1>. QED BY <1>1, <1>2, StreamInit, PTL DEF Spec, EmitsWhatIsDue

\* And it bears a time stamp that is not older than its datagram.
THEOREM EveryCommandTimely == WellFormed /\ NoHeartbeats => (Spec => RecvTimeOfOwnDatagram)
<1>0. SUFFICES ASSUME Regular PROVE Spec => RecvTimeOfOwnDatagram
  BY DEF Regular
<1>1. StreamInv /\ [Next]_vars
      => [Emits /\ ~flushed /\ due # <<>> => cmd'.recv >= Head(due).datagram]_vars
  BY <1>0, CommandIsDue
<1>2. StreamInv /\ [Next]_vars => StreamInv'
  BY <1>0, StreamStep
<1>. QED BY <1>1, <1>2, StreamInit, PTL DEF Spec, RecvTimeOfOwnDatagram

\* "total_counter already returns the state machine to Read.Sequenced.Unit.Header
\* after the unit's last message" (bats.parser.v:27), for the units that have one:
\* without heartbeats the parser waits for a header when all that was sent is
\* parsed.  With one it does not: BatsParserHeartbeat.cfg shows it.
THEOREM ReadyWithoutHeartbeats == WellFormed /\ NoHeartbeats => (Spec => []ReadyForNextUnit)
<1>0. SUFFICES ASSUME Regular PROVE Spec => []ReadyForNextUnit
  BY DEF Regular
<1>1. StreamInv => ReadyForNextUnit
  <2>0. SUFFICES ASSUME StreamInv, state = "ReadMsg", wire = <<>>, ~flushed, buffer = <<>> PROVE FALSE
    BY DEF ReadyForNextUnit
  <2>1. PICK F, G, stop, left, at, m, top, w, b : Stream(F, G, stop, left, at, m, top, w, b)
    BY <2>0, Zenon DEF StreamInv, Streams
  <2>2. /\ stop \in [Nat -> Nat] /\ m \in Nat /\ top \in Nat /\ b \in Nat /\ w \in Nat
        /\ b = Start(stop, left, m + 1) /\ m < top
    BY <2>0, <2>1 DEF Stream, Ghosts, Placed
  <2>3. at[w + 1] = stop[top]
    <3>1. Len(<<>>) = 0 /\ 0 + 1 = 1
      OBVIOUS
    <3>2. at[w + (0 + 1)] = stop[top]
      BY <2>0, <2>1, <3>1, Zenon DEF Stream, Arriving
    <3>. QED BY <3>1, <3>2, Zenon
  <2>4. at[w + 1] = b
    <3>1. held = <<>> /\ Len(<<>>) = 0
      BY <2>0 DEF held
    <3>2. at[w + 1] = b + 0
      BY <2>1, <3>1, Zenon DEF Stream, HeldAt
    <3>. QED BY <2>2, <3>2
  <2>5. m + 1 \in m + 1 .. top /\ stop[m + 1] \in Nat /\ stop[top] \in Nat
    BY <2>2
  <2>6. Written(F, G, stop, left, m + 1) /\ stop[m + 1] <= stop[top]
    BY <2>1, <2>5, Zenon DEF Stream, Script
  <2>7. stop[m + 1] >= b + 3
    <3>1. MessageThere(F, G[m + 1], Start(stop, left, m + 1), stop[m + 1])
      BY <2>6 DEF Written
    <3>. QED BY <2>2, <3>1, Zenon DEF MessageThere
  <2>. QED BY <2>2, <2>3, <2>4, <2>5, <2>6, <2>7
<1>2. StreamInv /\ [Next]_vars => StreamInv'
  BY <1>0, StreamStep
<1>. QED BY <1>1, <1>2, StreamInit, PTL DEF Spec
============================================================================
