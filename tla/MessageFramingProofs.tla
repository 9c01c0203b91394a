------------------------- MODULE MessageFramingProofs -------------------------
(***************************************************************************)
(* Proofs about MessageFraming: its types, and that both parsers hand over *)
(* what was sent.  What a stream still holds is described by the places at *)
(* which its packets begin.                                                *)
(***************************************************************************)
EXTENDS MessageFraming, SequenceTheorems, TLAPS

(***************************************************************************)
(* Streams of packets                                                      *)
(***************************************************************************)

\* The bytes are the packets of the messages after the first n: packet j ends
\* where cut[j] says.
Cuts(cut, bytes, messages, n) ==
    /\ cut \in [n .. Len(messages) -> 0 .. Len(bytes)]
    /\ cut[n] = 0 /\ cut[Len(messages)] = Len(bytes)
    /\ \A j \in n .. Len(messages) : \A k \in j .. Len(messages) : cut[j] <= cut[k]
    /\ \A j \in n + 1 .. Len(messages) :
          /\ cut[j] = cut[j - 1] + HeaderSize + Size[messages[j]]
          /\ \A i \in 1 .. HeaderSize + Size[messages[j]] :
                bytes[cut[j - 1] + i] = <<messages[j], i>>

Stream(bytes, messages, n) ==
    /\ n \in 0 .. Len(messages)
    /\ \E cut : Cuts(cut, bytes, messages, n)

LEMMA SizeType ==
    ASSUME NEW m \in Message
    PROVE  /\ Size[m] \in Nat /\ Size[m] >= 1
           /\ Size[m] <= AgentLimit /\ Size[m] <= ServerLimit
           /\ \A i \in 1 .. HeaderSize + Size[m] : <<m, i>> \in Byte
BY SizeAssumption DEF Byte, Smaller, HeaderSize

LEMMA HeaderFirst == \A x, y \in Nat : x + (HeaderSize + y) = x + HeaderSize + y
BY DEF HeaderSize

LEMMA PacketType ==
    ASSUME NEW m \in Message
    PROVE  /\ Packet(m) \in Seq(Byte)
           /\ Len(Packet(m)) = HeaderSize + Size[m]
           /\ \A i \in 1 .. HeaderSize + Size[m] : Packet(m)[i] = <<m, i>>
<1>1. HeaderSize + Size[m] \in Nat
  BY SizeType DEF HeaderSize
<1>2. Packet(m) \in [1 .. HeaderSize + Size[m] -> Byte]
  BY SizeType DEF Packet
<1> QED  BY <1>1, <1>2 DEF Packet

\* Nothing is left when all has been handled, and only then.
LEMMA StreamEmpty ==
    ASSUME NEW messages \in Seq(Message)
    PROVE  Stream(<<>>, messages, Len(messages))
<1> DEFINE n == Len(messages)
           cut == [j \in n .. n |-> 0]
<1>1. Cuts(cut, <<>>, messages, n)
  BY DEF Cuts
<1> QED  BY <1>1 DEF Stream

LEMMA StreamDone ==
    ASSUME NEW messages \in Seq(Message), NEW bytes \in Seq(Byte), NEW n,
           Stream(bytes, messages, n)
    PROVE  /\ n \in 0 .. Len(messages)
           /\ bytes = <<>> <=> n = Len(messages)
<1>1. PICK cut : Cuts(cut, bytes, messages, n)
  BY DEF Stream
<1>2. n \in Nat /\ Len(messages) \in Nat /\ Len(bytes) \in Nat /\ n <= Len(messages)
  BY DEF Stream
<1>3. n = Len(messages) => bytes = <<>>
  BY <1>1, <1>2 DEF Cuts
<1>4. ASSUME n # Len(messages) PROVE bytes # <<>>
  <2>1. n + 1 \in n + 1 .. Len(messages) /\ messages[n + 1] \in Message
    BY <1>2, <1>4
  <2>2. cut[n + 1] = HeaderSize + Size[messages[n + 1]] /\ cut[n + 1] \in 0 .. Len(bytes)
    BY <1>1, <1>2, <2>1, SizeType DEF Cuts, HeaderSize
  <2> QED  BY <2>1, <2>2, SizeType, <1>2 DEF HeaderSize
<1> QED  BY <1>2, <1>3, <1>4 DEF Stream

\* Sending a message appends its packet.
LEMMA StreamAppend ==
    ASSUME NEW messages \in Seq(Message), NEW bytes \in Seq(Byte), NEW n, NEW m \in Message,
           Stream(bytes, messages, n)
    PROVE  Stream(bytes \o Packet(m), Append(messages, m), n)
<1> DEFINE all == bytes \o Packet(m)
           more == Append(messages, m)
           size == HeaderSize + Size[m]
           N == Len(messages)
           L == Len(bytes)
<1>1. PICK cut : Cuts(cut, bytes, messages, n)
  BY DEF Stream
<1>2. n \in Nat /\ N \in Nat /\ L \in Nat /\ n <= N /\ size \in Nat
  BY SizeType DEF Stream, HeaderSize
<1>3. /\ Len(all) = L + size
      /\ \A i \in 1 .. L : all[i] = bytes[i]
      /\ \A i \in 1 .. size : all[L + i] = <<m, i>>
  <2>1. \A i \in 1 .. L + size : all[i] = IF i <= L THEN bytes[i] ELSE Packet(m)[i - L]
    BY PacketType, ConcatProperties
  <2>2. Len(all) = L + size
    BY PacketType, ConcatProperties
  <2>3. \A i \in 1 .. size : L + i \in 1 .. L + size /\ ~(L + i <= L) /\ L + i - L = i
    BY <1>2
  <2>4. \A i \in 1 .. L : i \in 1 .. L + size /\ i <= L
    BY <1>2
  <2>5. \A i \in 1 .. size : all[L + i] = <<m, i>>
    BY <2>1, <2>3, PacketType
  <2>6. \A i \in 1 .. L : all[i] = bytes[i]
    BY <2>1, <2>4
  <2> QED  BY <2>2, <2>5, <2>6
<1>4. /\ more \in Seq(Message) /\ Len(more) = N + 1
      /\ \A j \in 1 .. N : more[j] = messages[j]
      /\ more[N + 1] = m
  OBVIOUS
<1> DEFINE longer == [j \in n .. N + 1 |-> IF j = N + 1 THEN L + size ELSE cut[j]]
<1> HIDE DEF all, more, size
<1>5. Cuts(longer, all, more, n)
  <2>1. \A j \in n .. N : cut[j] \in 0 .. L
    BY <1>1 DEF Cuts
  <2>2. longer \in [n .. Len(more) -> 0 .. Len(all)]
    BY <1>2, <1>3, <1>4, <2>1
  <2>3. longer[n] = 0 /\ longer[Len(more)] = Len(all)
    BY <1>1, <1>2, <1>3, <1>4 DEF Cuts
  <2>4. \A j \in n .. N + 1 : \A k \in j .. N + 1 : longer[j] <= longer[k]
    BY <1>1, <1>2, <2>1 DEF Cuts
  <2>5. ASSUME NEW j \in n + 1 .. N
        PROVE  /\ longer[j] = longer[j - 1] + HeaderSize + Size[more[j]]
               /\ \A i \in 1 .. HeaderSize + Size[more[j]] :
                     all[longer[j - 1] + i] = <<more[j], i>>
    <3>1. j \in n .. N /\ j - 1 \in n .. N /\ j # N + 1 /\ j - 1 # N + 1 /\ j \in 1 .. N
      BY <1>2
    <3>2. longer[j] = cut[j] /\ longer[j - 1] = cut[j - 1] /\ more[j] = messages[j]
      BY <1>2, <1>4, <3>1
    <3>3. cut[j] = cut[j - 1] + HeaderSize + Size[messages[j]]
      BY <1>1 DEF Cuts
    <3>4. messages[j] \in Message
      BY <3>1
    <3>5. HeaderSize + Size[messages[j]] \in Nat
      BY <3>4, SizeType DEF HeaderSize
    <3>6. cut[j] \in 0 .. L /\ cut[j - 1] \in 0 .. L
      BY <2>1, <3>1
    <3>7. \A i \in 1 .. HeaderSize + Size[messages[j]] :
              bytes[cut[j - 1] + i] = <<messages[j], i>>
      BY <1>1 DEF Cuts
    <3>8. \A i \in 1 .. HeaderSize + Size[messages[j]] : all[cut[j - 1] + i] = <<messages[j], i>>
      <4>1. cut[j - 1] + (HeaderSize + Size[messages[j]]) = cut[j]
        BY <1>2, <3>3, <3>4, <3>6, HeaderFirst, SizeType
      <4>2. \A x, y \in 0 .. L : \A t \in Nat : x + t = y => \A i \in 1 .. t : x + i \in 1 .. L
        BY <1>2
      <4>3. \A i \in 1 .. HeaderSize + Size[messages[j]] : cut[j - 1] + i \in 1 .. L
        BY <3>5, <3>6, <4>1, <4>2
      <4> QED  BY <1>3, <3>7, <4>3
    <3> QED  BY <3>2, <3>3, <3>8
  <2>6. /\ longer[N + 1] = longer[N] + size
        /\ \A i \in 1 .. size : all[longer[N] + i] = <<m, i>>
    <3>1. cut[N] = L
      BY <1>1 DEF Cuts
    <3>2. longer[N + 1] = L + size /\ longer[N] = L
      BY <1>2, <3>1
    <3> HIDE DEF longer
    <3> QED  BY <1>3, <3>2
  <2>7. \A j \in n + 1 .. N + 1 :
            /\ longer[j] = longer[j - 1] + HeaderSize + Size[more[j]]
            /\ \A i \in 1 .. HeaderSize + Size[more[j]] :
                  all[longer[j - 1] + i] = <<more[j], i>>
    <3>1. \A j \in n + 1 .. N + 1 : j = N + 1 \/ j \in n + 1 .. N
      BY <1>2
    <3>2. longer[N] = L /\ N + 1 - 1 = N
      BY <1>1, <1>2 DEF Cuts
    <3> HIDE DEF longer
    <3>3. longer[N + 1] = longer[N + 1 - 1] + HeaderSize + Size[more[N + 1]]
      <4>1. L + (HeaderSize + Size[m]) = L + HeaderSize + Size[m]
        BY <1>2, HeaderFirst, SizeType
      <4> QED  BY <1>4, <2>6, <3>2, <4>1 DEF size
    <3>4. \A i \in 1 .. HeaderSize + Size[more[N + 1]] :
              all[longer[N + 1 - 1] + i] = <<more[N + 1], i>>
      BY <1>4, <2>6, <3>2 DEF size
    <3>5. ASSUME NEW j \in n + 1 .. N + 1
          PROVE  /\ longer[j] = longer[j - 1] + HeaderSize + Size[more[j]]
                 /\ \A i \in 1 .. HeaderSize + Size[more[j]] :
                       all[longer[j - 1] + i] = <<more[j], i>>
      <4>1. CASE j = N + 1
        BY <4>1, <3>3, <3>4
      <4>2. CASE j \in n + 1 .. N
        BY <4>2, <2>5
      <4> QED  BY <3>1, <4>1, <4>2
    <3> QED  BY <3>5
  <2> QED  BY <1>4, <2>2, <2>3, <2>4, <2>7 DEF Cuts
<1> QED  BY <1>2, <1>4, <1>5 DEF Stream, all, more

LEMMA FirstRest ==
    ASSUME NEW bytes \in Seq(Byte), NEW n \in 0 .. Len(bytes)
    PROVE  /\ First(n, bytes) \in Seq(Byte) /\ Len(First(n, bytes)) = n
           /\ \A i \in 1 .. n : First(n, bytes)[i] = bytes[i]
           /\ Rest(n, bytes) \in Seq(Byte) /\ Len(Rest(n, bytes)) = Len(bytes) - n
           /\ \A i \in 1 .. Len(bytes) - n : Rest(n, bytes)[i] = bytes[n + i]
           /\ First(n, bytes) \o Rest(n, bytes) = bytes
<1>1. Len(bytes) \in Nat /\ \A i \in 1 .. Len(bytes) : bytes[i] \in Byte
  OBVIOUS
<1>2. /\ First(n, bytes) \in Seq(Byte) /\ Len(First(n, bytes)) = n
      /\ \A i \in 1 .. n : First(n, bytes)[i] = bytes[i]
  BY <1>1 DEF First
<1>3. /\ Rest(n, bytes) \in Seq(Byte) /\ Len(Rest(n, bytes)) = Len(bytes) - n
      /\ \A i \in 1 .. Len(bytes) - n : Rest(n, bytes)[i] = bytes[n + i]
  BY <1>1 DEF Rest
<1>4. First(n, bytes) \o Rest(n, bytes) = bytes
  <2>1. 1 \in 1 .. Len(bytes) + 1 /\ n \in 1 - 1 .. Len(bytes) /\ Len(bytes) \in n .. Len(bytes)
    BY <1>1
  <2>2. SubSeq(bytes, 1, n) \o SubSeq(bytes, n + 1, Len(bytes)) = SubSeq(bytes, 1, Len(bytes))
    BY <2>1, ConcatAdjacentSubSeq
  <2> QED  BY <2>2, SubSeqFull DEF First, Rest
<1> QED  BY <1>2, <1>3, <1>4

\* A stream that is not empty begins with the packet of the next message, and
\* what follows it is the stream of the others.
LEMMA StreamHead ==
    ASSUME NEW messages \in Seq(Message), NEW bytes \in Seq(Byte), NEW n,
           Stream(bytes, messages, n), bytes # <<>>
    PROVE  /\ n \in Nat /\ n + 1 \in 1 .. Len(messages)
           /\ messages[n + 1] \in Message
           /\ HeaderSize + Size[messages[n + 1]] \in 1 .. Len(bytes)
           /\ \A i \in 1 .. HeaderSize + Size[messages[n + 1]] : bytes[i] = <<messages[n + 1], i>>
           /\ Stream(Rest(HeaderSize + Size[messages[n + 1]], bytes), messages, n + 1)
<1> DEFINE m == messages[n + 1]
           size == HeaderSize + Size[m]
           N == Len(messages)
           L == Len(bytes)
           rest == Rest(size, bytes)
<1>1. PICK cut : Cuts(cut, bytes, messages, n)
  BY DEF Stream
<1>2. n \in Nat /\ N \in Nat /\ L \in Nat /\ n + 1 \in 1 .. N /\ m \in Message
  BY StreamDone DEF Stream
<1>3. size \in Nat /\ size >= 1
  BY <1>2, SizeType DEF HeaderSize
<1>4. \A j \in n .. N : cut[j] \in 0 .. L
  BY <1>1 DEF Cuts
<1> DEFINE first == n + 1
<1>5. first \in n + 1 .. N /\ first - 1 = n /\ cut[n] = 0
  BY <1>1, <1>2 DEF Cuts
<1>6. /\ cut[first] = cut[first - 1] + HeaderSize + Size[messages[first]]
      /\ \A i \in 1 .. HeaderSize + Size[messages[first]] :
            bytes[cut[first - 1] + i] = <<messages[first], i>>
  <2> HIDE DEF first
  <2> QED  BY <1>1, <1>5 DEF Cuts
<1>7. cut[n + 1] = size
  <2>1. cut[n + 1] = 0 + HeaderSize + Size[m]
    BY <1>5, <1>6
  <2>2. 0 + HeaderSize + Size[m] = 0 + size
    BY <1>2, SizeType, HeaderFirst
  <2> QED  BY <1>3, <2>1, <2>2
<1>8. size \in 1 .. L
  BY <1>2, <1>3, <1>4, <1>7
<1>9. \A i \in 1 .. size : bytes[i] = <<m, i>>
  <2>1. \A i \in 1 .. size : bytes[0 + i] = <<m, i>>
    BY <1>5, <1>6
  <2>2. \A i \in 1 .. size : 0 + i = i
    BY <1>3
  <2> QED  BY <2>1, <2>2
<1>10. Stream(rest, messages, n + 1)
  <2> DEFINE shorter == [j \in n + 1 .. N |-> cut[j] - size]
  <2>1. \A j \in n + 1 .. N : \A k \in j .. N : cut[j] <= cut[k]
    BY <1>1, <1>2 DEF Cuts
  <2>2. \A j \in n + 1 .. N : cut[j] \in size .. L
    BY <1>2, <1>3, <1>4, <1>7, <2>1
  <2>3. Len(rest) = L - size /\ \A i \in 1 .. L - size : rest[i] = bytes[size + i]
    <3>1. size \in 0 .. L
      BY <1>2, <1>8
    <3> QED  BY <3>1, FirstRest
  <2> HIDE DEF size, rest
  <2>4. shorter \in [n + 1 .. N -> 0 .. Len(rest)]
    BY <1>2, <1>8, <2>2, <2>3
  <2>5. shorter[n + 1] = 0 /\ shorter[N] = Len(rest)
    BY <1>1, <1>2, <1>3, <1>7, <2>3 DEF Cuts
  <2>6. \A j \in n + 1 .. N : \A k \in j .. N : shorter[j] <= shorter[k]
    BY <1>2, <1>3, <2>1, <2>2
  <2>7. ASSUME NEW j \in n + 1 + 1 .. N
        PROVE  /\ shorter[j] = shorter[j - 1] + HeaderSize + Size[messages[j]]
               /\ \A i \in 1 .. HeaderSize + Size[messages[j]] :
                     rest[shorter[j - 1] + i] = <<messages[j], i>>
    <3> DEFINE step == HeaderSize + Size[messages[j]]
    <3>1. /\ j \in n + 1 .. N /\ j - 1 \in n + 1 .. N /\ messages[j] \in Message
      BY <1>2
    <3>2. step \in Nat
      BY <3>1, SizeType DEF HeaderSize
    <3>3. cut[j] \in size .. L /\ cut[j - 1] \in size .. L
      BY <2>2, <3>1
    <3>4. /\ cut[j] = cut[j - 1] + HeaderSize + Size[messages[j]]
          /\ \A i \in 1 .. step : bytes[cut[j - 1] + i] = <<messages[j], i>>
      BY <1>1, <1>2, <3>1 DEF Cuts
    <3>5. cut[j] = cut[j - 1] + step
      BY <1>2, <1>3, <3>1, <3>3, <3>4, SizeType, HeaderFirst
    <3>6. shorter[j] = cut[j] - size /\ shorter[j - 1] = cut[j - 1] - size
      BY <3>1
    <3> HIDE DEF step, shorter
    <3>7. shorter[j] = shorter[j - 1] + step /\ shorter[j - 1] \in Nat
      <4>1. \A a, b \in size .. L : b = a + step => b - size = a - size + step /\ a - size \in Nat
        BY <1>2, <1>3, <3>2
      <4> QED  BY <3>3, <3>5, <3>6, <4>1
    <3>8. \A i \in 1 .. step : rest[shorter[j - 1] + i] = <<messages[j], i>>
      <4>1. \A i \in 1 .. step : /\ shorter[j - 1] + i \in 1 .. L - size
                                 /\ size + (shorter[j - 1] + i) = cut[j - 1] + i
        <5>1. \A a, b \in size .. L : \A t \in Nat : b = a + t =>
                 \A i \in 1 .. t : a - size + i \in 1 .. L - size /\ size + (a - size + i) = a + i
          BY <1>2, <1>3
        <5>2. \A i \in 1 .. step : /\ cut[j - 1] - size + i \in 1 .. L - size
                                   /\ size + (cut[j - 1] - size + i) = cut[j - 1] + i
          BY <3>2, <3>3, <3>5, <5>1
        <5> QED  BY <3>6, <5>2
      <4> QED  BY <2>3, <3>4, <4>1
    <3>9. shorter[j - 1] + step = shorter[j - 1] + HeaderSize + Size[messages[j]]
      BY <3>1, <3>7, SizeType, HeaderFirst DEF step
    <3> QED  BY <3>7, <3>8, <3>9 DEF step
  <2>8. Cuts(shorter, rest, messages, n + 1)
    BY <2>4, <2>5, <2>6, <2>7 DEF Cuts
  <2> QED  BY <1>2, <2>8 DEF Stream
<1> QED  BY <1>2, <1>8, <1>9, <1>10

\* Its header is read as the length that was sent, and the packet as the message.
LEMMA HeaderRead ==
    ASSUME NEW m \in Message, NEW bytes \in Seq(Byte), NEW limit,
           HeaderSize + Size[m] <= Len(bytes),
           \A i \in 1 .. HeaderSize + Size[m] : bytes[i] = <<m, i>>
    PROVE  Lengths(First(HeaderSize, bytes), limit) = {Size[m]}
<1>1. HeaderSize \in 0 .. Len(bytes) /\ Size[m] \in Nat /\ 1 \in 1 .. HeaderSize
  BY SizeType DEF HeaderSize
<1>2. \A k \in Message : \A i \in 1 .. HeaderSize : i \in 1 .. HeaderSize + Size[k]
  BY SizeType DEF HeaderSize
<1>3. /\ First(HeaderSize, bytes) \in Seq(Byte)
      /\ Len(First(HeaderSize, bytes)) = HeaderSize
      /\ \A i \in 1 .. HeaderSize : First(HeaderSize, bytes)[i] = <<m, i>>
  BY <1>1, <1>2, FirstRest
<1>4. ASSUME NEW k \in Message
      PROVE  /\ First(HeaderSize, Packet(k)) \in Seq(Byte)
             /\ Len(First(HeaderSize, Packet(k))) = HeaderSize
             /\ \A i \in 1 .. HeaderSize : First(HeaderSize, Packet(k))[i] = <<k, i>>
  <2>1. Packet(k) \in Seq(Byte) /\ HeaderSize \in 0 .. Len(Packet(k))
    <3>1. Packet(k) \in Seq(Byte) /\ Len(Packet(k)) = HeaderSize + Size[k]
      BY PacketType
    <3>2. HeaderSize \in 0 .. HeaderSize + Size[k]
      BY SizeType DEF HeaderSize
    <3> QED  BY <3>1, <3>2
  <2>2. /\ First(HeaderSize, Packet(k)) \in Seq(Byte)
        /\ Len(First(HeaderSize, Packet(k))) = HeaderSize
        /\ \A i \in 1 .. HeaderSize : First(HeaderSize, Packet(k))[i] = Packet(k)[i]
    BY <2>1, FirstRest
  <2>3. \A i \in 1 .. HeaderSize : Packet(k)[i] = <<k, i>>
    BY <1>2, PacketType
  <2> QED  BY <2>2, <2>3
<1>5. First(HeaderSize, bytes) = First(HeaderSize, Packet(m))
  BY <1>3, <1>4, SeqEqual
<1>6. ASSUME NEW k \in Message, First(HeaderSize, bytes) = First(HeaderSize, Packet(k))
      PROVE  k = m
  BY <1>1, <1>3, <1>4, <1>6
<1> QED  BY <1>5, <1>6 DEF Lengths

LEMMA PacketRead ==
    ASSUME NEW m \in Message, NEW bytes \in Seq(Byte),
           Len(bytes) = HeaderSize + Size[m],
           \A i \in 1 .. HeaderSize + Size[m] : bytes[i] = <<m, i>>
    PROVE  Content(bytes) = m
<1>1. bytes = Packet(m)
  BY PacketType, SeqEqual
<1>2. ASSUME NEW k \in Message, Packet(k) = Packet(m) PROVE k = m
  <2>1. 1 \in 1 .. HeaderSize + Size[m] /\ 1 \in 1 .. HeaderSize + Size[k]
    BY SizeType DEF HeaderSize
  <2> QED  BY <1>2, <2>1, PacketType
<1> QED  BY <1>1, <1>2 DEF Content

\* What the handlers got, message by message.
LEMMA PrefixSame ==
    ASSUME NEW S, NEW a \in Seq(S), NEW b \in Seq(S)
    PROVE  IsPrefix(a, b) <=> Len(a) <= Len(b) /\ \A i \in 1 .. Len(a) : a[i] = b[i]
<1>1. ASSUME Len(a) <= Len(b)
      PROVE  /\ SubSeq(a, 1, Len(a)) \in Seq(S) /\ SubSeq(b, 1, Len(a)) \in Seq(S)
             /\ Len(SubSeq(a, 1, Len(a))) = Len(a) /\ Len(SubSeq(b, 1, Len(a))) = Len(a)
             /\ \A i \in 1 .. Len(a) : /\ SubSeq(a, 1, Len(a))[i] = a[i]
                                       /\ SubSeq(b, 1, Len(a))[i] = b[i]
  BY <1>1
<1>2. ASSUME Len(a) <= Len(b), \A i \in 1 .. Len(a) : a[i] = b[i]
      PROVE  SubSeq(a, 1, Len(a)) = SubSeq(b, 1, Len(a))
  BY <1>1, <1>2, SeqEqual
<1> QED  BY <1>1, <1>2 DEF IsPrefix

LEMMA PrefixEmpty == IsPrefix(<<>>, <<>>)
BY DEF IsPrefix

LEMMA PrefixAppend ==
    ASSUME NEW S, NEW a \in Seq(S), NEW b \in Seq(S), NEW m \in S, IsPrefix(a, b),
           Len(a) + 1 <= Len(b), m = b[Len(a) + 1]
    PROVE  IsPrefix(Append(a, m), b)
<1>1. /\ Append(a, m) \in Seq(S) /\ Len(Append(a, m)) = Len(a) + 1
      /\ \A i \in 1 .. Len(a) : Append(a, m)[i] = a[i]
      /\ Append(a, m)[Len(a) + 1] = m
  OBVIOUS
<1>2. \A i \in 1 .. Len(a) + 1 : Append(a, m)[i] = b[i]
  BY <1>1, PrefixSame
<1> QED  BY <1>1, <1>2, PrefixSame

LEMMA PrefixLonger ==
    ASSUME NEW S, NEW a \in Seq(S), NEW b \in Seq(S), NEW m \in S, IsPrefix(a, b)
    PROVE  IsPrefix(a, Append(b, m))
<1> DEFINE c == Append(b, m)
<1>1. /\ c \in Seq(S) /\ Len(c) = Len(b) + 1
      /\ \A i \in 1 .. Len(b) : c[i] = b[i]
  OBVIOUS
<1> HIDE DEF c
<1>2. IsPrefix(a, c)
  BY <1>1, PrefixSame
<1> QED  BY <1>2 DEF c

LEMMA BytesAssociative == \A a, b, c \in Seq(Byte) : (a \o b) \o c = a \o (b \o c)
BY ConcatAssociative

\* Taking bytes from the first part of a stream leaves the second part alone.
LEMMA FirstConcat ==
    ASSUME NEW a \in Seq(Byte), NEW b \in Seq(Byte), NEW n \in 0 .. Len(a)
    PROVE  /\ a \o b \in Seq(Byte) /\ Len(a \o b) = Len(a) + Len(b)
           /\ \A i \in 1 .. Len(a) : (a \o b)[i] = a[i]
           /\ First(n, a \o b) = First(n, a)
           /\ Rest(n, a \o b) = Rest(n, a) \o b
<1> DEFINE all == a \o b
<1>1. /\ all \in Seq(Byte) /\ Len(all) = Len(a) + Len(b)
      /\ \A i \in 1 .. Len(a) + Len(b) : all[i] = IF i <= Len(a) THEN a[i] ELSE b[i - Len(a)]
  BY ConcatProperties
<1>2. Len(a) \in Nat /\ Len(b) \in Nat
  OBVIOUS
<1> HIDE DEF all
<1>3. \A i \in 1 .. Len(a) : all[i] = a[i]
  BY <1>1, <1>2
<1>4. n \in 0 .. Len(all)
  BY <1>1, <1>2
<1>5. First(n, all) = First(n, a)
  <2>1. /\ First(n, all) \in Seq(Byte) /\ First(n, a) \in Seq(Byte)
        /\ Len(First(n, all)) = n /\ Len(First(n, a)) = n
        /\ \A i \in 1 .. n : First(n, all)[i] = all[i] /\ First(n, a)[i] = a[i]
    BY <1>1, <1>4, FirstRest
  <2>2. \A i \in 1 .. n : i \in 1 .. Len(a)
    BY <1>2
  <2>3. \A i \in 1 .. n : First(n, all)[i] = First(n, a)[i]
    BY <1>3, <2>1, <2>2
  <2> QED  BY <2>1, <2>3, SeqEqual
<1>6. Rest(n, all) = Rest(n, a) \o b
  <2> DEFINE r == Rest(n, a)
  <2>1. /\ Rest(n, all) \in Seq(Byte) /\ r \in Seq(Byte)
        /\ Len(Rest(n, all)) = Len(all) - n /\ Len(r) = Len(a) - n
        /\ \A i \in 1 .. Len(all) - n : Rest(n, all)[i] = all[n + i]
        /\ \A i \in 1 .. Len(a) - n : r[i] = a[n + i]
    BY <1>1, <1>4, FirstRest
  <2> HIDE DEF r
  <2>2. /\ r \o b \in Seq(Byte) /\ Len(r \o b) = Len(r) + Len(b)
        /\ \A i \in 1 .. Len(r) + Len(b) : (r \o b)[i] = IF i <= Len(r) THEN r[i] ELSE b[i - Len(r)]
    BY <2>1, ConcatProperties
  <2>3. Len(all) - n = Len(r) + Len(b)
    BY <1>1, <1>2, <2>1
  <2> DEFINE t == r \o b
  <2>4. /\ t \in Seq(Byte) /\ Len(t) = Len(r) + Len(b)
        /\ \A i \in 1 .. Len(r) + Len(b) : t[i] = IF i <= Len(r) THEN r[i] ELSE b[i - Len(r)]
    BY <2>2
  <2> HIDE DEF t
  <2>5. ASSUME NEW i \in 1 .. Len(all) - n PROVE Rest(n, all)[i] = t[i]
    <3>1. Rest(n, all)[i] = all[n + i] /\ n + i \in 1 .. Len(a) + Len(b)
      BY <1>1, <1>2, <2>1
    <3>2. CASE i <= Len(r)
      BY <1>1, <1>2, <2>1, <2>3, <2>4, <3>1, <3>2
    <3>3. CASE ~(i <= Len(r))
      <4>1. ~(n + i <= Len(a)) /\ n + i - Len(a) = i - Len(r)
        BY <1>2, <2>1, <3>3
      <4>2. i \in 1 .. Len(r) + Len(b)
        BY <2>3
      <4>3. t[i] = b[i - Len(r)]
        BY <2>4, <3>3, <4>2
      <4>4. all[n + i] = b[n + i - Len(a)]
        BY <1>1, <3>1, <4>1
      <4> QED  BY <3>1, <4>1, <4>3, <4>4
    <3> QED  BY <3>2, <3>3
  <2>6. Rest(n, all) = t
    BY <2>1, <2>3, <2>4, <2>5, SeqEqual
  <2> QED  BY <2>6 DEF r, t
<1> QED  BY <1>1, <1>3, <1>5, <1>6 DEF all

-----------------------------------------------------------------------------
(***************************************************************************)
(* Types                                                                   *)
(***************************************************************************)

LEMMA LengthsType == \A bytes : \A limit \in Nat : (\A m \in Message : Size[m] <= limit) =>
                        Lengths(bytes, limit) \subseteq 0 .. limit + 1
BY SizeType DEF Lengths

LEMMA ContentType == \A bytes : Content(bytes) \in Message \cup {Garbage}
BY DEF Content

LEMMA PiecesType ==
    ASSUME NEW bytes \in Seq(Byte), NEW n \in Nat
    PROVE  /\ n <= Len(bytes) => First(n, bytes) \in Seq(Byte)
           /\ Rest(n, bytes) \in Seq(Byte)
BY DEF First, Rest

LEMMA LimitsType == /\ AgentLimit \in Nat /\ ServerLimit \in Nat /\ Endless \in Nat
                    /\ MaxMessages \in Nat /\ MaxConnections \in Nat
BY SizeAssumption DEF Endless

\* The types apart: what the provers know of Booleans and what of numbers.
FlagsOK == /\ open \in BOOLEAN
           /\ waitingForHeader \in BOOLEAN
           /\ parsing \in BOOLEAN
           /\ staleBuffer \in BOOLEAN
           /\ shortRead \in BOOLEAN

DataOK == /\ connections \in 0 .. MaxConnections
          /\ sentToAgent \in Seq(Message)
          /\ toAgent \in Seq(Byte)
          /\ receiveBuffer \in Seq(Byte)
          /\ expectedMessageSize \in 0 .. AgentLimit + 1
          /\ agentHandled \in Seq(Message \cup {Garbage})
          /\ sentToServer \in Seq(Message)
          /\ toServer \in Seq(Byte)
          /\ serverStep \in {"length", "type", "payload"}
          /\ payloadLeft \in 0 .. Endless
          /\ partsRead \in Seq(Byte)
          /\ serverHandled \in Seq(Message \cup {Garbage})

LEMMA TypesApart ==
    TypeOK <=> FlagsOK /\ DataOK /\ (expectedMessageSize > AgentLimit => waitingForHeader)
BY Zenon DEF TypeOK, FlagsOK, DataOK

LEMMA InitTypeOK == Init => TypeOK
<1>1. Init => FlagsOK
  BY Zenon DEF Init, FlagsOK
<1>2. Init => DataOK
  BY LimitsType DEF Init, DataOK
<1>3. Init => waitingForHeader
  BY Zenon DEF Init
<1> QED  BY <1>1, <1>2, <1>3, TypesApart

LEMMA NextFlagsOK == FlagsOK /\ [Next]_vars => FlagsOK'
<1> SUFFICES ASSUME FlagsOK, [Next]_vars PROVE FlagsOK'
  OBVIOUS
<1>1. CASE connect
  BY <1>1, Zenon DEF connect, FlagsOK
<1>2. CASE disconnect
  BY <1>2, Zenon DEF disconnect, Closed, FlagsOK
<1>3. ASSUME NEW m, sendBinaryMessageToSocket(m) \/ sendBinaryMessage(m) PROVE FlagsOK'
  BY <1>3, Zenon DEF sendBinaryMessageToSocket, sendBinaryMessage, FlagsOK, agentVars, serverVars
<1>4. ASSUME NEW n, onDataReceived(n) PROVE FlagsOK'
  BY <1>4, Zenon DEF onDataReceived, FlagsOK, serverVars
<1>5. CASE waitForData \/ readHeader \/ handleMessage
  <2>1. CASE waitForData \/ handleMessage
    BY <2>1, Zenon DEF waitForData, handleMessage, FlagsOK, serverVars
  <2>2. CASE readHeader
    <3>1. waitingForHeader' \in BOOLEAN /\ parsing' \in BOOLEAN
      BY <2>2, SMT DEF readHeader
    <3> QED  BY <2>2, <3>1, Zenon DEF readHeader, FlagsOK, serverVars
  <2> QED  BY <1>5, <2>1, <2>2
<1>6. ASSUME NEW n, recvLength(n) PROVE FlagsOK'
  BY <1>6, Zenon DEF recvLength, Closed, FlagsOK
<1>7. ASSUME NEW n, recvPayload(n) PROVE FlagsOK'
  BY <1>7, Zenon DEF recvPayload, FlagsOK, agentVars
<1>8. CASE recvType \/ dispatch
  BY <1>8, Zenon DEF recvType, dispatch, FlagsOK, agentVars
<1>9. CASE UNCHANGED vars
  BY <1>9, Zenon DEF vars, agentVars, serverVars, FlagsOK
<1> QED  BY <1>1, <1>2, <1>3, <1>4, <1>5, <1>6, <1>7, <1>8, <1>9 DEF Next

LEMMA NextDataOK == DataOK /\ [Next]_vars => DataOK'
<1> SUFFICES ASSUME DataOK, [Next]_vars PROVE DataOK'
  OBVIOUS
<1> USE LimitsType
<1>1. CASE connect
  BY <1>1 DEF connect, DataOK
<1>2. CASE disconnect
  BY <1>2 DEF disconnect, Closed, DataOK
<1>3. ASSUME NEW m \in Message, sendBinaryMessageToSocket(m) PROVE DataOK'
  BY <1>3, PacketType, ConcatProperties DEF sendBinaryMessageToSocket, DataOK, serverVars
<1>4. ASSUME NEW m \in Message, sendBinaryMessage(m) PROVE DataOK'
  BY <1>4, PacketType, ConcatProperties DEF sendBinaryMessage, DataOK, agentVars
<1>5. ASSUME NEW n \in 1 .. Len(toAgent), onDataReceived(n) PROVE DataOK'
  <2>1. First(n, toAgent) \in Seq(Byte) /\ Rest(n, toAgent) \in Seq(Byte)
    BY PiecesType DEF DataOK
  <2> QED  BY <1>5, <2>1, ConcatProperties DEF onDataReceived, DataOK, serverVars
<1>6. CASE waitForData
  BY <1>6 DEF waitForData, DataOK, serverVars
<1>7. CASE readHeader
  <2>1. Lengths(First(HeaderSize, receiveBuffer), AgentLimit) \subseteq 0 .. AgentLimit + 1
    BY LengthsType, SizeType
  <2> QED  BY <1>7, <2>1 DEF readHeader, DataOK, serverVars
<1>8. CASE handleMessage
  <2>1. HeaderSize + expectedMessageSize \in Nat
    BY DEF DataOK, HeaderSize
  <2>2. Rest(HeaderSize + expectedMessageSize, receiveBuffer) \in Seq(Byte)
    BY <2>1, PiecesType DEF DataOK
  <2> QED  BY <1>8, <2>2, ContentType DEF handleMessage, DataOK, serverVars
<1>9. ASSUME NEW n \in 1 .. Len(toServer), recvLength(n) PROVE DataOK'
  <2>1. First(n, toServer) \in Seq(Byte) /\ Rest(n, toServer) \in Seq(Byte)
    BY PiecesType DEF DataOK
  <2>2. Lengths(First(n, toServer), ServerLimit) \subseteq 0 .. ServerLimit + 1
    BY LengthsType, SizeType
  <2>3. UNCHANGED <<connections, sentToAgent, receiveBuffer, expectedMessageSize, agentHandled,
                    sentToServer, serverHandled>>
    BY <1>9 DEF recvLength
  <2>4. \/ /\ partsRead' = First(n, toServer) /\ payloadLeft' \in 0 .. ServerLimit
           /\ serverStep' = "type" /\ toServer' = Rest(n, toServer) /\ toAgent' = toAgent
        \/ Closed
    <3>1. PICK length \in Lengths(First(n, toServer), ServerLimit) :
             \/ /\ length <= ServerLimit
                /\ partsRead' = First(n, toServer) /\ payloadLeft' = length
                /\ serverStep' = "type" /\ toServer' = Rest(n, toServer) /\ toAgent' = toAgent
             \/ Closed
      BY <1>9, Zenon DEF recvLength
    <3>2. length <= ServerLimit => length \in 0 .. ServerLimit
      BY <2>2
    <3> QED  BY <3>1, <3>2, Zenon
  <2>5. CASE Closed
    BY <2>3, <2>5 DEF Closed, DataOK
  <2>6. CASE /\ partsRead' = First(n, toServer) /\ payloadLeft' \in 0 .. ServerLimit
             /\ serverStep' = "type" /\ toServer' = Rest(n, toServer) /\ toAgent' = toAgent
    BY <2>1, <2>3, <2>6 DEF DataOK, Endless
  <2> QED  BY <2>4, <2>5, <2>6, Zenon
<1>10. ASSUME NEW n \in 1 .. Len(toServer), recvPayload(n) PROVE DataOK'
  <2>1. First(n, toServer) \in Seq(Byte) /\ Rest(n, toServer) \in Seq(Byte)
    BY PiecesType DEF DataOK
  <2> QED  BY <1>10, <2>1, ConcatProperties DEF recvPayload, DataOK, agentVars, Endless
<1>11. CASE recvType
  <2>1. First(1, toServer) \in Seq(Byte) /\ Rest(1, toServer) \in Seq(Byte)
    BY <1>11, PiecesType DEF recvType, DataOK
  <2> QED  BY <1>11, <2>1, ConcatProperties DEF recvType, DataOK, agentVars, Endless
<1>12. CASE dispatch
  BY <1>12, ContentType DEF dispatch, DataOK, agentVars
<1>13. CASE UNCHANGED vars
  BY <1>13 DEF vars, agentVars, serverVars, DataOK
<1> QED  BY <1>1, <1>2, <1>3, <1>4, <1>5, <1>6, <1>7, <1>8, <1>9, <1>10, <1>11, <1>12, <1>13 DEF Next

\* A length beyond the limit makes the agent wait for a header again.
LEMMA NextLimited == TypeOK /\ [Next]_vars => (expectedMessageSize > AgentLimit => waitingForHeader)'
<1> SUFFICES ASSUME TypeOK, [Next]_vars PROVE expectedMessageSize' > AgentLimit => waitingForHeader'
  OBVIOUS
<1>1. CASE readHeader
  BY <1>1, Zenon DEF readHeader
<1>2. CASE handleMessage
  BY <1>2, Zenon DEF handleMessage
<1>3. CASE UNCHANGED <<expectedMessageSize, waitingForHeader>>
  BY <1>3, Zenon DEF TypeOK
<1> QED  BY <1>1, <1>2, <1>3, Zenon DEF Next, connect, disconnect, sendBinaryMessageToSocket,
            sendBinaryMessage, onDataReceived, waitForData, recvLength, recvType, recvPayload,
            dispatch, vars, agentVars, serverVars

LEMMA NextTypeOK == TypeOK /\ [Next]_vars => TypeOK'
BY NextFlagsOK, NextDataOK, NextLimited, TypesApart, Zenon DEF TypeOK, FlagsOK, DataOK

\* Every variable keeps its type; no message larger than the limit is awaited.
THEOREM Spec_TypeOK == Spec => []TypeOK
BY InitTypeOK, NextTypeOK, PTL DEF Spec

-----------------------------------------------------------------------------
(***************************************************************************)
(* The agent                                                               *)
(***************************************************************************)

agentState == <<open, sentToAgent, toAgent, receiveBuffer, waitingForHeader,
                expectedMessageSize, parsing, agentHandled, staleBuffer>>

\* Where the parser may be, whatever the bytes are: it does not return before
\* what it waits for is incomplete.
AgentPlace ==
    /\ ~open => toAgent = <<>>
    /\ ~waitingForHeader => Len(receiveBuffer) >= HeaderSize + 1
    /\ ~parsing => /\ waitingForHeader => Len(receiveBuffer) < HeaderSize + 1
                   /\ ~waitingForHeader => Len(receiveBuffer) < HeaderSize + expectedMessageSize

\* The buffer and the rest of the stream, which is on the way or was lost with
\* the connection, are the packets of the messages not yet handled.
AgentRest(rest) ==
    /\ rest \in Seq(Byte)
    /\ open => rest = toAgent
    /\ Stream(receiveBuffer \o rest, sentToAgent, Len(agentHandled))

\* The length that was read is that of the next one.
AgentStream ==
    ~staleBuffer =>
        /\ IsPrefix(agentHandled, sentToAgent)
        /\ \E rest : AgentRest(rest)
        /\ ~waitingForHeader => expectedMessageSize = Size[sentToAgent[Len(agentHandled) + 1]]

AgentInv == TypeOK /\ AgentPlace /\ AgentStream

LEMMA AgentUntouched == AgentInv /\ TypeOK' /\ UNCHANGED agentState => AgentInv'
<1> SUFFICES ASSUME AgentInv, TypeOK', UNCHANGED agentState PROVE AgentInv'
  OBVIOUS
<1>1. \A rest : AgentRest(rest) => AgentRest(rest)'
  BY Zenon DEF AgentRest, agentState
<1>2. AgentStream'
  BY <1>1, Zenon DEF AgentInv, AgentStream, agentState
<1>3. AgentPlace'
  BY DEF AgentInv, AgentPlace, agentState
<1> QED  BY <1>2, <1>3 DEF AgentInv

LEMMA AgentInit == Init => AgentInv
<1> SUFFICES ASSUME Init PROVE AgentInv
  OBVIOUS
<1>1. AgentPlace
  BY DEF Init, AgentPlace, HeaderSize
<1>2. IsPrefix(agentHandled, sentToAgent)
  BY PrefixEmpty DEF Init
<1>3. AgentRest(<<>>)
  <2>1. <<>> \in Seq(Message) /\ <<>> \in Seq(Byte) /\ Len(<<>>) = 0 /\ <<>> \o <<>> = <<>>
    OBVIOUS
  <2>2. Stream(<<>>, <<>>, Len(<<>>))
    BY <2>1, StreamEmpty
  <2> QED  BY <2>1, <2>2, Zenon DEF Init, AgentRest
<1>4. AgentStream
  BY <1>2, <1>3, Zenon DEF Init, AgentStream
<1> QED  BY <1>1, <1>4, InitTypeOK DEF AgentInv

\* A connection that ends leaves the parser where it is,
LEMMA AgentCloses ==
    ASSUME AgentInv, TypeOK', Closed,
           UNCHANGED <<sentToAgent, receiveBuffer, waitingForHeader, expectedMessageSize, parsing,
                       agentHandled, staleBuffer>>
    PROVE  AgentInv'
<1>1. AgentPlace'
  BY DEF AgentInv, AgentPlace, Closed
<1>2. \A rest : AgentRest(rest) => AgentRest(rest)'
  BY Zenon DEF AgentRest, Closed
<1>3. AgentStream'
  BY <1>2, Zenon DEF AgentInv, AgentStream
<1> QED  BY <1>1, <1>3 DEF AgentInv

\* and the next one begins in step if the buffer is empty.
LEMMA AgentConnects ==
    ASSUME AgentInv, TypeOK', connect
    PROVE  AgentInv'
<1>1. /\ UNCHANGED <<toAgent, receiveBuffer, waitingForHeader, expectedMessageSize, parsing>>
      /\ ~open /\ ~parsing /\ open' = TRUE
      /\ sentToAgent' = <<>> /\ agentHandled' = <<>>
      /\ staleBuffer' = (receiveBuffer # <<>>)
  BY DEF connect
<1>2. AgentPlace'
  BY <1>1 DEF AgentInv, AgentPlace
<1>3. ASSUME ~staleBuffer'
      PROVE  /\ IsPrefix(agentHandled, sentToAgent)' /\ waitingForHeader'
             /\ AgentRest(<<>>)'
  <2>1. receiveBuffer = <<>> /\ toAgent = <<>>
    BY <1>1, <1>3, Zenon DEF AgentInv, AgentPlace
  <2>2. Len(receiveBuffer) = 0
    BY <2>1
  <2>3. waitingForHeader
    <3>1. ~(Len(receiveBuffer) >= HeaderSize + 1)
      BY <2>2 DEF HeaderSize
    <3> QED  BY <3>1, Zenon DEF AgentInv, AgentPlace
  <2>4. /\ <<>> \in Seq(Message) /\ <<>> \in Seq(Byte) /\ Len(<<>>) = 0
        /\ receiveBuffer \o <<>> = <<>>
    BY <2>1
  <2>5. Stream(<<>>, <<>>, Len(<<>>))
    BY <2>4, StreamEmpty
  <2>6. AgentRest(<<>>)'
    BY <1>1, <2>1, <2>4, <2>5, Zenon DEF AgentRest
  <2> QED  BY <1>1, <2>3, <2>6, PrefixEmpty, Zenon
<1>4. AgentStream'
  BY <1>3, Zenon DEF AgentStream
<1> QED  BY <1>2, <1>4 DEF AgentInv

\* What the parser has before it when nothing of an earlier connection is left.
LEMMA AgentNext ==
    ASSUME AgentInv, NEW rest, AgentRest(rest)
    PROVE  LET bytes == receiveBuffer \o rest
               m == sentToAgent[Len(agentHandled) + 1]
           IN  /\ bytes \in Seq(Byte)
               /\ Len(bytes) = Len(receiveBuffer) + Len(rest)
               /\ Stream(bytes, sentToAgent, Len(agentHandled))
               /\ bytes # <<>> =>
                     /\ m \in Message
                     /\ Len(agentHandled) + 1 \in 1 .. Len(sentToAgent)
                     /\ HeaderSize + Size[m] \in 1 .. Len(bytes)
                     /\ \A i \in 1 .. HeaderSize + Size[m] : bytes[i] = <<m, i>>
                     /\ Stream(Rest(HeaderSize + Size[m], bytes), sentToAgent,
                               Len(agentHandled) + 1)
<1>1. receiveBuffer \in Seq(Byte) /\ rest \in Seq(Byte) /\ sentToAgent \in Seq(Message)
  BY Zenon DEF AgentInv, TypeOK, AgentRest
<1>2. /\ receiveBuffer \o rest \in Seq(Byte)
      /\ Len(receiveBuffer \o rest) = Len(receiveBuffer) + Len(rest)
  BY <1>1, ConcatProperties
<1>3. Stream(receiveBuffer \o rest, sentToAgent, Len(agentHandled))
  BY Zenon DEF AgentRest
<1> DEFINE bytes == receiveBuffer \o rest
           n == Len(agentHandled)
<1>4. bytes \in Seq(Byte) /\ Stream(bytes, sentToAgent, n)
  BY <1>2, <1>3
<1> HIDE DEF bytes, n
<1>5. bytes # <<>> =>
          /\ sentToAgent[n + 1] \in Message
          /\ n + 1 \in 1 .. Len(sentToAgent)
          /\ HeaderSize + Size[sentToAgent[n + 1]] \in 1 .. Len(bytes)
          /\ \A i \in 1 .. HeaderSize + Size[sentToAgent[n + 1]] :
                bytes[i] = <<sentToAgent[n + 1], i>>
          /\ Stream(Rest(HeaderSize + Size[sentToAgent[n + 1]], bytes), sentToAgent, n + 1)
  BY <1>1, <1>4, StreamHead
<1> QED  BY <1>2, <1>4, <1>5 DEF bytes, n

LEMMA AgentOnTheWay ==
    ASSUME AgentInv, ~staleBuffer
    PROVE  /\ \E rest : AgentRest(rest)
           /\ open => AgentRest(toAgent)
BY Zenon DEF AgentInv, AgentStream, AgentRest

LEMMA AgentIsSent ==
    ASSUME AgentInv, TypeOK', NEW m \in Message, sendBinaryMessageToSocket(m)
    PROVE  AgentInv'
<1>1. /\ UNCHANGED <<open, receiveBuffer, waitingForHeader, expectedMessageSize, parsing,
                     agentHandled, staleBuffer>>
      /\ open /\ sentToAgent' = Append(sentToAgent, m) /\ toAgent' = toAgent \o Packet(m)
  BY DEF sendBinaryMessageToSocket, serverVars
<1>2. /\ receiveBuffer \in Seq(Byte) /\ toAgent \in Seq(Byte) /\ sentToAgent \in Seq(Message)
      /\ agentHandled \in Seq(Message \cup {Garbage}) /\ Packet(m) \in Seq(Byte)
  BY PacketType, Zenon DEF AgentInv, TypeOK
<1>3. AgentPlace'
  BY <1>1, Zenon DEF AgentInv, AgentPlace
<1>4. ASSUME ~staleBuffer PROVE AgentStream'
  <2>1. receiveBuffer \o toAgent' = (receiveBuffer \o toAgent) \o Packet(m)
    BY <1>1, <1>2, BytesAssociative, Zenon
  <2>2. AgentRest(toAgent)'
    <3>1. AgentRest(toAgent)
      BY <1>1, <1>4, AgentOnTheWay
    <3>2. Stream((receiveBuffer \o toAgent) \o Packet(m), sentToAgent', Len(agentHandled))
      BY <1>1, <1>2, <3>1, AgentNext, StreamAppend
    <3>3. toAgent' \in Seq(Byte)
      BY Zenon DEF TypeOK
    <3> QED  BY <1>1, <2>1, <3>2, <3>3, Zenon DEF AgentRest
  <2>3. IsPrefix(agentHandled, sentToAgent)'
    <3>1. IsPrefix(agentHandled, sentToAgent)
      BY <1>4, Zenon DEF AgentInv, AgentStream
    <3>2. sentToAgent \in Seq(Message \cup {Garbage}) /\ m \in Message \cup {Garbage}
      BY <1>2, SeqMonotonic
    <3> QED  BY <1>1, <1>2, <3>1, <3>2, PrefixLonger
  <2>4. ASSUME ~waitingForHeader
        PROVE  expectedMessageSize' = Size[sentToAgent'[Len(agentHandled') + 1]]
    <3>1. Len(receiveBuffer) >= HeaderSize + 1
      BY <2>4, Zenon DEF AgentInv, AgentPlace
    <3>2. receiveBuffer \o toAgent # <<>>
      BY <1>2, <3>1, ConcatProperties DEF HeaderSize
    <3>3. Len(agentHandled) + 1 \in 1 .. Len(sentToAgent)
      BY <1>1, <1>4, <3>2, AgentNext, AgentOnTheWay
    <3>4. sentToAgent'[Len(agentHandled) + 1] = sentToAgent[Len(agentHandled) + 1]
      BY <1>1, <1>2, <3>3
    <3> QED  BY <1>1, <1>4, <2>4, <3>4, Zenon DEF AgentInv, AgentStream
  <2> QED  BY <1>1, <2>2, <2>3, <2>4, Zenon DEF AgentStream
<1>5. AgentStream'
  BY <1>1, <1>4, Zenon DEF AgentStream
<1> QED  BY <1>3, <1>5 DEF AgentInv

\* Data that arrives moves from one part of the stream to the other.
LEMMA AgentReceives ==
    ASSUME AgentInv, TypeOK', NEW n \in 1 .. Len(toAgent), onDataReceived(n)
    PROVE  AgentInv'
<1>1. /\ UNCHANGED <<open, sentToAgent, waitingForHeader, expectedMessageSize, agentHandled,
                     staleBuffer>>
      /\ open /\ parsing' = TRUE
      /\ receiveBuffer' = receiveBuffer \o First(n, toAgent) /\ toAgent' = Rest(n, toAgent)
  BY DEF onDataReceived, serverVars
<1>2. receiveBuffer \in Seq(Byte) /\ toAgent \in Seq(Byte)
  BY Zenon DEF AgentInv, TypeOK
<1>3. /\ First(n, toAgent) \in Seq(Byte) /\ Rest(n, toAgent) \in Seq(Byte)
      /\ First(n, toAgent) \o Rest(n, toAgent) = toAgent
  BY <1>2, FirstRest
<1>4. receiveBuffer' \o toAgent' = receiveBuffer \o toAgent
  <2>1. (receiveBuffer \o First(n, toAgent)) \o Rest(n, toAgent)
           = receiveBuffer \o (First(n, toAgent) \o Rest(n, toAgent))
    BY <1>2, <1>3, BytesAssociative, Zenon
  <2> QED  BY <1>1, <1>3, <2>1, Zenon
<1>5. Len(receiveBuffer') >= Len(receiveBuffer)
  BY <1>1, <1>2, <1>3, ConcatProperties
<1>6. AgentPlace'
  <2>1. Len(receiveBuffer) >= HeaderSize + 1 => Len(receiveBuffer') >= HeaderSize + 1
    BY <1>1, <1>2, <1>3, <1>5 DEF HeaderSize
  <2> QED  BY <1>1, <2>1, Zenon DEF AgentInv, AgentPlace
<1>7. ASSUME ~staleBuffer PROVE AgentRest(toAgent)'
  <2>1. AgentRest(toAgent)
    BY <1>1, <1>7, AgentOnTheWay
  <2> QED  BY <1>1, <1>3, <1>4, <2>1, Zenon DEF AgentRest
<1>8. AgentStream'
  BY <1>1, <1>7, Zenon DEF AgentInv, AgentStream
<1> QED  BY <1>6, <1>8 DEF AgentInv

LEMMA AgentReturns ==
    ASSUME AgentInv, TypeOK', waitForData
    PROVE  AgentInv'
<1>1. /\ UNCHANGED <<open, sentToAgent, toAgent, receiveBuffer, waitingForHeader,
                     expectedMessageSize, agentHandled, staleBuffer>>
      /\ parsing /\ parsing' = FALSE
  BY DEF waitForData, serverVars
<1>2. AgentPlace'
  BY <1>1 DEF waitForData, AgentInv, AgentPlace
<1>3. \A rest : AgentRest(rest) => AgentRest(rest)'
  BY <1>1, Zenon DEF AgentRest
<1>4. AgentStream'
  BY <1>1, <1>3, Zenon DEF AgentInv, AgentStream
<1> QED  BY <1>2, <1>4 DEF AgentInv

\* A header that is in step tells the size of the next message.
LEMMA AgentReadsHeader ==
    ASSUME AgentInv, TypeOK', readHeader
    PROVE  AgentInv'
<1>1. /\ UNCHANGED <<open, sentToAgent, toAgent, agentHandled, staleBuffer>>
      /\ parsing
      /\ Len(receiveBuffer) >= HeaderSize + 1
      /\ expectedMessageSize' \in Lengths(First(HeaderSize, receiveBuffer), AgentLimit)
      /\ waitingForHeader' <=> expectedMessageSize' > AgentLimit
      /\ parsing' <=> expectedMessageSize' <= AgentLimit
      /\ receiveBuffer' = IF expectedMessageSize' > AgentLimit THEN <<>> ELSE receiveBuffer
  BY DEF readHeader, serverVars
<1>2. /\ receiveBuffer \in Seq(Byte) /\ toAgent \in Seq(Byte)
      /\ expectedMessageSize' \in Nat /\ AgentLimit \in Nat
  <2>1. expectedMessageSize' \in 0 .. AgentLimit + 1
    BY Zenon DEF TypeOK
  <2>2. expectedMessageSize' \in Nat /\ AgentLimit \in Nat
    BY <2>1, LimitsType
  <2> QED  BY <2>2, Zenon DEF AgentInv, TypeOK
<1>3. AgentPlace'
  <2>1. ~open => toAgent = <<>>
    BY Zenon DEF AgentInv, AgentPlace
  <2>2. expectedMessageSize' > AgentLimit => Len(receiveBuffer') = 0
    BY <1>1, EmptySeq
  <2>3. expectedMessageSize' <= AgentLimit <=> ~(expectedMessageSize' > AgentLimit)
    BY <1>2
  <2>4. 0 < HeaderSize + 1
    BY DEF HeaderSize
  <2>5. CASE expectedMessageSize' > AgentLimit
    BY <1>1, <2>1, <2>2, <2>4, <2>5, Zenon DEF AgentPlace
  <2>6. CASE ~(expectedMessageSize' > AgentLimit)
    BY <1>1, <2>1, <2>3, <2>6, Zenon DEF AgentPlace
  <2> QED  BY <2>5, <2>6
<1>4. ASSUME NEW rest, AgentRest(rest)
      PROVE  /\ expectedMessageSize' = Size[sentToAgent[Len(agentHandled) + 1]]
             /\ expectedMessageSize' <= AgentLimit
  <2> DEFINE bytes == receiveBuffer \o rest
             m == sentToAgent[Len(agentHandled) + 1]
  <2>0. rest \in Seq(Byte)
    BY <1>4, Zenon DEF AgentRest
  <2>1. /\ HeaderSize \in 0 .. Len(receiveBuffer) /\ Len(receiveBuffer) \in Nat
    BY <1>1, <1>2 DEF HeaderSize
  <2>2. bytes # <<>>
    BY <1>1, <1>2, <2>0, ConcatProperties DEF HeaderSize
  <2>3. /\ bytes \in Seq(Byte) /\ m \in Message
        /\ HeaderSize + Size[m] \in 1 .. Len(bytes)
        /\ \A i \in 1 .. HeaderSize + Size[m] : bytes[i] = <<m, i>>
    BY <1>4, <2>2, AgentNext
  <2>4. First(HeaderSize, receiveBuffer) = First(HeaderSize, bytes)
    BY <1>2, <2>0, <2>1, FirstConcat
  <2> HIDE DEF bytes, m
  <2>5. Lengths(First(HeaderSize, bytes), AgentLimit) = {Size[m]}
    BY <2>3, HeaderRead
  <2> QED  BY <1>1, <2>3, <2>4, <2>5, SizeType DEF m
<1>5. ASSUME NEW rest, AgentRest(rest)
      PROVE  AgentRest(rest)' /\ expectedMessageSize' = Size[sentToAgent[Len(agentHandled) + 1]]
  <2>1. receiveBuffer' = receiveBuffer
    BY <1>1, <1>2, <1>4, <1>5
  <2>2. AgentRest(rest)'
    BY <1>1, <1>5, <2>1, Zenon DEF AgentRest
  <2> QED  BY <1>4, <1>5, <2>2, Zenon
<1>6. AgentStream'
  BY <1>1, <1>5, Zenon DEF AgentInv, AgentStream
<1> QED  BY <1>3, <1>6 DEF AgentInv

\* A complete packet in step is handled as the message that was sent.
LEMMA AgentHandles ==
    ASSUME AgentInv, TypeOK', handleMessage
    PROVE  AgentInv'
<1> DEFINE size == HeaderSize + expectedMessageSize
           packet == First(size, receiveBuffer)
<1>1. /\ UNCHANGED <<open, sentToAgent, toAgent, expectedMessageSize, parsing, staleBuffer>>
      /\ parsing /\ ~waitingForHeader /\ waitingForHeader'
      /\ Len(receiveBuffer) >= size
      /\ agentHandled' = Append(agentHandled, Content(packet))
      /\ receiveBuffer' = Rest(size, receiveBuffer)
  BY DEF handleMessage, serverVars
<1>2. /\ receiveBuffer \in Seq(Byte) /\ toAgent \in Seq(Byte) /\ sentToAgent \in Seq(Message)
      /\ agentHandled \in Seq(Message \cup {Garbage}) /\ expectedMessageSize \in 0 .. AgentLimit + 1
  BY Zenon DEF AgentInv, TypeOK
<1>3. size \in 0 .. Len(receiveBuffer) /\ size >= 1
  BY <1>1, <1>2, LimitsType DEF HeaderSize
<1>4. AgentPlace'
  BY <1>1, Zenon DEF AgentInv, AgentPlace
<1>5. ~staleBuffer => \E rest : AgentRest(rest)
  BY AgentOnTheWay
<1>6. ASSUME ~staleBuffer, NEW rest, AgentRest(rest) PROVE AgentStream'
  <2> DEFINE bytes == receiveBuffer \o rest
             n == Len(agentHandled)
             m == sentToAgent[n + 1]
  <2>0. rest \in Seq(Byte)
    BY <1>6, Zenon DEF AgentRest
  <2>1. expectedMessageSize = Size[m]
    BY <1>1, <1>6, Zenon DEF AgentInv, AgentStream
  <2>2. bytes # <<>>
    BY <1>2, <1>3, <2>0, ConcatProperties
  <2>3. /\ bytes \in Seq(Byte) /\ m \in Message
        /\ n + 1 \in 1 .. Len(sentToAgent)
        /\ \A i \in 1 .. size : bytes[i] = <<m, i>>
        /\ Stream(Rest(size, bytes), sentToAgent, n + 1)
    BY <1>6, <2>1, <2>2, AgentNext
  <2>4. /\ First(size, bytes) = packet
        /\ Rest(size, bytes) = receiveBuffer' \o rest
        /\ \A i \in 1 .. Len(receiveBuffer) : bytes[i] = receiveBuffer[i]
    BY <1>1, <1>2, <1>3, <2>0, FirstConcat
  <2>5. /\ packet \in Seq(Byte) /\ Len(packet) = size
        /\ \A i \in 1 .. size : packet[i] = receiveBuffer[i]
    BY <1>2, <1>3, FirstRest
  <2>6. \A i \in 1 .. size : i \in 1 .. Len(receiveBuffer)
    BY <1>2, <1>3
  <2>7. \A i \in 1 .. size : packet[i] = <<m, i>>
    BY <2>3, <2>4, <2>5, <2>6, Zenon
  <2>8. Content(packet) = m
    <3> HIDE DEF packet, m
    <3> QED  BY <2>1, <2>3, <2>5, <2>7, PacketRead
  <2>9. agentHandled' = Append(agentHandled, m) /\ Len(agentHandled') = n + 1
    BY <1>1, <1>2, <2>8
  <2>10. IsPrefix(agentHandled', sentToAgent)
    <3>1. IsPrefix(agentHandled, sentToAgent)
      BY <1>6, Zenon DEF AgentInv, AgentStream
    <3>2. sentToAgent \in Seq(Message \cup {Garbage}) /\ m \in Message \cup {Garbage}
      BY <1>2, <2>3, SeqMonotonic
    <3>3. n + 1 <= Len(sentToAgent)
      BY <1>2, <2>3
    <3> QED  BY <1>2, <2>9, <3>1, <3>2, <3>3, PrefixAppend
  <2>11. AgentRest(rest)'
    <3>1. Stream(receiveBuffer' \o rest, sentToAgent', Len(agentHandled'))
      BY <1>1, <2>3, <2>4, <2>9, Zenon
    <3> QED  BY <1>1, <1>6, <3>1, Zenon DEF AgentRest
  <2> QED  BY <1>1, <2>10, <2>11, Zenon DEF AgentStream
<1>7. AgentStream'
  BY <1>1, <1>5, <1>6, Zenon DEF AgentStream
<1> QED  BY <1>4, <1>7 DEF AgentInv

LEMMA AgentStep == AgentInv /\ [Next]_vars => AgentInv'
<1> SUFFICES ASSUME AgentInv, [Next]_vars PROVE AgentInv'
  OBVIOUS
<1>1. TypeOK'
  BY NextTypeOK DEF AgentInv
<1>2. CASE connect
  BY <1>1, <1>2, AgentConnects
<1>3. CASE disconnect
  BY <1>1, <1>3, AgentCloses DEF disconnect
<1>4. ASSUME NEW m \in Message, sendBinaryMessageToSocket(m) PROVE AgentInv'
  BY <1>1, <1>4, AgentIsSent
<1>5. ASSUME NEW n \in 1 .. Len(toAgent), onDataReceived(n) PROVE AgentInv'
  BY <1>1, <1>5, AgentReceives
<1>6. CASE waitForData
  BY <1>1, <1>6, AgentReturns
<1>7. CASE readHeader
  BY <1>1, <1>7, AgentReadsHeader
<1>8. CASE handleMessage
  BY <1>1, <1>8, AgentHandles
<1>9. ASSUME NEW n \in 1 .. Len(toServer), recvLength(n) PROVE AgentInv'
  <2>1. CASE UNCHANGED agentState
    BY <1>1, <2>1, AgentUntouched
  <2>2. CASE Closed
    BY <1>1, <1>9, <2>2, AgentCloses DEF recvLength
  <2> QED  BY <1>9, <2>1, <2>2, Zenon DEF recvLength, agentState
<1>10. CASE UNCHANGED agentState
  BY <1>1, <1>10, AgentUntouched
<1>11. ASSUME NEW m \in Message, sendBinaryMessage(m) PROVE UNCHANGED agentState
  BY <1>11 DEF sendBinaryMessage, agentVars, agentState
<1>12. ASSUME NEW n, recvPayload(n) PROVE UNCHANGED agentState
  BY <1>12 DEF recvPayload, agentVars, agentState
<1>13. recvType \/ dispatch \/ UNCHANGED vars => UNCHANGED agentState
  BY DEF recvType, dispatch, vars, agentVars, agentState
<1> QED  BY <1>2, <1>3, <1>4, <1>5, <1>6, <1>7, <1>8, <1>9, <1>10, <1>11, <1>12, <1>13, Zenon DEF Next

\* However the stream is cut, the agent's handlers get what was sent on the
\* connection, whole and in order, unless bytes of an earlier one were left.
THEOREM Spec_AgentFramesRight == Spec => []AgentFramesRight
<1>1. AgentInv => AgentFramesRight
  BY Zenon DEF AgentInv, AgentStream, AgentFramesRight
<1> QED  BY <1>1, AgentInit, AgentStep, PTL DEF Spec

\* An agent that waits with nothing on the way has handled all that was sent.
THEOREM Spec_AgentReadsAll == Spec => []AgentReadsAll
<1>1. ASSUME AgentInv, open, ~staleBuffer, ~parsing, toAgent = <<>>
      PROVE  agentHandled = sentToAgent
  <2> DEFINE bytes == receiveBuffer \o toAgent
             n == Len(agentHandled)
             m == sentToAgent[n + 1]
  <2>1. /\ receiveBuffer \in Seq(Byte) /\ sentToAgent \in Seq(Message)
        /\ agentHandled \in Seq(Message \cup {Garbage})
    BY <1>1, Zenon DEF AgentInv, TypeOK
  <2>2. bytes = receiveBuffer
    BY <1>1, <2>1, ConcatEmptySeq
  <2>0. AgentRest(toAgent)
    BY <1>1, AgentOnTheWay
  <2>3. ASSUME bytes # <<>> PROVE FALSE
    <3>1. m \in Message /\ Len(receiveBuffer) >= HeaderSize + Size[m]
      BY <1>1, <2>0, <2>1, <2>2, <2>3, AgentNext, SizeType DEF HeaderSize
    <3>2. HeaderSize + Size[m] >= HeaderSize + 1
      BY <3>1, SizeType DEF HeaderSize
    <3>3. CASE waitingForHeader
      <4>1. Len(receiveBuffer) < HeaderSize + 1
        BY <1>1, <3>3, Zenon DEF AgentInv, AgentPlace
      <4> HIDE DEF m
      <4> QED  BY <2>1, <3>1, <3>2, <4>1, SizeType DEF HeaderSize
    <3>4. CASE ~waitingForHeader
      <4>1. Len(receiveBuffer) < HeaderSize + Size[m]
        BY <1>1, <3>4, Zenon DEF AgentInv, AgentPlace, AgentStream
      <4> HIDE DEF m
      <4> QED  BY <2>1, <3>1, <4>1, SizeType DEF HeaderSize
    <3> QED  BY <3>3, <3>4
  <2>4. Stream(<<>>, sentToAgent, n)
    BY <1>1, <2>0, <2>2, <2>3, AgentNext
  <2>5. n = Len(sentToAgent)
    BY <2>1, <2>4, EmptySeq, StreamDone
  <2>6. IsPrefix(agentHandled, sentToAgent)
    BY <1>1, Zenon DEF AgentInv, AgentStream
  <2>7. sentToAgent \in Seq(Message \cup {Garbage})
    BY <2>1, SeqMonotonic
  <2>8. \A i \in 1 .. Len(agentHandled) : agentHandled[i] = sentToAgent[i]
    BY <2>1, <2>6, <2>7, PrefixSame
  <2> QED  BY <2>1, <2>5, <2>7, <2>8, SeqEqual
<1>2. AgentInv => AgentReadsAll
  BY <1>1, Zenon DEF AgentReadsAll
<1> QED  BY <1>2, AgentInit, AgentStep, PTL DEF Spec

-----------------------------------------------------------------------------
(***************************************************************************)
(* The server                                                              *)
(***************************************************************************)

serverState == <<open, sentToServer, toServer, serverStep, payloadLeft, partsRead,
                 serverHandled, shortRead>>

\* What the thread has read of the next message, and what is on the way.
ServerBytes == IF serverStep = "length" THEN toServer ELSE partsRead \o toServer

\* The thread of a closed connection is gone.
ServerPlace == ~open => serverStep = "length" /\ toServer = <<>>

\* The parts read and what is on the way are the packets of the messages not
\* yet handled, and the parts and what is left of the payload make up the next.
ServerStream ==
    ~shortRead =>
        /\ IsPrefix(serverHandled, sentToServer)
        /\ open => Stream(ServerBytes, sentToServer, Len(serverHandled))
        /\ serverStep # "length" =>
              /\ Len(partsRead) >= HeaderSize
              /\ Len(partsRead) + payloadLeft
                    = HeaderSize + Size[sentToServer[Len(serverHandled) + 1]]
              /\ serverStep = "type" => Len(partsRead) = HeaderSize

ServerInv == TypeOK /\ ServerPlace /\ ServerStream

LEMMA ServerUntouched == ServerInv /\ TypeOK' /\ UNCHANGED serverState => ServerInv'
BY DEF ServerInv, ServerPlace, ServerStream, ServerBytes, serverState

LEMMA ServerInit == Init => ServerInv
<1> SUFFICES ASSUME Init PROVE ServerInv
  OBVIOUS
<1>1. IsPrefix(serverHandled, sentToServer)
  BY PrefixEmpty DEF Init
<1>2. ServerPlace /\ ServerStream
  BY <1>1, Zenon DEF Init, ServerPlace, ServerStream
<1> QED  BY <1>2, InitTypeOK DEF ServerInv

LEMMA ServerCloses ==
    ASSUME ServerInv, TypeOK', Closed, UNCHANGED <<sentToServer, serverHandled>>,
           shortRead => shortRead'
    PROVE  ServerInv'
BY Zenon DEF ServerInv, ServerPlace, ServerStream, Closed

LEMMA ServerConnects ==
    ASSUME ServerInv, TypeOK', connect
    PROVE  ServerInv'
<1>1. /\ UNCHANGED <<toServer, serverStep, partsRead, payloadLeft>>
      /\ open' = TRUE /\ sentToServer' = <<>> /\ serverHandled' = <<>>
      /\ serverStep = "length" /\ toServer = <<>>
  BY Zenon DEF connect, ServerInv, ServerPlace
<1>2. Stream(<<>>, <<>>, Len(<<>>))
  <2>1. <<>> \in Seq(Message)
    OBVIOUS
  <2> QED  BY <2>1, StreamEmpty
<1>3. ServerStream'
  BY <1>1, <1>2, PrefixEmpty, Zenon DEF ServerStream, ServerBytes
<1>4. ServerPlace'
  BY <1>1, Zenon DEF ServerPlace
<1> QED  BY <1>3, <1>4 DEF ServerInv

LEMMA ServerTypes ==
    ASSUME ServerInv
    PROVE  /\ sentToServer \in Seq(Message) /\ toServer \in Seq(Byte) /\ partsRead \in Seq(Byte)
           /\ serverHandled \in Seq(Message \cup {Garbage})
           /\ serverStep \in {"length", "type", "payload"}
           /\ payloadLeft \in 0 .. Endless
           /\ sentToServer \in Seq(Message \cup {Garbage})
           /\ ServerBytes \in Seq(Byte)
<1>1. /\ sentToServer \in Seq(Message) /\ toServer \in Seq(Byte) /\ partsRead \in Seq(Byte)
      /\ serverHandled \in Seq(Message \cup {Garbage})
      /\ serverStep \in {"length", "type", "payload"}
      /\ payloadLeft \in 0 .. Endless
  BY Zenon DEF ServerInv, TypeOK
<1>2. sentToServer \in Seq(Message \cup {Garbage})
  BY <1>1, SeqMonotonic
<1>3. ServerBytes \in Seq(Byte)
  BY <1>1, ConcatProperties DEF ServerBytes
<1> QED  BY <1>1, <1>2, <1>3

LEMMA ServerIsSent ==
    ASSUME ServerInv, TypeOK', NEW m \in Message, sendBinaryMessage(m)
    PROVE  ServerInv'
<1>1. /\ UNCHANGED <<open, serverStep, payloadLeft, partsRead, serverHandled, shortRead>>
      /\ open /\ sentToServer' = Append(sentToServer, m) /\ toServer' = toServer \o Packet(m)
  BY DEF sendBinaryMessage, agentVars
<1>2. ServerPlace'
  BY <1>1, Zenon DEF ServerPlace
<1>3. Packet(m) \in Seq(Byte)
  BY PacketType
<1>4. ServerBytes' = ServerBytes \o Packet(m)
  <2>1. CASE serverStep = "length"
    BY <1>1, <2>1 DEF ServerBytes
  <2>2. CASE serverStep # "length"
    <3>1. (partsRead \o toServer) \o Packet(m) = partsRead \o (toServer \o Packet(m))
      <4>1. partsRead \in Seq(Byte) /\ toServer \in Seq(Byte)
        BY ServerTypes
      <4> QED  BY <1>3, <4>1, BytesAssociative, Zenon
    <3> QED  BY <1>1, <2>2, <3>1, Zenon DEF ServerBytes
  <2> QED  BY <2>1, <2>2
<1>5. ASSUME ~shortRead PROVE ServerStream'
  <2>1. Stream(ServerBytes, sentToServer, Len(serverHandled)) /\ IsPrefix(serverHandled, sentToServer)
    BY <1>1, <1>5, Zenon DEF ServerInv, ServerStream
  <2>2. Stream(ServerBytes', sentToServer', Len(serverHandled'))
    BY <1>1, <1>4, <2>1, ServerTypes, StreamAppend
  <2>3. IsPrefix(serverHandled', sentToServer')
    BY <1>1, <2>1, ServerTypes, PrefixLonger
  <2>4. ASSUME serverStep # "length"
        PROVE  sentToServer'[Len(serverHandled) + 1] = sentToServer[Len(serverHandled) + 1]
    <3>1. Len(partsRead) >= HeaderSize
      BY <1>5, <2>4, Zenon DEF ServerInv, ServerStream
    <3>2. ServerBytes # <<>>
      BY <2>4, <3>1, ServerTypes, ConcatProperties DEF ServerBytes, HeaderSize
    <3>3. Len(serverHandled) + 1 \in 1 .. Len(sentToServer)
      BY <2>1, <3>2, ServerTypes, StreamHead
    <3> QED  BY <1>1, <3>3, ServerTypes
  <2> HIDE DEF ServerBytes
  <2> QED  BY <1>1, <1>5, <2>2, <2>3, <2>4, Zenon DEF ServerInv, ServerStream
<1>6. ServerStream'
  BY <1>1, <1>5, Zenon DEF ServerStream
<1> QED  BY <1>2, <1>6 DEF ServerInv

\* What the thread has read and has before it while no length was cut short.
LEMMA ServerNext ==
    ASSUME ServerInv, ~shortRead, open, ServerBytes # <<>>
    PROVE  LET m == sentToServer[Len(serverHandled) + 1]
           IN  /\ m \in Message
               /\ Len(serverHandled) + 1 \in 1 .. Len(sentToServer)
               /\ HeaderSize + Size[m] \in 1 .. Len(ServerBytes)
               /\ \A i \in 1 .. HeaderSize + Size[m] : ServerBytes[i] = <<m, i>>
               /\ Stream(Rest(HeaderSize + Size[m], ServerBytes), sentToServer,
                         Len(serverHandled) + 1)
<1> DEFINE n == Len(serverHandled)
<1>1. Stream(ServerBytes, sentToServer, n)
  BY Zenon DEF ServerInv, ServerStream
<1> HIDE DEF n
<1>2. /\ sentToServer[n + 1] \in Message
      /\ n + 1 \in 1 .. Len(sentToServer)
      /\ HeaderSize + Size[sentToServer[n + 1]] \in 1 .. Len(ServerBytes)
      /\ \A i \in 1 .. HeaderSize + Size[sentToServer[n + 1]] :
            ServerBytes[i] = <<sentToServer[n + 1], i>>
      /\ Stream(Rest(HeaderSize + Size[sentToServer[n + 1]], ServerBytes), sentToServer, n + 1)
  BY <1>1, ServerTypes, StreamHead
<1> QED  BY <1>2 DEF n

\* Bytes that a recv takes from the stream are behind the parts it had.
LEMMA ServerTakes ==
    ASSUME ServerInv, NEW n \in 0 .. Len(toServer),
           partsRead' = partsRead \o First(n, toServer), toServer' = Rest(n, toServer)
    PROVE  /\ partsRead' \o toServer' = partsRead \o toServer
           /\ Len(partsRead') = Len(partsRead) + n
<1>1. /\ First(n, toServer) \in Seq(Byte) /\ Rest(n, toServer) \in Seq(Byte)
      /\ Len(First(n, toServer)) = n
      /\ First(n, toServer) \o Rest(n, toServer) = toServer
  BY ServerTypes, FirstRest
<1>2. (partsRead \o First(n, toServer)) \o Rest(n, toServer)
         = partsRead \o (First(n, toServer) \o Rest(n, toServer))
  <2>1. partsRead \in Seq(Byte)
    BY ServerTypes
  <2> QED  BY <1>1, <2>1, BytesAssociative, Zenon
<1>3. Len(partsRead \o First(n, toServer)) = Len(partsRead) + n
  BY <1>1, ServerTypes, ConcatProperties
<1> QED  BY <1>1, <1>2, <1>3, Zenon

\* A whole length tells how much is left of the next message.
LEMMA ServerReadsLength ==
    ASSUME ServerInv, TypeOK', NEW n \in 1 .. Len(toServer), recvLength(n)
    PROVE  ServerInv'
<1>1. /\ open /\ serverStep = "length" /\ n <= HeaderSize
      /\ shortRead' <=> shortRead \/ n < HeaderSize
      /\ UNCHANGED <<sentToServer, serverHandled>>
  BY DEF recvLength
<1>2. PICK length \in Lengths(First(n, toServer), ServerLimit) :
         \/ /\ partsRead' = First(n, toServer) /\ payloadLeft' = length
            /\ serverStep' = "type" /\ toServer' = Rest(n, toServer) /\ open' = open
         \/ Closed
  BY Zenon DEF recvLength
<1>3. CASE Closed
  BY <1>1, <1>3, ServerCloses, Zenon
<1>4. CASE /\ partsRead' = First(n, toServer) /\ payloadLeft' = length
           /\ serverStep' = "type" /\ toServer' = Rest(n, toServer) /\ open' = open
  <2>1. ServerPlace'
    BY <1>1, <1>4, Zenon DEF ServerPlace
  <2>2. ASSUME ~shortRead' PROVE ServerStream'
    <3> DEFINE m == sentToServer[Len(serverHandled) + 1]
    <3>1. ~shortRead /\ n = HeaderSize
      <4>1. ~shortRead /\ ~(n < HeaderSize)
        BY <1>1, <2>2, Zenon
      <4>2. n = HeaderSize
        BY <1>1, <4>1 DEF HeaderSize
      <4> QED  BY <4>1, <4>2
    <3>2. ServerBytes = toServer
      BY <1>1 DEF ServerBytes
    <3>3. toServer # <<>> /\ n \in 0 .. Len(toServer)
      BY ServerTypes
    <3>4. /\ m \in Message /\ HeaderSize + Size[m] \in 1 .. Len(toServer)
          /\ \A i \in 1 .. HeaderSize + Size[m] : toServer[i] = <<m, i>>
      BY <1>1, <3>1, <3>2, <3>3, ServerNext
    <3> HIDE DEF m
    <3>5. Lengths(First(HeaderSize, toServer), ServerLimit) = {Size[m]}
      <4>1. HeaderSize + Size[m] <= Len(toServer) /\ toServer \in Seq(Byte)
        BY <3>4, ServerTypes
      <4> QED  BY <3>4, <4>1, HeaderRead
    <3>6. payloadLeft' = Size[m]
      BY <1>4, <3>1, <3>5
    <3>7. Len(partsRead') = HeaderSize /\ partsRead' \o toServer' = toServer
      BY <1>4, <3>1, <3>3, FirstRest, ServerTypes
    <3>8. ServerBytes' = ServerBytes
      BY <1>4, <3>2, <3>7 DEF ServerBytes
    <3>9. /\ IsPrefix(serverHandled, sentToServer)
          /\ Stream(ServerBytes, sentToServer, Len(serverHandled))
      BY <1>1, <3>1, Zenon DEF ServerInv, ServerStream
    <3>10. HeaderSize >= HeaderSize
      BY DEF HeaderSize
    <3> HIDE DEF ServerBytes
    <3>11. Len(partsRead') + payloadLeft' = HeaderSize + Size[sentToServer'[Len(serverHandled') + 1]]
      BY <1>1, <3>6, <3>7, Zenon DEF m
    <3> QED  BY <1>1, <1>4, <3>7, <3>8, <3>9, <3>10, <3>11, Zenon DEF ServerStream
  <2> QED  BY <2>1, <2>2, Zenon DEF ServerInv, ServerStream
<1> QED  BY <1>2, <1>3, <1>4

\* Reading on leaves the stream as it is.
LEMMA ServerReadsOn ==
    ASSUME ServerInv, TypeOK',
           UNCHANGED <<open, sentToServer, serverHandled, shortRead>>,
           open, serverStep # "length", serverStep' = "payload",
           ~shortRead => /\ Len(partsRead') >= HeaderSize
                         /\ Len(partsRead') + payloadLeft' = Len(partsRead) + payloadLeft
                         /\ partsRead' \o toServer' = partsRead \o toServer
    PROVE  ServerInv'
<1>1. ~shortRead => ServerBytes' = ServerBytes
  BY DEF ServerBytes
<1> HIDE DEF ServerBytes
<1>2. ServerPlace' /\ ServerStream'
  BY <1>1, Zenon DEF ServerInv, ServerPlace, ServerStream
<1> QED  BY <1>2 DEF ServerInv

LEMMA ServerReadsType ==
    ASSUME ServerInv, TypeOK', recvType
    PROVE  ServerInv'
<1>1. /\ UNCHANGED <<open, sentToServer, serverHandled, shortRead>>
      /\ open /\ serverStep = "type" /\ serverStep' = "payload" /\ toServer # <<>>
      /\ partsRead' = partsRead \o First(1, toServer) /\ toServer' = Rest(1, toServer)
      /\ payloadLeft' = IF payloadLeft = 0 THEN Endless ELSE payloadLeft - 1
  BY DEF recvType, agentVars
<1>2. 1 \in 0 .. Len(toServer)
  BY <1>1, ServerTypes
<1>3. partsRead' \o toServer' = partsRead \o toServer /\ Len(partsRead') = Len(partsRead) + 1
  BY <1>1, <1>2, ServerTakes
<1>4. ASSUME ~shortRead
      PROVE  /\ Len(partsRead') >= HeaderSize
             /\ Len(partsRead') + payloadLeft' = Len(partsRead) + payloadLeft
  <2> DEFINE m == sentToServer[Len(serverHandled) + 1]
  <2>1. Len(partsRead) = HeaderSize /\ Len(partsRead) + payloadLeft = HeaderSize + Size[m]
    BY <1>1, <1>4, Zenon DEF ServerInv, ServerStream
  <2>2. ServerBytes # <<>>
    BY <1>1, <2>1, ServerTypes, ConcatProperties DEF ServerBytes, HeaderSize
  <2>3. m \in Message
    BY <1>1, <1>4, <2>2, ServerNext
  <2> HIDE DEF m
  <2>4. payloadLeft \in Nat /\ payloadLeft >= 1
    <3>1. payloadLeft \in 0 .. Endless /\ Endless \in Nat /\ Size[m] \in Nat /\ Size[m] >= 1
      BY <2>3, ServerTypes, SizeType, LimitsType
    <3> QED  BY <2>1, <3>1 DEF HeaderSize
  <2> QED  BY <1>1, <1>3, <2>1, <2>4 DEF HeaderSize
<1> QED  BY <1>1, <1>3, <1>4, ServerReadsOn

LEMMA ServerReadsPayload ==
    ASSUME ServerInv, TypeOK', NEW n \in 1 .. Len(toServer), recvPayload(n)
    PROVE  ServerInv'
<1>1. /\ UNCHANGED <<open, sentToServer, serverHandled, shortRead, serverStep>>
      /\ open /\ serverStep = "payload" /\ n <= payloadLeft
      /\ partsRead' = partsRead \o First(n, toServer) /\ toServer' = Rest(n, toServer)
      /\ payloadLeft' = IF payloadLeft = Endless THEN Endless ELSE payloadLeft - n
  BY DEF recvPayload, agentVars
<1>2. n \in 0 .. Len(toServer) /\ n \in Nat
  BY ServerTypes
<1>3. partsRead' \o toServer' = partsRead \o toServer /\ Len(partsRead') = Len(partsRead) + n
  BY <1>1, <1>2, ServerTakes
<1>4. ASSUME ~shortRead
      PROVE  /\ Len(partsRead') >= HeaderSize
             /\ Len(partsRead') + payloadLeft' = Len(partsRead) + payloadLeft
  <2> DEFINE m == sentToServer[Len(serverHandled) + 1]
  <2>1. /\ Len(partsRead) >= HeaderSize
        /\ Len(partsRead) + payloadLeft = HeaderSize + Size[m]
    BY <1>1, <1>4, Zenon DEF ServerInv, ServerStream
  <2>2. ServerBytes # <<>>
    BY <1>1, <2>1, ServerTypes, ConcatProperties DEF ServerBytes, HeaderSize
  <2>3. m \in Message
    BY <1>1, <1>4, <2>2, ServerNext
  <2> HIDE DEF m
  <2>4. payloadLeft \in Nat /\ payloadLeft <= ServerLimit /\ payloadLeft # Endless
    <3>1. /\ payloadLeft \in 0 .. Endless /\ Endless = ServerLimit + 1 /\ ServerLimit \in Nat
          /\ Size[m] \in Nat /\ Size[m] <= ServerLimit /\ Len(partsRead) \in Nat
      BY <2>3, ServerTypes, SizeType, LimitsType DEF Endless
    <3> QED  BY <2>1, <3>1 DEF HeaderSize
  <2> QED  BY <1>1, <1>2, <1>3, <2>1, <2>4, ServerTypes DEF HeaderSize
<1> QED  BY <1>1, <1>3, <1>4, ServerReadsOn

\* With nothing left of the payload the parts are the packet that was sent.
LEMMA ServerDispatches ==
    ASSUME ServerInv, TypeOK', dispatch
    PROVE  ServerInv'
<1>1. /\ UNCHANGED <<open, sentToServer, toServer, shortRead>>
      /\ open /\ serverStep = "payload" /\ serverStep' = "length" /\ payloadLeft = 0
      /\ serverHandled' = Append(serverHandled, Content(partsRead))
  BY DEF dispatch, agentVars
<1>2. ServerPlace'
  BY <1>1, Zenon DEF ServerPlace
<1>3. ASSUME ~shortRead PROVE ServerStream'
  <2> DEFINE n == Len(serverHandled)
             m == sentToServer[n + 1]
             size == HeaderSize + Size[m]
  <2>1. Len(partsRead) >= HeaderSize /\ Len(partsRead) + payloadLeft = size
    BY <1>1, <1>3, Zenon DEF ServerInv, ServerStream
  <2>2. Len(partsRead) = size /\ Len(partsRead) \in Nat
    BY <1>1, <2>1, ServerTypes
  <2>3. ServerBytes = partsRead \o toServer
    BY <1>1 DEF ServerBytes
  <2>4. ServerBytes # <<>>
    BY <2>1, <2>3, ServerTypes, ConcatProperties DEF HeaderSize
  <2>5. /\ m \in Message /\ n + 1 \in 1 .. Len(sentToServer)
        /\ \A i \in 1 .. size : ServerBytes[i] = <<m, i>>
        /\ Stream(Rest(size, ServerBytes), sentToServer, n + 1)
    BY <1>1, <1>3, <2>4, ServerNext
  <2>6. /\ \A i \in 1 .. Len(partsRead) : ServerBytes[i] = partsRead[i]
        /\ Rest(Len(partsRead), ServerBytes) = toServer
    <3>1. Len(partsRead) \in 0 .. Len(partsRead) /\ Len(partsRead) + 1 > Len(partsRead)
      BY <2>2
    <3>2. /\ \A i \in 1 .. Len(partsRead) : (partsRead \o toServer)[i] = partsRead[i]
          /\ Rest(Len(partsRead), partsRead \o toServer) = Rest(Len(partsRead), partsRead) \o toServer
      BY <3>1, FirstConcat, ServerTypes
    <3>3. Rest(Len(partsRead), partsRead) \in Seq(Byte) /\ Len(Rest(Len(partsRead), partsRead)) = 0
      <4>1. Len(Rest(Len(partsRead), partsRead)) = Len(partsRead) - Len(partsRead)
        BY <3>1, FirstRest, ServerTypes
      <4> QED  BY <2>2, <3>1, <4>1, FirstRest, ServerTypes
    <3>4. Rest(Len(partsRead), partsRead) = <<>>
      BY <3>3, EmptySeq
    <3> QED  BY <2>3, <3>2, <3>4, ServerTypes, ConcatEmptySeq
  <2>7. \A i \in 1 .. size : partsRead[i] = <<m, i>>
    BY <2>2, <2>5, <2>6
  <2>8. Content(partsRead) = m
    <3> HIDE DEF m
    <3> QED  BY <2>2, <2>5, <2>7, PacketRead, ServerTypes
  <2>9. serverHandled' = Append(serverHandled, m) /\ Len(serverHandled') = n + 1
    BY <1>1, <2>8, ServerTypes
  <2>10. IsPrefix(serverHandled', sentToServer')
    <3>1. IsPrefix(serverHandled, sentToServer)
      BY <1>3, Zenon DEF ServerInv, ServerStream
    <3>2. n + 1 <= Len(sentToServer) /\ m \in Message \cup {Garbage}
      BY <2>5, ServerTypes
    <3> QED  BY <1>1, <2>9, <3>1, <3>2, PrefixAppend, ServerTypes
  <2>11. ServerBytes' = toServer
    BY <1>1 DEF ServerBytes
  <2>12. Stream(ServerBytes', sentToServer', Len(serverHandled'))
    BY <1>1, <2>2, <2>5, <2>6, <2>9, <2>11, Zenon
  <2> HIDE DEF ServerBytes
  <2> QED  BY <1>1, <2>10, <2>12, Zenon DEF ServerStream
<1>4. ServerStream'
  BY <1>1, <1>3, Zenon DEF ServerStream
<1> QED  BY <1>2, <1>4 DEF ServerInv

LEMMA ServerStep == ServerInv /\ [Next]_vars => ServerInv'
<1> SUFFICES ASSUME ServerInv, [Next]_vars PROVE ServerInv'
  OBVIOUS
<1>1. TypeOK'
  BY NextTypeOK DEF ServerInv
<1>2. CASE connect
  BY <1>1, <1>2, ServerConnects
<1>3. CASE disconnect
  BY <1>1, <1>3, ServerCloses DEF disconnect
<1>4. ASSUME NEW m \in Message, sendBinaryMessage(m) PROVE ServerInv'
  BY <1>1, <1>4, ServerIsSent
<1>5. ASSUME NEW n \in 1 .. Len(toServer), recvLength(n) PROVE ServerInv'
  BY <1>1, <1>5, ServerReadsLength
<1>6. ASSUME NEW n \in 1 .. Len(toServer), recvPayload(n) PROVE ServerInv'
  BY <1>1, <1>6, ServerReadsPayload
<1>7. CASE recvType
  BY <1>1, <1>7, ServerReadsType
<1>8. CASE dispatch
  BY <1>1, <1>8, ServerDispatches
<1>9. CASE UNCHANGED serverState
  BY <1>1, <1>9, ServerUntouched
<1>10. ASSUME NEW m \in Message, sendBinaryMessageToSocket(m) PROVE UNCHANGED serverState
  BY <1>10 DEF sendBinaryMessageToSocket, serverVars, serverState
<1>11. ASSUME NEW n, onDataReceived(n) PROVE UNCHANGED serverState
  BY <1>11 DEF onDataReceived, serverVars, serverState
<1>12. waitForData \/ readHeader \/ handleMessage \/ UNCHANGED vars => UNCHANGED serverState
  BY DEF waitForData, readHeader, handleMessage, vars, serverVars, serverState
<1> QED  BY <1>2, <1>3, <1>4, <1>5, <1>6, <1>7, <1>8, <1>9, <1>10, <1>11, <1>12, Zenon DEF Next

\* The server's handlers get what the agent sent, whole and in order, as long
\* as no recv of a length is cut short.
THEOREM Spec_ServerFramesRight == Spec => []ServerFramesRight
<1>1. ServerInv => ServerFramesRight
  BY Zenon DEF ServerInv, ServerStream, ServerFramesRight
<1> QED  BY <1>1, ServerInit, ServerStep, PTL DEF Spec

\* A thread that waits for a length with nothing on the way has handled all
\* that the agent sent.
THEOREM Spec_ServerReadsAll == Spec => []ServerReadsAll
<1>1. ASSUME ServerInv, open, ~shortRead, serverStep = "length", toServer = <<>>
      PROVE  serverHandled = sentToServer
  <2>1. /\ Stream(<<>>, sentToServer, Len(serverHandled))
        /\ IsPrefix(serverHandled, sentToServer)
    BY <1>1, Zenon DEF ServerInv, ServerStream, ServerBytes
  <2>2. Len(serverHandled) = Len(sentToServer)
    BY <1>1, <2>1, EmptySeq, StreamDone, ServerTypes
  <2>3. \A i \in 1 .. Len(serverHandled) : serverHandled[i] = sentToServer[i]
    BY <1>1, <2>1, PrefixSame, ServerTypes
  <2> QED  BY <1>1, <2>2, <2>3, SeqEqual, ServerTypes
<1>2. ServerInv => ServerReadsAll
  BY <1>1, Zenon DEF ServerReadsAll
<1> QED  BY <1>2, ServerInit, ServerStep, PTL DEF Spec

-----------------------------------------------------------------------------
(***************************************************************************)
(* The channels                                                            *)
(***************************************************************************)

\* The message that keeps what was handled a prefix is the next one.
LEMMA NextHandled ==
    ASSUME NEW S, NEW a \in Seq(S), NEW b \in Seq(S), NEW m \in S, IsPrefix(Append(a, m), b)
    PROVE  Len(a) < Len(b) /\ m = b[Len(a) + 1]
<1> DEFINE c == Append(a, m)
<1>1. c \in Seq(S) /\ Len(c) = Len(a) + 1 /\ c[Len(a) + 1] = m
  OBVIOUS
<1>2. Len(c) <= Len(b) /\ \A i \in 1 .. Len(c) : c[i] = b[i]
  <2> HIDE DEF c
  <2>1. IsPrefix(c, b)
    BY DEF c
  <2> QED  BY <1>1, <2>1, PrefixSame
<1>3. Len(a) \in Nat /\ Len(b) \in Nat
  OBVIOUS
<1> HIDE DEF c
<1> QED  BY <1>1, <1>2, <1>3

LEMMA HandledTypes ==
    ASSUME TypeOK
    PROVE  /\ agentHandled \in Seq(Message \cup {Garbage})
           /\ serverHandled \in Seq(Message \cup {Garbage})
           /\ sentToAgent \in Seq(Message \cup {Garbage})
           /\ sentToServer \in Seq(Message \cup {Garbage})
           /\ staleBuffer \in BOOLEAN /\ shortRead \in BOOLEAN
<1>1. sentToAgent \in Seq(Message) /\ sentToServer \in Seq(Message)
  BY Zenon DEF TypeOK
<1>2. sentToAgent \in Seq(Message \cup {Garbage}) /\ sentToServer \in Seq(Message \cup {Garbage})
  BY <1>1, SeqMonotonic
<1> QED  BY <1>2, Zenon DEF TypeOK

toAgentVars == <<open, sentToAgent, agentHandled, staleBuffer>>
toServerVars == <<open, sentToServer, serverHandled, shortRead>>

\* A connection begins and ends for both directions at once.
LEMMA ChannelsConnect ==
    connect /\ TypeOK' => ToAgent!Connect /\ ToServer!Connect
BY HandledTypes, Zenon DEF connect, ToAgent!Connect, ToServer!Connect, TypeOK

LEMMA ChannelsClose ==
    ASSUME open, Closed, UNCHANGED <<sentToAgent, agentHandled, staleBuffer>>,
           UNCHANGED <<sentToServer, serverHandled>>, shortRead => shortRead'
    PROVE  ToAgent!Disconnect /\ ToServer!Disconnect
BY Zenon DEF Closed, ToAgent!Disconnect, ToServer!Disconnect

\* A message handled by the agent is the next one that was sent.
LEMMA AgentHandlesNext ==
    ASSUME AgentInv, AgentInv', handleMessage
    PROVE  ToAgent!Next /\ UNCHANGED toServerVars
<1> DEFINE m == Content(First(HeaderSize + expectedMessageSize, receiveBuffer))
<1>1. /\ UNCHANGED <<open, sentToAgent, staleBuffer>> /\ UNCHANGED toServerVars
      /\ parsing /\ agentHandled' = Append(agentHandled, m)
  BY Zenon DEF handleMessage, serverVars, toServerVars
<1>2. m \in Message \cup {Garbage}
  BY ContentType
<1> HIDE DEF m
<1>3. ASSUME ~staleBuffer
      PROVE  Len(agentHandled) < Len(sentToAgent) /\ m = sentToAgent[Len(agentHandled) + 1]
  <2>1. IsPrefix(Append(agentHandled, m), sentToAgent)
    BY <1>1, <1>3, Zenon DEF AgentInv, AgentStream
  <2> QED  BY <1>2, <2>1, NextHandled, HandledTypes DEF AgentInv
<1>4. ToAgent!Handle(m)
  BY <1>1, <1>3, Zenon DEF ToAgent!Handle
<1> QED  BY <1>1, <1>2, <1>4, Zenon DEF ToAgent!Next

LEMMA ServerHandlesNext ==
    ASSUME ServerInv, ServerInv', dispatch
    PROVE  ToServer!Next /\ UNCHANGED toAgentVars
<1> DEFINE m == Content(partsRead)
<1>1. /\ UNCHANGED <<open, sentToServer, shortRead>> /\ UNCHANGED toAgentVars
      /\ open /\ serverHandled' = Append(serverHandled, m)
  BY Zenon DEF dispatch, agentVars, toAgentVars
<1>2. m \in Message \cup {Garbage}
  BY ContentType
<1> HIDE DEF m
<1>3. ASSUME ~shortRead
      PROVE  Len(serverHandled) < Len(sentToServer) /\ m = sentToServer[Len(serverHandled) + 1]
  <2>1. IsPrefix(Append(serverHandled, m), sentToServer)
    BY <1>1, <1>3, Zenon DEF ServerInv, ServerStream
  <2> QED  BY <1>2, <2>1, NextHandled, HandledTypes DEF ServerInv
<1>4. ToServer!Handle(m)
  BY <1>1, <1>3, Zenon DEF ToServer!Handle
<1> QED  BY <1>1, <1>2, <1>4, Zenon DEF ToServer!Next

\* A recv of a length is cut short, ends the connection, or changes nothing that
\* the channels show.
LEMMA LengthMaps ==
    ASSUME TypeOK, TypeOK', NEW n, recvLength(n)
    PROVE  \/ ToAgent!Disconnect /\ ToServer!Disconnect
           \/ UNCHANGED toAgentVars /\ (ToServer!Spoil \/ UNCHANGED toServerVars)
<1>1. /\ open /\ UNCHANGED <<sentToAgent, agentHandled, staleBuffer>>
      /\ UNCHANGED <<sentToServer, serverHandled>>
      /\ shortRead' = (shortRead \/ n < HeaderSize)
      /\ Closed \/ UNCHANGED open
  BY Zenon DEF recvLength
<1>2. shortRead \in BOOLEAN /\ shortRead' \in BOOLEAN
  BY Zenon DEF TypeOK
<1>3. shortRead' = TRUE \/ UNCHANGED shortRead
  BY <1>1, <1>2, Zenon
<1>4. shortRead => shortRead'
  BY <1>1
<1>5. CASE Closed
  BY <1>1, <1>4, <1>5, ChannelsClose
<1>6. CASE UNCHANGED open
  BY <1>1, <1>3, <1>6, Zenon DEF ToServer!Spoil, toAgentVars, toServerVars
<1> QED  BY <1>1, <1>5, <1>6

LEMMA ChannelsStep ==
    ASSUME AgentInv, AgentInv', ServerInv, ServerInv', [Next]_vars
    PROVE  [ToAgent!Next]_toAgentVars /\ [ToServer!Next]_toServerVars
<1> DEFINE Maps == [ToAgent!Next]_toAgentVars /\ [ToServer!Next]_toServerVars
<1>1. TypeOK /\ TypeOK'
  BY DEF AgentInv
<1>2. ASSUME ToAgent!Connect /\ ToServer!Connect PROVE Maps
  BY <1>2, Zenon DEF ToAgent!Next, ToServer!Next
<1>3. ASSUME ToAgent!Disconnect /\ ToServer!Disconnect PROVE Maps
  BY <1>3, Zenon DEF ToAgent!Next, ToServer!Next
<1>4. ASSUME connect PROVE Maps
  BY <1>1, <1>2, <1>4, ChannelsConnect
<1>5. ASSUME disconnect PROVE Maps
  <2>1. ToAgent!Disconnect /\ ToServer!Disconnect
    BY <1>5, ChannelsClose DEF disconnect
  <2> QED  BY <1>3, <2>1
<1>6. ASSUME NEW m \in Message, sendBinaryMessageToSocket(m) PROVE Maps
  <2>1. ToAgent!Send(m) /\ UNCHANGED toServerVars
    BY <1>6, Zenon DEF sendBinaryMessageToSocket, serverVars, ToAgent!Send, toServerVars
  <2> QED  BY <2>1, Zenon DEF ToAgent!Next
<1>7. ASSUME NEW m \in Message, sendBinaryMessage(m) PROVE Maps
  <2>1. ToServer!Send(m) /\ UNCHANGED toAgentVars
    BY <1>7, Zenon DEF sendBinaryMessage, agentVars, ToServer!Send, toAgentVars
  <2> QED  BY <2>1, Zenon DEF ToServer!Next
<1>8. ASSUME handleMessage PROVE Maps
  BY <1>8, AgentHandlesNext
<1>9. ASSUME dispatch PROVE Maps
  BY <1>9, ServerHandlesNext
<1>10. ASSUME NEW n, recvLength(n) PROVE Maps
  <2>1. CASE UNCHANGED toAgentVars /\ (ToServer!Spoil \/ UNCHANGED toServerVars)
    BY <2>1, Zenon DEF ToServer!Next
  <2> QED  BY <1>1, <1>3, <1>10, <2>1, LengthMaps
<1>11. ASSUME UNCHANGED toAgentVars, UNCHANGED toServerVars PROVE Maps
  BY <1>11, Zenon
<1> USE DEF serverVars, agentVars, toAgentVars, toServerVars
<1>12. ASSUME NEW n, onDataReceived(n) PROVE Maps
  BY <1>11, <1>12, Zenon DEF onDataReceived
<1>13. ASSUME NEW n, recvPayload(n) PROVE Maps
  BY <1>11, <1>13, Zenon DEF recvPayload
<1>14. ASSUME waitForData PROVE Maps
  BY <1>11, <1>14, Zenon DEF waitForData
<1>15. ASSUME readHeader PROVE Maps
  BY <1>11, <1>15, Zenon DEF readHeader
<1>16. ASSUME recvType PROVE Maps
  BY <1>11, <1>16, Zenon DEF recvType
<1>17. ASSUME UNCHANGED vars PROVE Maps
  BY <1>11, <1>17, Zenon DEF vars
<1> HIDE DEF Maps
<1>18. Maps
  BY <1>4, <1>5, <1>6, <1>7, <1>8, <1>9, <1>10, <1>12, <1>13, <1>14, <1>15, <1>16, <1>17, Zenon
     DEF Next
<1> QED  BY <1>18 DEF Maps

\* Both directions are channels of messages: what one end sends, the handlers of
\* the other get next, or the connection ends, for streams cut into any pieces.
THEOREM Spec_KeepsChannels == Spec => KeepsChannels
<1>1. Init => ToAgent!Init /\ ToServer!Init
  BY Zenon DEF Init, ToAgent!Init, ToServer!Init
<1>2. AgentInv /\ AgentInv' /\ ServerInv /\ ServerInv' /\ [Next]_vars
          => /\ [ToAgent!Next]_<<open, sentToAgent, agentHandled, staleBuffer>>
             /\ [ToServer!Next]_<<open, sentToServer, serverHandled, shortRead>>
  BY ChannelsStep DEF toAgentVars, toServerVars
<1> QED  BY <1>1, <1>2, AgentInit, AgentStep, ServerInit, ServerStep, PTL
         DEF Spec, KeepsChannels, ToAgent!Spec, ToServer!Spec

=============================================================================
