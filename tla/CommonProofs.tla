---------------------------- MODULE CommonProofs ----------------------------
(***************************************************************************)
(* Theorems about the data structures of common/.  Of Relay: whatever the  *)
(* widths of the sizes and the room of the buffers, and however often the  *)
(* buffers are used again, what is decoded is what was encoded.  Of        *)
(* ConsistentMap: what find returns, and what changes for the other keys   *)
(* when a node joins or leaves the ring.  Of LogSink: a message written in *)
(* its hour is in the file of that hour, and no file is opened twice.      *)
(***************************************************************************)
EXTENDS Relay, ConsistentMap, LogSink, WellFoundedInduction, SequenceTheorems,
        TLAPS

-----------------------------------------------------------------------------
(* Sequences and their parts *)

\* Bytes are numbers, and NUL is one.
LEMMA BytesNat ==
  ASSUME BuffersAssumption
  PROVE  NUL \in Bytes /\ Bytes \subseteq Nat
  BY DEF BuffersAssumption, NUL, Bytes

\* From k on, the sequence q goes on with p.
Part(q, k, p) ==
  /\ k + Len(p) <= Len(q)
  /\ \A i \in 1 .. Len(p) : q[k + i] = p[i]

\* What is put together is found again.
LEMMA ConcatParts ==
  ASSUME NEW S, NEW p \in Seq(S), NEW q \in Seq(S)
  PROVE  /\ p \o q \in Seq(S) /\ Len(p \o q) = Len(p) + Len(q)
         /\ Part(p \o q, 0, p) /\ Part(p \o q, Len(p), q)
<1>1. /\ p \o q \in Seq(S) /\ Len(p \o q) = Len(p) + Len(q)
      /\ \A i \in 1 .. Len(p) : (p \o q)[0 + i] = p[i]
      /\ \A i \in 1 .. Len(q) : (p \o q)[Len(p) + i] = q[i]
  OBVIOUS
<1>2. Len(p) \in Nat /\ Len(q) \in Nat
  OBVIOUS
<1>3. Part(p \o q, 0, p)
  BY <1>1, <1>2 DEF Part
<1>4. Part(p \o q, Len(p), q)
  BY <1>1, <1>2 DEF Part
<1> QED BY <1>1, <1>3, <1>4

\* A part of a part is a part of the whole.
LEMMA PartOfPart ==
  ASSUME NEW S, NEW q \in Seq(S), NEW p \in Seq(S), NEW r \in Seq(S),
         NEW k \in Nat, NEW l \in Nat, Part(q, k, p), Part(p, l, r)
  PROVE  Part(q, k + l, r)
<1>1. /\ Len(q) \in Nat /\ Len(p) \in Nat /\ Len(r) \in Nat
      /\ k + Len(p) <= Len(q) /\ l + Len(r) <= Len(p)
  BY DEF Part
<1>2. ASSUME NEW i \in 1 .. Len(r) PROVE q[(k + l) + i] = r[i]
  <2>1. l + i \in 1 .. Len(p) /\ k + (l + i) = (k + l) + i
    BY <1>1
  <2>2. q[k + (l + i)] = p[l + i] /\ p[l + i] = r[i]
    BY <2>1 DEF Part
  <2> QED BY <2>1, <2>2
<1> QED BY <1>1, <1>2 DEF Part

\* A part is cut out by SubSeq.
LEMMA CutPart ==
  ASSUME NEW S, NEW q \in Seq(S), NEW p \in Seq(S), NEW k \in Nat,
         Part(q, k, p)
  PROVE  SubSeq(q, k + 1, k + Len(p)) = p
<1>1. Len(q) \in Nat /\ Len(p) \in Nat /\ k + Len(p) <= Len(q)
  BY DEF Part
<1> DEFINE c == SubSeq(q, k + 1, k + Len(p))
<1>2. c \in Seq(S) /\ Len(c) = Len(p)
  BY <1>1
<1>3. \A i \in 1 .. Len(p) : c[i] = q[k + i]
  BY <1>1
<1>4. \A i \in 1 .. Len(p) : c[i] = p[i]
  BY <1>3 DEF Part
<1> HIDE DEF c
<1> QED BY <1>1, <1>2, <1>4 DEF c

\* Half of a cut, and one that goes beyond the part.
LEMMA CutFirst ==
  ASSUME NEW S, NEW q \in Seq(S), NEW p \in Seq(S), NEW k \in Nat,
         NEW b \in Nat, Part(q, k, p), k + Len(p) <= b, b <= Len(q)
  PROVE  SubSeq(SubSeq(q, k + 1, b), 1, Len(p)) = p
<1>1. Len(q) \in Nat /\ Len(p) \in Nat
  OBVIOUS
<1> DEFINE c == SubSeq(q, k + 1, b)
<1>2. /\ c \in Seq(S) /\ Len(c) = b - k
      /\ \A i \in 1 .. b - k : c[i] = q[k + i]
  BY <1>1
<1> HIDE DEF c
<1>3. \A i \in 1 .. Len(p) : c[0 + i] = p[i]
  BY <1>1, <1>2 DEF Part
<1>4. 0 + Len(p) <= Len(c)
  BY <1>1, <1>2
<1>5. Part(c, 0, p)
  BY <1>3, <1>4 DEF Part
<1>6. SubSeq(c, 0 + 1, 0 + Len(p)) = p
  BY <1>2, <1>5, CutPart
<1> QED BY <1>1, <1>6 DEF c

\* A body is a sequence.
LEMMA SeqLen ==
  ASSUME NEW S, NEW n \in Nat, NEW f \in [1 .. n -> S]
  PROVE  f \in Seq(S) /\ Len(f) = n
  OBVIOUS

\* What Append adds is the last element.
LEMMA AppendIs ==
  ASSUME NEW S, NEW q \in Seq(S), NEW e \in S
  PROVE  /\ Append(q, e) \in Seq(S) /\ Len(Append(q, e)) = Len(q) + 1
         /\ \A i \in 1 .. Len(q) : Append(q, e)[i] = q[i]
         /\ Append(q, e)[Len(q) + 1] = e
         /\ Part(Append(q, e), 0, q)
<1>1. /\ Append(q, e) \in Seq(S) /\ Len(Append(q, e)) = Len(q) + 1
      /\ \A i \in 1 .. Len(q) : Append(q, e)[i] = q[i]
      /\ Append(q, e)[Len(q) + 1] = e
  OBVIOUS
<1>2. \A i \in 1 .. Len(q) : Append(q, e)[0 + i] = q[i]
  BY <1>1
<1>3. 0 + Len(q) <= Len(Append(q, e))
  BY <1>1
<1> QED BY <1>1, <1>2, <1>3 DEF Part

\* The first elements, cut off.
LEMMA FirstIs ==
  ASSUME NEW S, NEW q \in Seq(S), NEW n \in Nat, n <= Len(q)
  PROVE  /\ SubSeq(q, 1, n) \in Seq(S) /\ Len(SubSeq(q, 1, n)) = n
         /\ \A i \in 1 .. n : SubSeq(q, 1, n)[i] = q[i]
  OBVIOUS

\* A frame is copied to the start of a body that has room for it.
LEMMA PutIs ==
  ASSUME NEW room \in Nat, NEW body \in [1 .. room -> Bytes],
         NEW bytes \in Seq(Bytes), Len(bytes) <= room
  PROVE  /\ Put(body, bytes) \in [1 .. room -> Bytes]
         /\ Put(body, bytes) \in Seq(Bytes) /\ Len(Put(body, bytes)) = room
         /\ Part(Put(body, bytes), 0, bytes)
         /\ SubSeq(Put(body, bytes), 1, Len(bytes)) = bytes
<1> DEFINE p == Put(body, bytes)
<1>1. Len(bytes) \in Nat /\ \A i \in 1 .. Len(bytes) : bytes[i] \in Bytes
  OBVIOUS
<1>2. p \in [1 .. room -> Bytes] /\ \A i \in 1 .. Len(bytes) : p[i] = bytes[i]
  BY <1>1 DEF Put
<1> HIDE DEF p
<1>3. p \in Seq(Bytes) /\ Len(p) = room
  BY <1>2, SeqLen
<1>4. \A i \in 1 .. Len(bytes) : p[0 + i] = bytes[i]
  BY <1>1, <1>2
<1>5. Part(p, 0, bytes)
  BY <1>1, <1>3, <1>4 DEF Part
<1>6. SubSeq(p, 0 + 1, 0 + Len(bytes)) = bytes
  BY <1>3, <1>5, CutPart
<1> QED BY <1>1, <1>2, <1>3, <1>5, <1>6 DEF p

\* A cleared body.
LEMMA ZerosAre ==
  ASSUME BuffersAssumption, NEW n \in Nat
  PROVE  /\ Zeros(n) \in Seq(Bytes) /\ Len(Zeros(n)) = n
         /\ Zeros(n) \in [1 .. n -> Bytes]
  BY BytesNat DEF Zeros

-----------------------------------------------------------------------------
(* The bytes of a UserBuffer *)

\* Narrowing to a byte.
LEMMA Modulus ==
  ASSUME NEW n \in Nat
  PROVE  /\ n % ByteMod \in 0 .. ByteMod - 1 /\ n % ByteMod <= n
         /\ n < ByteMod => n % ByteMod = n
  BY BuffersAssumption DEF BuffersAssumption

\* The size of a name with its NUL, as a uint8_t.
NameSize(m) == (Len(m.name) + 1) % ByteMod

\* What RelayAssumption says of a message.
LEMMA MessageIs ==
  ASSUME NEW m \in Messages
  PROVE  /\ m = [name |-> m.name, data |-> m.data]
         /\ m.name \in Seq(Bytes) /\ m.name # <<>> /\ m.data \in Seq(Bytes)
         /\ \A i \in 1 .. Len(m.name) : m.name[i] # NUL
         /\ 1 + Len(m.name) + 1 + Len(m.data) + CheckSize <= UserRoom
         /\ Len(m.name) \in Nat \ {0} /\ Len(m.data) \in Nat
<1>1. m \in [name : Texts \ {<<>>}, data : Seq(Bytes)]
  BY RelayAssumption DEF RelayAssumption
<1>2. m.name \in Seq(Bytes \ {NUL})
  BY <1>1 DEF Texts
<1>3. m.name \in Seq(Bytes)
  BY <1>2, SeqMonotonic
<1>4. 1 + Len(m.name) + 1 + Len(m.data) + CheckSize <= UserRoom
  BY RelayAssumption DEF RelayAssumption
<1>5. m.name # <<>>
  BY <1>1
<1> QED BY <1>1, <1>2, <1>3, <1>4, <1>5

\* Narrowing changes the size of a name only if it is too long.
LEMMA NameSizeIs ==
  ASSUME NEW m \in Messages
  PROVE  /\ NameSize(m) \in Bytes /\ NameSize(m) \in Nat
         /\ NameSize(m) <= Len(m.name) + 1
         /\ Short(m.name) => NameSize(m) = Len(m.name) + 1
         /\ ~Short(m.name) => NameSize(m) <= Len(m.name)
<1> DEFINE k == Len(m.name) + 1
<1>1. Len(m.name) \in Nat /\ k \in Nat
  BY MessageIs
<1>2. ByteMod \in Nat
  BY BuffersAssumption DEF BuffersAssumption
<1>3. NameSize(m) = k % ByteMod
  BY DEF NameSize
<1>4. /\ k % ByteMod \in 0 .. ByteMod - 1 /\ k % ByteMod <= k
      /\ k < ByteMod => k % ByteMod = k
  BY <1>1, Modulus
<1>5. Short(m.name) <=> k < ByteMod
  BY DEF Short
<1> HIDE DEF k
<1>6. NameSize(m) \in Bytes /\ NameSize(m) \in Nat /\ NameSize(m) <= k
  BY <1>2, <1>3, <1>4 DEF Bytes
<1>7. ~(k < ByteMod) => NameSize(m) < k
  BY <1>1, <1>2, <1>3, <1>4
<1> QED BY <1>1, <1>3, <1>4, <1>5, <1>6, <1>7 DEF k

\* What is left of the name, with its NUL if it is short.
NameBytes(m) == SubSeq(Append(m.name, NUL), 1, NameSize(m))

\* The bytes that UserEncode copies of the name are its first ones.
LEMMA NameBytesAre ==
  ASSUME NEW m \in Messages
  PROVE  /\ NameBytes(m) \in Seq(Bytes) /\ Len(NameBytes(m)) = NameSize(m)
         /\ \A i \in 1 .. NameSize(m) : NameBytes(m)[i] = Append(m.name, NUL)[i]
<1>1. NameSize(m) \in Nat /\ NameSize(m) <= Len(m.name) + 1
  BY NameSizeIs
<1>2. Append(m.name, NUL) \in Seq(Bytes) /\ Len(Append(m.name, NUL)) = Len(m.name) + 1
  BY MessageIs, BytesNat, BuffersAssumption, AppendIs
<1> QED BY <1>1, <1>2, FirstIs DEF NameBytes

\* What UserEncode puts into the body.
UserBytes(m) ==
  <<NameSize(m)>> \o NameBytes(m) \o m.data \o Zeros(CheckSize)

\* The size of the name, the name, and the data, one after the other.
LEMMA UserBytesAre ==
  ASSUME NEW m \in Messages
  PROVE  /\ UserBytes(m) \in Seq(Bytes)
         /\ Len(UserBytes(m)) = 1 + NameSize(m) + Len(m.data) + CheckSize
         /\ Len(UserBytes(m)) \in 1 .. UserRoom
         /\ Part(UserBytes(m), 0, <<NameSize(m)>>)
         /\ Part(UserBytes(m), 1, NameBytes(m))
         /\ Part(UserBytes(m), 1 + NameSize(m), m.data)
<1> DEFINE n == NameSize(m)
           a == <<n>>
           b == NameBytes(m)
           c == m.data
           d == Zeros(CheckSize)
           ab == a \o b
           abc == ab \o c
<1>1. n \in Nat /\ n \in Bytes /\ n <= Len(m.name) + 1
  BY NameSizeIs
<1>2. a \in Seq(Bytes) /\ Len(a) = 1
  BY <1>1
<1>3. b \in Seq(Bytes) /\ Len(b) = n
  BY NameBytesAre
<1>4. CheckSize \in Nat /\ UserMax \in Int
  BY BuffersAssumption DEF BuffersAssumption
<1>5. /\ c \in Seq(Bytes) /\ d \in Seq(Bytes) /\ Len(d) = CheckSize
      /\ Len(c) \in Nat /\ Len(m.name) \in Nat
  BY <1>4, BuffersAssumption, MessageIs, ZerosAre
<1>6. UserBytes(m) = abc \o d
  BY DEF UserBytes
<1>7. 1 + Len(m.name) + 1 + Len(c) + CheckSize <= UserRoom
  BY MessageIs
<1>8. /\ ab \in Seq(Bytes) /\ Len(ab) = 1 + n
      /\ Part(ab, 0, a) /\ Part(ab, 1, b)
  <2> HIDE DEF a, b
  <2> QED BY <1>2, <1>3, ConcatParts
<1> HIDE DEF n, a, b, c, d, ab
<1>9. /\ abc \in Seq(Bytes) /\ Len(abc) = 1 + n + Len(c)
      /\ Part(abc, 0, ab) /\ Part(abc, 1 + n, c)
  BY <1>5, <1>8, ConcatParts
<1> HIDE DEF abc
<1>10. /\ UserBytes(m) \in Seq(Bytes)
       /\ Len(UserBytes(m)) = 1 + n + Len(c) + CheckSize
       /\ Part(UserBytes(m), 0, abc)
  <2>1. /\ abc \o d \in Seq(Bytes) /\ Len(abc \o d) = Len(abc) + Len(d)
        /\ Part(abc \o d, 0, abc)
    BY <1>5, <1>9, ConcatParts
  <2>2. Len(abc \o d) = 1 + n + Len(c) + CheckSize
    BY <1>5, <1>9, <2>1
  <2> QED BY <1>6, <2>1, <2>2
<1>11. Len(UserBytes(m)) \in 1 .. UserRoom
  BY <1>1, <1>4, <1>5, <1>7, <1>10 DEF UserRoom
<1>12. Part(UserBytes(m), 0 + 0, ab) /\ Part(UserBytes(m), 0 + (1 + n), c)
  BY <1>1, <1>5, <1>8, <1>9, <1>10, PartOfPart
<1>13. Part(UserBytes(m), 0, ab) /\ Part(UserBytes(m), 1 + n, c)
  BY <1>1, <1>12
<1>14. Part(UserBytes(m), 0 + 0, a) /\ Part(UserBytes(m), 0 + 1, b)
  BY <1>2, <1>3, <1>8, <1>10, <1>13, PartOfPart
<1>15. Part(UserBytes(m), 0, a) /\ Part(UserBytes(m), 1, b)
  BY <1>14
<1> QED BY <1>10, <1>11, <1>13, <1>15 DEF n, a, b, c


\* What a buffer with so much room carries: its header has the size of the bytes,
\* which are at the start of its body.
Carries(b, bytes, room) ==
  /\ b = [size |-> b.size, body |-> b.body]
  /\ b.body \in [1 .. room -> Bytes] /\ b.size = Len(bytes)
  /\ Part(b.body, 0, bytes)

Wire(bytes) == [size |-> Len(bytes), bytes |-> bytes]

\* What is sent of a buffer are the bytes it carries.
LEMMA FrameIs ==
  ASSUME NEW room \in Nat, NEW bytes \in Seq(Bytes), NEW b,
         Carries(b, bytes, room)
  PROVE  /\ SubSeq(b.body, 1, b.size) = bytes
         /\ Frame(b) = Wire(bytes)
<1>1. b.body \in Seq(Bytes)
  BY SeqLen DEF Carries
<1>2. Part(b.body, 0, bytes) /\ b.size = Len(bytes) /\ Len(bytes) \in Nat
  BY DEF Carries
<1>3. SubSeq(b.body, 0 + 1, 0 + Len(bytes)) = bytes
  BY <1>1, <1>2, CutPart
<1>4. SubSeq(b.body, 1, b.size) = bytes
  BY <1>2, <1>3
<1> QED BY <1>2, <1>4 DEF Frame, Wire

\* Bytes copied into a body are carried, whatever it held.
LEMMA PutCarries ==
  ASSUME NEW room \in Nat, NEW body \in [1 .. room -> Bytes],
         NEW bytes \in Seq(Bytes), Len(bytes) <= room
  PROVE  Carries([size |-> Len(bytes), body |-> Put(body, bytes)], bytes, room)
<1> DEFINE p == Put(body, bytes)
<1>1. p \in [1 .. room -> Bytes] /\ Part(p, 0, bytes)
  BY PutIs
<1> HIDE DEF p
<1>2. Carries([size |-> Len(bytes), body |-> p], bytes, room)
  BY <1>1 DEF Carries
<1> QED BY <1>2 DEF p

\* A frame that is read is carried.
LEMMA ReceiveCarries ==
  ASSUME NEW room \in Nat, NEW b, b.body \in [1 .. room -> Bytes],
         NEW bytes \in Seq(Bytes), Len(bytes) <= room
  PROVE  Carries(Receive(b, Wire(bytes)), bytes, room)
  BY PutCarries DEF Receive, Wire

\* The numbers BuffersAssumption is about.
LEMMA RoomsAre ==
  /\ UserRoom \in Nat /\ PipeRoom \in Nat
  /\ UserMax \in Nat /\ PipeMax \in Nat /\ HalfMod \in Nat \ {0}
  /\ UserMax < HalfMod /\ UserRoom < UserMax
  /\ IdSize \in Nat \ {0} /\ CheckSize \in Nat
  BY BuffersAssumption DEF BuffersAssumption, UserRoom, PipeRoom

\* UserEncode puts UserBytes into a cleared buffer.
LEMMA UserEncodeCarries ==
  ASSUME NEW m \in Messages
  PROVE  Carries(UserEncode(m), UserBytes(m), UserRoom)
<1>1. UserEncode(m) =
        [size |-> Len(UserBytes(m)), body |-> Put(Zeros(UserRoom), UserBytes(m))]
  BY DEF UserEncode, UserBytes, NameBytes, NameSize
<1>2. UserRoom \in Nat /\ Zeros(UserRoom) \in [1 .. UserRoom -> Bytes]
  BY RoomsAre, BuffersAssumption, ZerosAre
<1>3. UserBytes(m) \in Seq(Bytes) /\ Len(UserBytes(m)) <= UserRoom
  <2>1. UserBytes(m) \in Seq(Bytes) /\ Len(UserBytes(m)) \in 1 .. UserRoom
    BY UserBytesAre
  <2>2. \A i \in 1 .. UserRoom : i <= UserRoom
    BY <1>2
  <2> QED BY <2>1, <2>2
<1> QED BY <1>1, <1>2, <1>3, PutCarries

\* The name and the data are found where UserEncode puts them; in place of the NUL
\* of a name that is too long there is a byte of the name.
LEMMA MessageFound ==
  ASSUME NEW m \in Messages, NEW body \in Seq(Bytes), NEW k \in Nat,
         Part(body, k, UserBytes(m))
  PROVE  /\ body[k + 1] = NameSize(m)
         /\ Short(m.name) =>
              /\ body[k + 1 + NameSize(m)] = NUL
              /\ SubSeq(body, k + 2, k + NameSize(m)) = m.name
         /\ ~Short(m.name) /\ NameSize(m) >= 2 =>
              body[k + 1 + NameSize(m)] # NUL
         /\ Part(body, k + 1 + NameSize(m), m.data)
<1> DEFINE n == NameSize(m)
           u == UserBytes(m)
           b == NameBytes(m)
<1>1. /\ n \in Nat /\ n \in Bytes
      /\ Short(m.name) => n = Len(m.name) + 1
      /\ ~Short(m.name) => n <= Len(m.name)
  BY NameSizeIs
<1>2. /\ u \in Seq(Bytes) /\ Part(u, 0, <<n>>) /\ Part(u, 1, b)
      /\ Part(u, 1 + n, m.data)
  BY UserBytesAre
<1>3. /\ b \in Seq(Bytes) /\ Len(b) = n
      /\ \A i \in 1 .. n : b[i] = Append(m.name, NUL)[i]
  BY NameBytesAre
<1>4. /\ m.name \in Seq(Bytes) /\ Len(m.name) \in Nat /\ m.name # <<>>
      /\ \A i \in 1 .. Len(m.name) : m.name[i] # NUL
      /\ m.data \in Seq(Bytes)
  BY MessageIs
<1>5. /\ \A i \in 1 .. Len(m.name) : Append(m.name, NUL)[i] = m.name[i]
      /\ Append(m.name, NUL)[Len(m.name) + 1] = NUL
  BY <1>4, BytesNat, BuffersAssumption, AppendIs
<1> HIDE DEF n, u, b
<1>6. Part(body, k, u)
  BY DEF u
<1>7. Part(body, k + 0, <<n>>) /\ Part(body, k + 1, b)
      /\ Part(body, k + (1 + n), m.data)
  <2>1. <<n>> \in Seq(Bytes)
    BY <1>1
  <2>2. Part(body, k + 0, <<n>>)
    BY <1>2, <1>6, <2>1, PartOfPart
  <2>3. Part(body, k + 1, b)
    BY <1>2, <1>3, <1>6, PartOfPart
  <2>4. 1 + n \in Nat
    BY <1>1
  <2>5. Part(body, k + (1 + n), m.data)
    BY <1>2, <1>4, <1>6, <2>4, PartOfPart
  <2> QED BY <2>2, <2>3, <2>5
<1>8. body[k + 1] = n
  <2>1. \A i \in 1 .. Len(<<n>>) : body[(k + 0) + i] = <<n>>[i]
    BY <1>7 DEF Part
  <2>2. 1 \in 1 .. Len(<<n>>) /\ <<n>>[1] = n
    OBVIOUS
  <2>3. body[(k + 0) + 1] = n
    BY <2>1, <2>2
  <2> QED BY <2>3
<1>9. \A i \in 1 .. n : body[(k + 1) + i] = b[i]
  BY <1>3, <1>7 DEF Part
<1>10. CASE Short(m.name)
  <2>1. n \in 1 .. n /\ n = Len(m.name) + 1
        /\ \A i \in 1 .. Len(m.name) : i \in 1 .. n
    BY <1>1, <1>4, <1>10
  <2>2. body[(k + 1) + n] = NUL
    BY <1>3, <1>5, <1>9, <2>1
  <2>3. \A i \in 1 .. Len(m.name) : body[(k + 1) + i] = m.name[i]
    BY <1>3, <1>5, <1>9, <2>1
  <2>4. (k + 1) + Len(m.name) <= Len(body)
    <3>1. (k + 1) + n <= Len(body)
      BY <1>3, <1>7 DEF Part
    <3>2. Len(body) \in Nat
      OBVIOUS
    <3> DEFINE l == Len(m.name)
    <3>3. l \in Nat /\ n = l + 1
      BY <1>4, <2>1
    <3> HIDE DEF l
    <3>4. (k + 1) + l <= Len(body)
      BY <3>1, <3>2, <3>3
    <3> QED BY <3>4 DEF l
  <2>5. Part(body, k + 1, m.name)
    BY <2>3, <2>4 DEF Part
  <2>6. SubSeq(body, (k + 1) + 1, (k + 1) + Len(m.name)) = m.name
    <3>1. k + 1 \in Nat
      OBVIOUS
    <3> QED BY <1>4, <2>5, <3>1, CutPart
  <2>7. (k + 1) + 1 = k + 2 /\ (k + 1) + Len(m.name) = k + n
    <3> DEFINE l == Len(m.name)
    <3>1. l \in Nat /\ n = l + 1
      BY <1>4, <2>1
    <3> HIDE DEF l
    <3>2. (k + 1) + 1 = k + 2 /\ (k + 1) + l = k + n
      BY <3>1
    <3> QED BY <3>2 DEF l
  <2>8. SubSeq(body, k + 2, k + n) = m.name
    BY <2>6, <2>7
  <2>9. k + 1 + n = (k + 1) + n /\ k + (1 + n) = k + 1 + n
    BY <1>1
  <2> QED BY <1>7, <1>8, <1>10, <2>2, <2>8, <2>9 DEF n
<1>11. CASE ~Short(m.name)
  <2>1. n >= 2 => n \in 1 .. n /\ n \in 1 .. Len(m.name)
    BY <1>1, <1>4, <1>11
  <2>2. n >= 2 => body[(k + 1) + n] # NUL
    BY <1>3, <1>4, <1>5, <1>9, <2>1
  <2>3. k + 1 + n = (k + 1) + n /\ k + (1 + n) = k + 1 + n
    BY <1>1
  <2> QED BY <1>7, <1>8, <1>11, <2>2, <2>3 DEF n
<1> QED BY <1>10, <1>11

\* A name of which nothing but a NUL, or nothing, is left is refused for its size.
LEMMA UserDecodeIs ==
  ASSUME NEW m \in Messages, NEW b, Carries(b, UserBytes(m), UserRoom)
  PROVE  UserDecode(b) = IF Short(m.name) THEN m ELSE Refused
<1> DEFINE n == NameSize(m)
           s == b.body
<1>1. s \in Seq(Bytes) /\ Part(s, 0, UserBytes(m))
  BY RoomsAre, SeqLen DEF Carries
<1>2. n \in Nat /\ (Short(m.name) => n = Len(m.name) + 1)
  BY NameSizeIs
<1>3. /\ Len(m.name) \in Nat \ {0} /\ Len(m.data) \in Nat /\ m.data \in Seq(Bytes)
      /\ m = [name |-> m.name, data |-> m.data]
  BY MessageIs
<1>4. b.size = 1 + n + Len(m.data) + CheckSize /\ CheckSize \in Nat
  BY UserBytesAre, RoomsAre DEF Carries
<1>5. /\ s[0 + 1] = n
      /\ Short(m.name) => /\ s[0 + 1 + n] = NUL
                          /\ SubSeq(s, 0 + 2, 0 + n) = m.name
      /\ ~Short(m.name) /\ n >= 2 => s[0 + 1 + n] # NUL
      /\ Part(s, 0 + 1 + n, m.data)
  BY <1>1, MessageFound
<1> HIDE DEF n
<1>6. /\ 0 + 1 = 1 /\ 0 + 1 + n = 1 + n /\ 0 + 2 = 2 /\ 0 + n = n
      /\ (1 + n) + 1 = 2 + n /\ (1 + n) + Len(m.data) = b.size - CheckSize
      /\ 1 + n \in Nat
  BY <1>2, <1>3, <1>4
<1>7. Part(s, 1 + n, m.data)
  BY <1>5, <1>6
<1>8. SubSeq(s, (1 + n) + 1, (1 + n) + Len(m.data)) = m.data
  BY <1>1, <1>3, <1>6, <1>7, CutPart
<1>9. SubSeq(s, 2 + n, b.size - CheckSize) = m.data
  BY <1>6, <1>8
<1>10. s[1] = n /\ (Short(m.name) => s[1 + n] = NUL /\ SubSeq(s, 2, n) = m.name)
       /\ (~Short(m.name) => n < 2 \/ s[1 + n] # NUL)
  BY <1>2, <1>5, <1>6
<1>11. Short(m.name) => ~(n < 2)
  BY <1>2, <1>3
<1>12. CASE Short(m.name)
  <2>1. UserDecode(b) = [name |-> SubSeq(s, 2, n),
                         data |-> SubSeq(s, 2 + n, b.size - CheckSize)]
    BY <1>10, <1>11, <1>12 DEF UserDecode
  <2> QED BY <1>3, <1>9, <1>10, <1>12, <2>1
<1>13. CASE ~Short(m.name)
  BY <1>10, <1>13 DEF UserDecode
<1> QED BY <1>12, <1>13


-----------------------------------------------------------------------------
(* The bytes of a PipeBuffer *)

\* A text with its NUL, or nothing, after its size.
LEMMA SizedIs ==
  ASSUME NEW t \in Texts, Short(t)
  PROVE  /\ Sized(t) \in Seq(Bytes) /\ Len(Sized(t)) \in 1 .. Len(t) + 2
         /\ Len(t) \in Nat /\ t \in Seq(Bytes)
         /\ Sized(t)[1] \in Nat /\ Len(Sized(t)) = 1 + Sized(t)[1]
         /\ t = <<>> <=> Sized(t)[1] = 0
         /\ t # <<>> =>
              /\ Sized(t)[1] = Len(t) + 1 /\ Sized(t)[Len(Sized(t))] = NUL
              /\ Part(Sized(t), 1, t)
<1>1. t \in Seq(Bytes)
  BY SeqMonotonic DEF Texts
<1>2. NUL \in Bytes /\ Bytes \subseteq Nat /\ 0 \in Bytes
  BY BytesNat, BuffersAssumption DEF NUL
<1>3. Len(t) \in Nat
  BY <1>1
<1>4. CASE t = <<>>
  <2>1. Sized(t) = <<0>> /\ Len(t) = 0
    BY <1>4 DEF Sized
  <2>2. <<0>> \in Seq(Bytes) /\ Len(<<0>>) = 1 /\ <<0>>[1] = 0
    BY <1>2
  <2>3. /\ Sized(t) \in Seq(Bytes) /\ Len(Sized(t)) = 1 /\ Sized(t)[1] = 0
    BY <2>1, <2>2
  <2>4. 1 \in 1 .. Len(t) + 2 /\ 1 = 1 + 0 /\ 0 \in Nat
    BY <2>1
  <2>5. Len(Sized(t)) \in 1 .. Len(t) + 2 /\ Len(Sized(t)) = 1 + Sized(t)[1]
        /\ Sized(t)[1] \in Nat
    BY <2>3, <2>4
  <2> QED BY <1>1, <1>3, <1>4, <2>3, <2>5
<1>5. CASE t # <<>>
  <2> DEFINE l == Len(t)
             a == <<l + 1>>
             z == Append(t, NUL)
  <2>1. Sized(t) = a \o z
    BY <1>5 DEF Sized
  <2>2. l \in Nat /\ l # 0
    BY <1>1, <1>5
  <2>3. l + 1 \in Bytes
    BY <2>2, BuffersAssumption DEF Short, Bytes, BuffersAssumption
  <2>4. a \in Seq(Bytes) /\ Len(a) = 1 /\ a[1] = l + 1
    BY <2>3
  <2>5. /\ z \in Seq(Bytes) /\ Len(z) = l + 1 /\ z[l + 1] = NUL
        /\ Part(z, 0, t)
    BY <1>1, <1>2, AppendIs
  <2> HIDE DEF a, z
  <2>6. /\ a \o z \in Seq(Bytes) /\ Len(a \o z) = Len(a) + Len(z)
        /\ Part(a \o z, 0, a) /\ Part(a \o z, Len(a), z)
    BY <2>4, <2>5, ConcatParts
  <2> DEFINE s == a \o z
  <2>7. s = Sized(t) /\ s \in Seq(Bytes) /\ Part(s, 0, a) /\ Part(s, 1, z)
    BY <2>1, <2>4, <2>6
  <2>8. Len(s) = 1 + (l + 1)
    BY <2>4, <2>5, <2>6
  <2> HIDE DEF s
  <2>9. s[1] = l + 1
    <3>1. \A i \in 1 .. Len(a) : s[0 + i] = a[i]
      BY <2>7 DEF Part
    <3>2. s[0 + 1] = a[1]
      BY <2>4, <3>1
    <3> QED BY <2>4, <3>2
  <2>10. s[Len(s)] = NUL
    <3>1. \A i \in 1 .. Len(z) : s[1 + i] = z[i]
      BY <2>7 DEF Part
    <3>2. l + 1 \in 1 .. Len(z)
      BY <2>2, <2>5
    <3>3. s[1 + (l + 1)] = z[l + 1]
      BY <3>1, <3>2
    <3> QED BY <2>5, <2>8, <3>3
  <2>11. Part(s, 1, t)
    <3>1. Part(s, 1 + 0, t)
      BY <1>1, <2>5, <2>7, PartOfPart
    <3> QED BY <3>1
  <2> HIDE DEF l
  <2>12. /\ Len(s) \in 1 .. l + 2 /\ s[1] \in Nat /\ Len(s) = 1 + s[1]
         /\ s[1] # 0
    BY <2>2, <2>8, <2>9
  <2>13. Len(t) = l
    BY DEF l
  <2>14. Sized(t) \in Seq(Bytes) /\ Len(Sized(t)) \in 1 .. Len(t) + 2
    BY <2>7, <2>12, <2>13
  <2>15. /\ Sized(t)[1] \in Nat /\ Len(Sized(t)) = 1 + Sized(t)[1]
         /\ Sized(t)[1] # 0
    BY <2>7, <2>12
  <2>16. /\ Sized(t)[1] = Len(t) + 1 /\ Sized(t)[Len(Sized(t))] = NUL
         /\ Part(Sized(t), 1, t)
    BY <2>7, <2>9, <2>10, <2>11, <2>13
  <2> QED BY <1>1, <1>3, <1>5, <2>14, <2>15, <2>16
<1> QED BY <1>4, <1>5

\* What PipeEncode puts before the rest.
HeadBytes(h) == h.session_id \o Sized(h.appid) \o Sized(h.user_id)

\* What RelayAssumption says of a head.
LEMMA HeadTypes ==
  ASSUME NEW h \in Heads
  PROVE  /\ h = [session_id |-> h.session_id, appid |-> h.appid,
                 user_id |-> h.user_id]
         /\ h.session_id \in Seq(Bytes) /\ Len(h.session_id) = IdSize
         /\ h.appid \in Texts /\ Short(h.appid)
         /\ h.user_id \in Texts /\ Short(h.user_id)
<1>1. /\ h \in [session_id : [1 .. IdSize -> Bytes], appid : Texts, user_id : Texts]
      /\ Short(h.appid) /\ Short(h.user_id)
  BY RelayAssumption DEF RelayAssumption
<1>2. h.session_id \in [1 .. IdSize -> Bytes]
  BY <1>1
<1>3. h.session_id \in Seq(Bytes) /\ Len(h.session_id) = IdSize
  BY <1>2, RoomsAre, SeqLen
<1> QED BY <1>1, <1>3

\* The session id and the two texts, one after the other.
LEMMA HeadBytesAre ==
  ASSUME NEW h \in Heads
  PROVE  /\ HeadBytes(h) \in Seq(Bytes)
         /\ Len(HeadBytes(h)) = IdSize + Len(Sized(h.appid)) + Len(Sized(h.user_id))
         /\ 2 * Len(HeadBytes(h)) + UserRoom <= PipeRoom
         /\ Part(HeadBytes(h), 0, h.session_id)
         /\ Part(HeadBytes(h), IdSize, Sized(h.appid))
         /\ Part(HeadBytes(h), IdSize + Len(Sized(h.appid)), Sized(h.user_id))
<1> DEFINE i == h.session_id
           a == Sized(h.appid)
           u == Sized(h.user_id)
           ia == i \o a
           s == ia \o u
           la == Len(h.appid)
           lu == Len(h.user_id)
<1>1. i \in Seq(Bytes) /\ Len(i) = IdSize
  BY HeadTypes
<1>2. a \in Seq(Bytes) /\ Len(a) \in 1 .. la + 2 /\ la \in Nat
  BY HeadTypes, SizedIs
<1>3. u \in Seq(Bytes) /\ Len(u) \in 1 .. lu + 2 /\ lu \in Nat
  BY HeadTypes, SizedIs
<1>4. s = HeadBytes(h)
  BY DEF HeadBytes
<1>5. 2 * (IdSize + 2 + la + 1 + lu + 1) + UserRoom <= PipeRoom
  BY RelayAssumption DEF RelayAssumption
<1> HIDE DEF i, a, u, la, lu, ia, s
<1>6. /\ ia \in Seq(Bytes) /\ Len(ia) = IdSize + Len(a)
      /\ Part(ia, 0, i) /\ Part(ia, IdSize, a)
  BY <1>1, <1>2, ConcatParts DEF ia
<1>7. /\ s \in Seq(Bytes) /\ Len(s) = Len(ia) + Len(u)
      /\ Part(s, 0, ia) /\ Part(s, Len(ia), u)
  BY <1>3, <1>6, ConcatParts DEF s
<1>8. Len(s) = IdSize + Len(a) + Len(u) /\ Part(s, IdSize + Len(a), u)
  BY <1>6, <1>7
<1>9. Part(s, 0 + 0, i)
  BY <1>1, <1>6, <1>7, PartOfPart
<1>10. Part(s, 0 + IdSize, a)
  BY <1>2, <1>6, <1>7, RoomsAre, PartOfPart
<1>11. Part(s, 0, i) /\ Part(s, IdSize, a)
  BY <1>9, <1>10, RoomsAre
<1>12. 2 * Len(s) + UserRoom <= PipeRoom
  <2>1. Len(a) \in Nat /\ Len(u) \in Nat /\ Len(a) <= la + 2 /\ Len(u) <= lu + 2
    BY <1>2, <1>3
  <2> QED BY <1>2, <1>3, <1>5, <1>8, <2>1, RoomsAre
<1> QED BY <1>4, <1>7, <1>8, <1>11, <1>12 DEF i, a, u


\* A sequence is the whole of itself.
LEMMA WholeSeq ==
  ASSUME NEW S, NEW q \in Seq(S)
  PROVE  SubSeq(q, 1, Len(q)) = q
<1>1. Len(q) \in Nat /\ 0 + Len(q) <= Len(q) /\ \A i \in 1 .. Len(q) : q[0 + i] = q[i]
  OBVIOUS
<1>2. Part(q, 0, q)
  BY <1>1 DEF Part
<1>3. SubSeq(q, 0 + 1, 0 + Len(q)) = q
  BY <1>2, CutPart
<1> QED BY <1>1, <1>3

\* What a PipeBuffer holds when a UserBuffer of the message is wrapped, or the
\* message itself: both are the same.
PipeBytes(h, m) == HeadBytes(h) \o UserBytes(m)

\* The head, then the bytes of the UserBuffer.
LEMMA PipeBytesAre ==
  ASSUME NEW h \in Heads, NEW m \in Messages
  PROVE  /\ PipeBytes(h, m) \in Seq(Bytes)
         /\ Len(PipeBytes(h, m)) = Len(HeadBytes(h)) + Len(UserBytes(m))
         /\ Len(PipeBytes(h, m)) + Len(HeadBytes(h)) <= PipeRoom
         /\ Len(PipeBytes(h, m)) <= PipeRoom
         /\ Len(HeadBytes(h)) \in Nat
         /\ Part(PipeBytes(h, m), 0, HeadBytes(h))
         /\ Part(PipeBytes(h, m), Len(HeadBytes(h)), UserBytes(m))
<1> DEFINE a == HeadBytes(h)
           b == UserBytes(m)
           s == a \o b
<1>1. a \in Seq(Bytes) /\ 2 * Len(a) + UserRoom <= PipeRoom
  BY HeadBytesAre
<1>2. b \in Seq(Bytes) /\ Len(b) \in 1 .. UserRoom
  BY UserBytesAre
<1>3. s = PipeBytes(h, m)
  BY DEF PipeBytes
<1> HIDE DEF a, b
<1>4. /\ s \in Seq(Bytes) /\ Len(s) = Len(a) + Len(b)
      /\ Part(s, 0, a) /\ Part(s, Len(a), b)
  BY <1>1, <1>2, ConcatParts
<1> HIDE DEF s
<1>5. Len(a) \in Nat /\ Len(b) \in Nat /\ Len(b) <= UserRoom
  BY <1>1, <1>2, RoomsAre
<1>6. Len(s) + Len(a) <= PipeRoom /\ Len(s) <= PipeRoom
  BY <1>1, <1>4, <1>5, RoomsAre
<1> QED BY <1>3, <1>4, <1>5, <1>6 DEF a, b

\* PipeEncode puts PipeBytes into a cleared buffer.
LEMMA PipeEncodeCarries ==
  ASSUME NEW h \in Heads, NEW m \in Messages
  PROVE  Carries(PipeEncode(h, UserBytes(m)), PipeBytes(h, m), PipeRoom)
<1>1. PipeEncode(h, UserBytes(m)) =
        [size |-> Len(PipeBytes(h, m)),
         body |-> Put(Zeros(PipeRoom), PipeBytes(h, m))]
  BY DEF PipeEncode, PipeBytes, HeadBytes
<1>2. PipeRoom \in Nat /\ Zeros(PipeRoom) \in [1 .. PipeRoom -> Bytes]
  BY RoomsAre, BuffersAssumption, ZerosAre
<1>3. PipeBytes(h, m) \in Seq(Bytes) /\ Len(PipeBytes(h, m)) <= PipeRoom
  BY PipeBytesAre
<1> QED BY <1>1, <1>2, <1>3, PutCarries

\* A UserBuffer is wrapped as it is.
LEMMA PipeEncodeUserIs ==
  ASSUME NEW h \in Heads, NEW m \in Messages, NEW b,
         Carries(b, UserBytes(m), UserRoom)
  PROVE  PipeEncodeUser(h, b) = PipeEncode(h, UserBytes(m))
<1>1. SubSeq(b.body, 1, b.size) = UserBytes(m)
  BY RoomsAre, UserBytesAre, FrameIs
<1> QED BY <1>1 DEF PipeEncodeUser

\* The two encoders of a name agree as long as it is short.
LEMMA PipeEncodeMsgIs ==
  ASSUME NEW h \in Heads, NEW m \in Messages, Short(m.name)
  PROVE  PipeEncodeMsg(h, m) = PipeEncode(h, UserBytes(m))
<1> DEFINE n == NameSize(m)
           l == Len(m.name)
           z == Append(m.name, NUL)
<1>1. n = l + 1 /\ l \in Nat
  BY NameSizeIs, MessageIs
<1>2. m.name \in Seq(Bytes) /\ z \in Seq(Bytes) /\ Len(z) = l + 1
  BY MessageIs, BytesNat, BuffersAssumption, AppendIs
<1>3. SubSeq(m.name, 1, l) = m.name /\ SubSeq(z, 1, Len(z)) = z
  BY <1>2, WholeSeq
<1> HIDE DEF n, l, z
<1>4. n # 0 /\ n - 1 = l
  BY <1>1
<1>5. SubSeq(m.name, 1, n - 1) = m.name /\ SubSeq(z, 1, n) = z
  BY <1>1, <1>2, <1>3, <1>4
<1>6. NameBytes(m) = z
  BY <1>5 DEF NameBytes, n, z
<1>7. PipeEncodeMsg(h, m) =
        PipeEncode(h, <<n>> \o z \o m.data \o Zeros(CheckSize))
  BY <1>4, <1>5 DEF PipeEncodeMsg, n, z, NameSize
<1> QED BY <1>6, <1>7 DEF UserBytes, n

\* What a PipeBuffer that has encoded the head has in its places.
LEMMA HeadFound ==
  ASSUME NEW h \in Heads, NEW body \in Seq(Bytes), Part(body, 0, HeadBytes(h))
  PROVE  /\ RestAt(body) = Len(HeadBytes(h)) + 1
         /\ HeadValid(body)
         /\ HeadOf(body) =
              IF (h.appid = <<>>) = (h.user_id = <<>>) THEN h
              ELSE [h EXCEPT !.appid = <<>>, !.user_id = <<>>]
<1> DEFINE a == Sized(h.appid)
           u == Sized(h.user_id)
           la == Len(a)
           lu == Len(u)
           s == HeadBytes(h)
<1>1. /\ a \in Seq(Bytes) /\ la \in Nat \ {0} /\ a[1] \in Nat /\ la = 1 + a[1]
      /\ h.appid = <<>> <=> a[1] = 0
      /\ h.appid \in Seq(Bytes)
      /\ h.appid # <<>> => /\ a[1] = Len(h.appid) + 1 /\ a[la] = NUL
                           /\ Part(a, 1, h.appid)
  BY HeadTypes, SizedIs
<1>2. /\ u \in Seq(Bytes) /\ lu \in Nat \ {0} /\ u[1] \in Nat /\ lu = 1 + u[1]
      /\ h.user_id = <<>> <=> u[1] = 0
      /\ h.user_id \in Seq(Bytes)
      /\ h.user_id # <<>> => /\ u[1] = Len(h.user_id) + 1 /\ u[lu] = NUL
                             /\ Part(u, 1, h.user_id)
  BY HeadTypes, SizedIs
<1>3. /\ s \in Seq(Bytes) /\ Len(s) = IdSize + la + lu
      /\ Part(s, 0, h.session_id) /\ Part(s, IdSize, a) /\ Part(s, IdSize + la, u)
  BY HeadBytesAre
<1>4. /\ h.session_id \in Seq(Bytes) /\ Len(h.session_id) = IdSize
      /\ h = [session_id |-> h.session_id, appid |-> h.appid, user_id |-> h.user_id]
  BY HeadTypes
<1>5. IdSize \in Nat
  BY RoomsAre
<1>6. Part(body, 0, s)
  BY DEF s
<1> HIDE DEF a, u, s
<1>7. Part(body, 0, h.session_id) /\ Part(body, IdSize, a)
      /\ Part(body, IdSize + la, u)
  <2>1. Part(body, 0 + 0, h.session_id)
    BY <1>3, <1>4, <1>6, PartOfPart
  <2>2. Part(body, 0 + IdSize, a)
    BY <1>1, <1>3, <1>5, <1>6, PartOfPart
  <2>3. IdSize + la \in Nat
    BY <1>1, <1>5
  <2>4. Part(body, 0 + (IdSize + la), u)
    BY <1>2, <1>3, <1>6, <2>3, PartOfPart
  <2> QED BY <1>5, <2>1, <2>2, <2>3, <2>4
<1>8. /\ \A i \in 1 .. la : body[IdSize + i] = a[i]
      /\ \A i \in 1 .. lu : body[(IdSize + la) + i] = u[i]
  BY <1>7 DEF Part
<1> DEFINE x == a[1]
           y == u[1]
<1>18. /\ x \in Nat /\ y \in Nat /\ la = 1 + x /\ lu = 1 + y
       /\ la \in Nat /\ lu \in Nat /\ IdSize \in Nat
  BY <1>1, <1>2, <1>5
<1> HIDE DEF la, lu, x, y
<1>9. AppidAt = IdSize + 1 /\ body[AppidAt] = x
  <2>1. 1 \in 1 .. la
    BY <1>18
  <2> QED BY <1>8, <2>1 DEF AppidAt, x
<1>10. UserIdAt(body) = IdSize + la + 1 /\ body[UserIdAt(body)] = y
  <2>1. UserIdAt(body) = IdSize + 1 + 1 + x
    BY <1>9 DEF UserIdAt
  <2>2. UserIdAt(body) = IdSize + la + 1
    BY <1>18, <2>1
  <2>3. 1 \in 1 .. lu
    BY <1>18
  <2> QED BY <1>8, <2>2, <2>3 DEF y
<1>11. RestAt(body) = IdSize + la + lu + 1
  <2>1. RestAt(body) = IdSize + la + 1 + 1 + y
    BY <1>10 DEF RestAt
  <2> QED BY <1>18, <2>1
<1>12. HeadValid(body)
  <2>1. x = 0 \/ body[UserIdAt(body) - 1] = NUL
    <3>1. la \in 1 .. la /\ UserIdAt(body) - 1 = IdSize + la
      BY <1>10, <1>18
    <3>2. body[UserIdAt(body) - 1] = a[la]
      BY <1>8, <3>1
    <3> QED BY <1>1, <3>2 DEF la, x
  <2>2. y = 0 \/ body[RestAt(body) - 1] = NUL
    <3>1. lu \in 1 .. lu /\ RestAt(body) - 1 = (IdSize + la) + lu
      BY <1>11, <1>18
    <3>2. body[RestAt(body) - 1] = u[lu]
      BY <1>8, <3>1
    <3> QED BY <1>2, <3>2 DEF lu, y
  <2> QED BY <1>9, <1>10, <2>1, <2>2 DEF HeadValid
<1>13. SubSeq(body, 1, IdSize) = h.session_id
  <2>1. SubSeq(body, 0 + 1, 0 + Len(h.session_id)) = h.session_id
    BY <1>4, <1>7, CutPart
  <2> QED BY <1>4, <1>5, <2>1
<1>14. h.appid # <<>> => TextAt(body, AppidAt) = h.appid
  <2> SUFFICES ASSUME h.appid # <<>> PROVE TextAt(body, AppidAt) = h.appid
    OBVIOUS
  <2>1. Part(body, IdSize + 1, h.appid)
    BY <1>1, <1>5, <1>7, PartOfPart
  <2>2. IdSize + 1 \in Nat
    BY <1>5
  <2>3. SubSeq(body, (IdSize + 1) + 1, (IdSize + 1) + Len(h.appid)) = h.appid
    BY <1>1, <2>1, <2>2, CutPart
  <2>4. AppidAt + 1 = (IdSize + 1) + 1
        /\ AppidAt + body[AppidAt] - 1 = (IdSize + 1) + Len(h.appid)
    <3> DEFINE l == Len(h.appid)
    <3>1. l \in Nat /\ x = l + 1
      BY <1>1 DEF x
    <3> HIDE DEF l
    <3>2. AppidAt + body[AppidAt] - 1 = (IdSize + 1) + l
      BY <1>9, <1>18, <3>1
    <3> QED BY <1>9, <3>2 DEF l
  <2> QED BY <2>3, <2>4 DEF TextAt
<1>15. h.user_id # <<>> => TextAt(body, UserIdAt(body)) = h.user_id
  <2> SUFFICES ASSUME h.user_id # <<>>
               PROVE  TextAt(body, UserIdAt(body)) = h.user_id
    OBVIOUS
  <2> DEFINE k == IdSize + la
  <2>1. k \in Nat
    BY <1>1, <1>5
  <2>2. Part(body, k, u)
    BY <1>7
  <2>3. UserIdAt(body) = k + 1
    BY <1>10
  <2> HIDE DEF k
  <2>4. Part(body, k + 1, h.user_id)
    BY <1>2, <2>1, <2>2, PartOfPart
  <2>5. k + 1 \in Nat
    BY <2>1
  <2>6. SubSeq(body, (k + 1) + 1, (k + 1) + Len(h.user_id)) = h.user_id
    BY <1>2, <2>4, <2>5, CutPart
  <2>7. UserIdAt(body) + 1 = (k + 1) + 1
        /\ UserIdAt(body) + body[UserIdAt(body)] - 1 = (k + 1) + Len(h.user_id)
    <3> DEFINE l == Len(h.user_id)
    <3>1. l \in Nat /\ y = l + 1
      BY <1>2 DEF y
    <3> HIDE DEF l
    <3>2. UserIdAt(body) + body[UserIdAt(body)] - 1 = (k + 1) + l
      BY <1>10, <2>1, <2>3, <3>1
    <3> QED BY <2>3, <3>2 DEF l
  <2> QED BY <2>6, <2>7 DEF TextAt
<1>19. RestAt(body) = Len(HeadBytes(h)) + 1
  BY <1>3, <1>11 DEF la, lu, s
<1>16. CASE h.appid = <<>> \/ h.user_id = <<>>
  <2>1. HeadOf(body) = [session_id |-> h.session_id, appid |-> <<>>, user_id |-> <<>>]
    BY <1>1, <1>2, <1>9, <1>10, <1>13, <1>16 DEF HeadOf, x, y
  <2>2. HeadOf(body) =
          IF (h.appid = <<>>) = (h.user_id = <<>>) THEN h
          ELSE [h EXCEPT !.appid = <<>>, !.user_id = <<>>]
    <3> DEFINE e == [session_id |-> h.session_id, appid |-> <<>>, user_id |-> <<>>]
    <3>1. [h EXCEPT !.appid = <<>>, !.user_id = <<>>] = e
      <4> DEFINE d == [session_id |-> h.session_id, appid |-> <<>>,
                       user_id |-> h.user_id]
      <4>1. [h EXCEPT !.appid = <<>>] = d
        BY <1>4
      <4>2. [d EXCEPT !.user_id = <<>>] = e
        OBVIOUS
      <4>3. [h EXCEPT !.appid = <<>>, !.user_id = <<>>]
              = [[h EXCEPT !.appid = <<>>] EXCEPT !.user_id = <<>>]
        OBVIOUS
      <4> HIDE DEF d, e
      <4> QED BY <4>1, <4>2, <4>3
    <3>2. CASE h.appid = <<>> /\ h.user_id = <<>>
      <4>1. h = e
        BY <1>4, <3>2
      <4> QED BY <2>1, <3>2, <4>1
    <3>3. CASE ~(h.appid = <<>> /\ h.user_id = <<>>)
      <4>1. (h.appid = <<>>) # (h.user_id = <<>>)
        BY <1>16, <3>3
      <4> HIDE DEF e
      <4> QED BY <2>1, <3>1, <4>1 DEF e
    <3> QED BY <3>2, <3>3
  <2> QED BY <1>19, <1>12, <2>2
<1>17. CASE h.appid # <<>> /\ h.user_id # <<>>
  <2>1. HeadOf(body) = [session_id |-> h.session_id, appid |-> h.appid,
                        user_id |-> h.user_id]
    BY <1>1, <1>2, <1>9, <1>10, <1>13, <1>14, <1>15, <1>17 DEF HeadOf, x, y
  <2>2. HeadOf(body) = h
    BY <1>4, <2>1
  <2> QED BY <1>19, <1>12, <1>17, <2>2
<1> QED BY <1>16, <1>17


\* The UserBuffer is unwrapped as it was wrapped.
LEMMA PipeDecodeUserIs ==
  ASSUME NEW h \in Heads, NEW m \in Messages, NEW b, NEW user,
         Carries(b, PipeBytes(h, m), PipeRoom)
  PROVE  PipeDecodeUser(b, user) = Receive(user, Wire(UserBytes(m)))
<1> DEFINE k == Len(HeadBytes(h))
           u == UserBytes(m)
           at == RestAt(b.body)
<1>1. b.body \in Seq(Bytes) /\ Part(b.body, 0, PipeBytes(h, m))
  BY RoomsAre, SeqLen DEF Carries
<1>2. /\ PipeBytes(h, m) \in Seq(Bytes) /\ Len(PipeBytes(h, m)) = k + Len(u)
      /\ k \in Nat /\ HeadBytes(h) \in Seq(Bytes)
      /\ Part(PipeBytes(h, m), 0, HeadBytes(h)) /\ Part(PipeBytes(h, m), k, u)
  BY PipeBytesAre, HeadBytesAre
<1>3. u \in Seq(Bytes) /\ Len(u) \in Nat
  <2>1. u \in Seq(Bytes)
    BY UserBytesAre
  <2> HIDE DEF u
  <2> QED BY <2>1
<1>4. b.size = k + Len(u)
  BY <1>2 DEF Carries
<1> HIDE DEF u
<1>5. Part(b.body, 0, HeadBytes(h)) /\ Part(b.body, k, u)
  <2>1. Part(b.body, 0 + 0, HeadBytes(h))
    BY <1>1, <1>2, PartOfPart
  <2> HIDE DEF k
  <2>2. Part(b.body, 0 + k, u)
    BY <1>1, <1>2, <1>3, PartOfPart
  <2> QED BY <1>2, <2>1, <2>2
<1>6. HeadValid(b.body) /\ at = k + 1
  BY <1>1, <1>5, HeadFound
<1> HIDE DEF k, at
<1>7. b.size - at + 1 = Len(u)
  BY <1>2, <1>3, <1>4, <1>6
<1>8. SubSeq(b.body, at, b.size) = u
  BY <1>1, <1>2, <1>3, <1>4, <1>5, <1>6, CutPart
<1>9. PipeDecodeUser(b, user) =
        Receive(user, [size |-> b.size - at + 1, bytes |-> SubSeq(b.body, at, b.size)])
  BY <1>6 DEF PipeDecodeUser, at
<1> QED BY <1>7, <1>8, <1>9 DEF Wire, u

\* A message is decoded under its name; its data goes on behind the encoded one.
LEMMA PipeDecodeMsgIs ==
  ASSUME NEW h \in Heads, NEW m \in Messages, NEW b, Short(m.name),
         Carries(b, PipeBytes(h, m), PipeRoom)
  PROVE  \E d \in Seq(Bytes) :
           /\ PipeDecodeMsg(b) = [name |-> m.name, data |-> d]
           /\ SubSeq(d, 1, Len(m.data)) = m.data
<1> DEFINE k == Len(HeadBytes(h))
           u == UserBytes(m)
           s == b.body
           at == RestAt(s)
           n == s[at]
           c == m.data
           l == Len(c)
           size == b.size - 1 - n - CheckSize
           d == SubSeq(s, at + n + 1, at + n + size)
<1>1. s \in Seq(Bytes) /\ Len(s) = PipeRoom /\ Part(s, 0, PipeBytes(h, m))
  BY RoomsAre, SeqLen DEF Carries
<1>2. /\ PipeBytes(h, m) \in Seq(Bytes) /\ Len(PipeBytes(h, m)) = k + Len(u)
      /\ k + Len(u) + k <= PipeRoom
      /\ k \in Nat /\ HeadBytes(h) \in Seq(Bytes)
      /\ Part(PipeBytes(h, m), 0, HeadBytes(h)) /\ Part(PipeBytes(h, m), k, u)
  BY PipeBytesAre, HeadBytesAre
<1>3. u \in Seq(Bytes) /\ Len(u) = 1 + NameSize(m) + l + CheckSize
  BY UserBytesAre
<1>4. b.size = k + Len(u)
  BY <1>2 DEF Carries
<1>5. /\ NameSize(m) = Len(m.name) + 1 /\ Len(m.name) \in Nat \ {0}
      /\ l \in Nat /\ c \in Seq(Bytes)
  BY NameSizeIs, MessageIs
<1> HIDE DEF u
<1>6. Part(s, 0, HeadBytes(h)) /\ Part(s, k, u)
  <2>1. Part(s, 0 + 0, HeadBytes(h))
    BY <1>1, <1>2, PartOfPart
  <2> HIDE DEF k
  <2>2. Part(s, 0 + k, u)
    BY <1>1, <1>2, <1>3, PartOfPart
  <2> QED BY <1>2, <2>1, <2>2
<1>7. HeadValid(s) /\ at = k + 1
  BY <1>1, <1>6, HeadFound
<1>8. /\ s[k + 1] = NameSize(m) /\ s[k + 1 + NameSize(m)] = NUL
      /\ SubSeq(s, k + 2, k + NameSize(m)) = m.name
      /\ Part(s, k + 1 + NameSize(m), c)
  <2> HIDE DEF k
  <2> QED BY <1>1, <1>2, <1>6, MessageFound DEF u
<1> HIDE DEF k, c, l, at
<1>9. n = NameSize(m)
  BY <1>7, <1>8
<1> HIDE DEF n
<1>10. n \in Nat /\ n >= 2
  BY <1>5, <1>9
<1>11. /\ at + n = k + 1 + n /\ at + 1 = k + 2 /\ at + n - 1 = k + n
       /\ size = k + l /\ at + n + size = k + 1 + n + (k + l)
       /\ k + 1 + n \in Nat /\ (k + 1 + n) + (k + l) <= PipeRoom
       /\ (k + 1 + n) + l <= (k + 1 + n) + (k + l) /\ (k + 1 + n) + (k + l) \in Nat
  <2> DEFINE lu == Len(u)
             bs == b.size
  <2>1. /\ k \in Nat /\ l \in Nat /\ n \in Nat /\ CheckSize \in Nat
        /\ lu = 1 + n + l + CheckSize /\ bs = k + lu /\ at = k + 1
        /\ k + lu + k <= PipeRoom /\ PipeRoom \in Nat
    BY <1>2, <1>3, <1>4, <1>5, <1>7, <1>9, <1>10, RoomsAre
  <2> HIDE DEF lu, size
  <2>2. size = bs - 1 - n - CheckSize
    BY DEF size
  <2> HIDE DEF bs
  <2>3. size = k + l
    BY <2>1, <2>2
  <2>4. at + n = k + 1 + n /\ at + 1 = k + 2 /\ at + n - 1 = k + n
    BY <2>1
  <2>5. at + n + size = k + 1 + n + (k + l)
    BY <2>1, <2>3
  <2>6. k + 1 + n \in Nat /\ (k + 1 + n) + (k + l) \in Nat
    BY <2>1
  <2>7. /\ (k + 1 + n) + (k + l) <= PipeRoom
        /\ (k + 1 + n) + l <= (k + 1 + n) + (k + l)
    BY <2>1
  <2> QED BY <2>3, <2>4, <2>5, <2>6, <2>7
<1> HIDE DEF size
<1>12. PipeDecodeMsg(b) = [name |-> SubSeq(s, at + 1, at + n - 1), data |-> d]
  <2>1. ~(n < 2) /\ s[at + n] = NUL
    BY <1>8, <1>9, <1>10, <1>11
  <2> QED BY <1>7, <2>1 DEF PipeDecodeMsg, n, at, size
<1>13. SubSeq(s, at + 1, at + n - 1) = m.name
  BY <1>8, <1>9, <1>11
<1> DEFINE i == k + 1 + n
           j == i + (k + l)
<1>14. d = SubSeq(s, i + 1, j)
  BY <1>11
<1>15. i \in Nat /\ j \in Nat /\ i + l <= j /\ j <= Len(s) /\ Part(s, i, c)
  BY <1>1, <1>8, <1>9, <1>11
<1> HIDE DEF d, i, j
<1>16. SubSeq(SubSeq(s, i + 1, j), 1, l) = c
  BY <1>1, <1>5, <1>15, CutFirst DEF l
<1>17. SubSeq(s, i + 1, j) \in Seq(Bytes)
  <2>1. Len(s) \in Nat
    BY <1>1
  <2> QED BY <1>1, <1>15, <2>1
<1> QED BY <1>12, <1>13, <1>14, <1>16, <1>17 DEF l, c


-----------------------------------------------------------------------------
(* The inductive invariant *)

\* Where the message is, its bytes are: alone up to the gateway, behind those of the
\* head up to the back end.  Only a name that is short comes so far.
Travels ==
  /\ stage # "client" => sent \in Messages
  /\ stage = "to_gateway" => wire = Wire(UserBytes(sent))
  /\ stage \in {"at_gateway", "gateway"} =>
       Carries(gate_buf, UserBytes(sent), UserRoom)
  /\ stage \in {"to_backend", "at_backend"} => head \in Heads /\ Short(sent.name)
  /\ stage = "to_backend" => wire = Wire(PipeBytes(head, sent))
  /\ stage = "at_backend" => Carries(back_buf, PipeBytes(head, sent), PipeRoom)

RelayInv ==
  TypeOK /\ Travels /\ UserExact /\ UserFrameValid /\ UnwrapExact /\ DispatchRight


\* A buffer that carries something has its type.
LEMMA CarriesType ==
  ASSUME NEW room \in Nat, NEW bytes \in Seq(Bytes), NEW b,
         Carries(b, bytes, room)
  PROVE  b \in [size : Nat, body : [1 .. room -> Bytes]]
<1>1. Len(bytes) \in Nat
  OBVIOUS
<1>2. b = [size |-> Len(bytes), body |-> b.body] /\ b.body \in [1 .. room -> Bytes]
  BY DEF Carries
<1> QED BY <1>1, <1>2

\* The frame of a UserBuffer is neither empty nor longer than the buffer.
LEMMA UserSizeValid ==
  ASSUME NEW m \in Messages
  PROVE  SizeValid(Len(UserBytes(m)), UserMax)
<1> DEFINE l == Len(UserBytes(m))
<1>1. l \in 1 .. UserRoom
  BY UserBytesAre
<1> HIDE DEF l
<1>2. l \in Nat /\ l < HalfMod /\ l \in 1 .. UserMax
  BY <1>1, RoomsAre
<1>3. l % HalfMod = l
  BY <1>2, RoomsAre
<1> QED BY <1>2, <1>3 DEF SizeValid, l

\* A cleared buffer has its type.
LEMMA BlankType ==
  ASSUME NEW room \in Nat
  PROVE  /\ Blank(room) \in [size : Nat, body : [1 .. room -> Bytes]]
         /\ HalfMod \in Nat \ {0} =>
              Blank(room) \in [size : 0 .. HalfMod - 1, body : [1 .. room -> Bytes]]
<1>1. Zeros(room) \in [1 .. room -> Bytes]
  BY BuffersAssumption, ZerosAre
<1> QED BY <1>1 DEF Blank

LEMMA InitRelay == Init => RelayInv
<1> SUFFICES ASSUME Init PROVE RelayInv
  OBVIOUS
<1>1. TypeOK
  BY RoomsAre, BlankType DEF Init, TypeOK
<1> QED BY <1>1 DEF Init, RelayInv, Travels, UserExact, UserFrameValid, UnwrapExact,
                   DispatchRight

LEMMA ClientSendsRelay == RelayInv /\ ClientSends => RelayInv'
<1> SUFFICES ASSUME RelayInv, ClientSends PROVE RelayInv'
  OBVIOUS
<1>1. PICK m \in Messages : sent' = m /\ wire' = Frame(UserEncode(m))
  BY DEF ClientSends
<1>2. stage' = "to_gateway" /\ head' = Nobody
      /\ UNCHANGED <<gate_buf, back_buf, user_buf>>
  BY DEF ClientSends
<1>3. Frame(UserEncode(m)) = Wire(UserBytes(m))
  BY RoomsAre, UserBytesAre, UserEncodeCarries, FrameIs
<1>4. TypeOK'
  BY <1>1, <1>2 DEF RelayInv, TypeOK
<1>5. Travels'
  BY <1>1, <1>2, <1>3 DEF Travels
<1> QED BY <1>2, <1>4, <1>5 DEF RelayInv, UserExact, UserFrameValid, UnwrapExact,
                   DispatchRight

LEMMA GatewayReadsRelay == RelayInv /\ GatewayReads => RelayInv'
<1> SUFFICES ASSUME RelayInv, GatewayReads PROVE RelayInv'
  OBVIOUS
<1>1. stage = "to_gateway" /\ UNCHANGED <<back_buf, user_buf, sent, head, got>>
  BY DEF GatewayReads
<1>2. sent \in Messages /\ wire = Wire(UserBytes(sent))
  BY <1>1 DEF RelayInv, Travels
<1>3. SizeValid(wire.size, UserMax)
  BY <1>2, UserSizeValid DEF Wire
<1>4. stage' = "at_gateway" /\ gate_buf' = Receive(gate_buf, wire)
  BY <1>3 DEF GatewayReads
<1>5. UserBytes(sent) \in Seq(Bytes) /\ Len(UserBytes(sent)) \in 1 .. UserRoom
  BY <1>2, UserBytesAre
<1>6. Len(UserBytes(sent)) <= UserRoom
  BY <1>5, RoomsAre
<1>7. gate_buf.body \in [1 .. UserRoom -> Bytes]
  BY DEF RelayInv, TypeOK
<1>8. Carries(gate_buf', UserBytes(sent), UserRoom)
  BY <1>2, <1>4, <1>5, <1>6, <1>7, RoomsAre, ReceiveCarries
<1>9. gate_buf' \in [size : Nat, body : [1 .. UserRoom -> Bytes]]
  BY <1>5, <1>8, RoomsAre, CarriesType
<1>10. TypeOK'
  BY <1>1, <1>4, <1>9 DEF RelayInv, TypeOK
<1>11. Travels'
  BY <1>1, <1>2, <1>4, <1>8 DEF Travels
<1> QED BY <1>4, <1>10, <1>11 DEF RelayInv, UserExact, UserFrameValid, UnwrapExact,
                   DispatchRight

LEMMA GatewayDecodesRelay == RelayInv /\ GatewayDecodes => RelayInv'
<1> SUFFICES ASSUME RelayInv, GatewayDecodes PROVE RelayInv'
  OBVIOUS
<1>1. /\ stage = "at_gateway" /\ stage' = "gateway" /\ got' = UserDecode(gate_buf)
      /\ UNCHANGED <<wire, gate_buf, back_buf, user_buf, sent, head>>
  BY DEF GatewayDecodes
<1>2. sent \in Messages /\ Carries(gate_buf, UserBytes(sent), UserRoom)
  BY <1>1 DEF RelayInv, Travels
<1>3. got' = IF Short(sent.name) THEN sent ELSE Refused
  BY <1>1, <1>2, UserDecodeIs
<1>4. TypeOK'
  BY <1>1 DEF RelayInv, TypeOK
<1>5. Travels'
  BY <1>1, <1>2 DEF Travels
<1> QED BY <1>1, <1>3, <1>4, <1>5 DEF RelayInv, UserExact, UserFrameValid,
                   UnwrapExact, DispatchRight

LEMMA GatewayClosesRelay == RelayInv /\ GatewayCloses => RelayInv'
<1> SUFFICES ASSUME RelayInv, GatewayCloses PROVE RelayInv'
  OBVIOUS
<1>1. /\ stage' = "client" /\ gate_buf' = Blank(UserRoom)
      /\ UNCHANGED <<wire, back_buf, user_buf, sent, head, got>>
  BY DEF GatewayCloses
<1>2. TypeOK'
  BY <1>1, RoomsAre, BlankType DEF RelayInv, TypeOK
<1> QED BY <1>1, <1>2 DEF RelayInv, Travels, UserExact, UserFrameValid, UnwrapExact,
                   DispatchRight

\* The gateway wraps the UserBuffer it has decoded, or a message of its own.
LEMMA GatewayWritesRelay ==
  RelayInv /\ (GatewayForwards \/ GatewaySends) => RelayInv'
<1> SUFFICES ASSUME RelayInv, GatewayForwards \/ GatewaySends PROVE RelayInv'
  OBVIOUS
<1>1. /\ stage = "gateway" /\ got # Refused /\ stage' = "to_backend"
      /\ UNCHANGED <<gate_buf, back_buf, user_buf>>
  BY DEF GatewayForwards, GatewaySends
<1>2. \E h \in Heads, m \in Messages :
        /\ Short(m.name) /\ head' = h /\ sent' = m
        /\ wire' = Frame(PipeEncode(h, UserBytes(m)))
  <2>1. CASE GatewayForwards
    <3>1. PICK h \in Heads :
            head' = h /\ wire' = Frame(PipeEncodeUser(h, gate_buf))
      BY <2>1 DEF GatewayForwards
    <3>2. sent \in Messages /\ Carries(gate_buf, UserBytes(sent), UserRoom)
      BY <1>1 DEF RelayInv, Travels
    <3>3. sent' = sent
      BY <2>1 DEF GatewayForwards
    <3>4. Short(sent.name)
      BY <1>1 DEF RelayInv, UserExact
    <3>5. PipeEncodeUser(h, gate_buf) = PipeEncode(h, UserBytes(sent))
      BY <3>2, PipeEncodeUserIs
    <3> QED BY <3>1, <3>2, <3>3, <3>4, <3>5
  <2>2. CASE GatewaySends
    <3>1. PICK h \in Heads, m \in Messages :
            /\ Short(m.name)
            /\ head' = h /\ sent' = m /\ wire' = Frame(PipeEncodeMsg(h, m))
      BY <2>2 DEF GatewaySends
    <3>2. PipeEncodeMsg(h, m) = PipeEncode(h, UserBytes(m))
      BY <3>1, PipeEncodeMsgIs
    <3> QED BY <3>1, <3>2
  <2> QED BY <2>1, <2>2
<1>3. PICK h \in Heads, m \in Messages :
        /\ Short(m.name) /\ head' = h /\ sent' = m
        /\ wire' = Frame(PipeEncode(h, UserBytes(m)))
  BY <1>2
<1>4. Frame(PipeEncode(h, UserBytes(m))) = Wire(PipeBytes(h, m))
  BY RoomsAre, PipeBytesAre, PipeEncodeCarries, FrameIs
<1>5. TypeOK'
  BY <1>1, <1>3 DEF RelayInv, TypeOK
<1>6. Travels'
  BY <1>1, <1>3, <1>4 DEF Travels
<1> QED BY <1>1, <1>5, <1>6 DEF RelayInv, UserExact, UserFrameValid, UnwrapExact,
                   DispatchRight

LEMMA BackendReadsRelay == RelayInv /\ BackendReads => RelayInv'
<1> SUFFICES ASSUME RelayInv, BackendReads PROVE RelayInv'
  OBVIOUS
<1>1. stage = "to_backend" /\ UNCHANGED <<gate_buf, user_buf, sent, head, got>>
  BY DEF BackendReads
<1>2. /\ sent \in Messages /\ head \in Heads /\ Short(sent.name)
      /\ wire = Wire(PipeBytes(head, sent))
  BY <1>1 DEF RelayInv, Travels
<1>3. head # Nobody
  BY <1>2, RelayAssumption DEF RelayAssumption
<1>4. CASE SizeValid(wire.size, PipeMax)
  <2>1. stage' = "at_backend" /\ back_buf' = Receive(back_buf, wire)
    BY <1>4 DEF BackendReads
  <2>2. PipeBytes(head, sent) \in Seq(Bytes) /\ Len(PipeBytes(head, sent)) <= PipeRoom
    BY <1>2, PipeBytesAre
  <2>3. back_buf.body \in [1 .. PipeRoom -> Bytes]
    BY DEF RelayInv, TypeOK
  <2>4. Carries(back_buf', PipeBytes(head, sent), PipeRoom)
    BY <1>2, <2>1, <2>2, <2>3, RoomsAre, ReceiveCarries
  <2>5. back_buf' \in [size : Nat, body : [1 .. PipeRoom -> Bytes]]
    BY <2>2, <2>4, RoomsAre, CarriesType
  <2>6. TypeOK'
    BY <1>1, <2>1, <2>5 DEF RelayInv, TypeOK
  <2>7. Travels'
    BY <1>1, <1>2, <2>1, <2>4 DEF Travels
  <2> QED BY <2>1, <2>6, <2>7 DEF RelayInv, UserExact, UserFrameValid, UnwrapExact,
                     DispatchRight
<1>5. CASE ~SizeValid(wire.size, PipeMax)
  <2>1. stage' = "closed" /\ UNCHANGED back_buf
    BY <1>5 DEF BackendReads
  <2>2. TypeOK'
    BY <1>1, <2>1 DEF RelayInv, TypeOK
  <2>3. Travels'
    BY <1>1, <1>2, <2>1 DEF Travels
  <2> QED BY <1>1, <1>3, <2>1, <2>2, <2>3 DEF RelayInv, UserExact, UserFrameValid,
                     UnwrapExact, DispatchRight
<1> QED BY <1>4, <1>5

LEMMA BackendUnwrapsRelay == RelayInv /\ BackendUnwraps => RelayInv'
<1> SUFFICES ASSUME RelayInv, BackendUnwraps PROVE RelayInv'
  OBVIOUS
<1> DEFINE u == PipeDecodeUser(back_buf, user_buf)
<1>1. /\ stage = "at_backend" /\ stage' = "unwrapped"
      /\ UNCHANGED <<wire, gate_buf, back_buf, sent, head>>
  BY DEF BackendUnwraps
<1>2. /\ sent \in Messages /\ head \in Heads /\ Short(sent.name)
      /\ Carries(back_buf, PipeBytes(head, sent), PipeRoom)
  BY <1>1 DEF RelayInv, Travels
<1>3. u = Receive(user_buf, Wire(UserBytes(sent)))
  BY <1>2, PipeDecodeUserIs
<1>4. UserBytes(sent) \in Seq(Bytes) /\ Len(UserBytes(sent)) \in 1 .. UserRoom
  BY <1>2, UserBytesAre
<1>5. Len(UserBytes(sent)) <= UserRoom /\ Len(UserBytes(sent)) \in 0 .. HalfMod - 1
  BY <1>4, RoomsAre
<1>6. user_buf.body \in [1 .. UserRoom -> Bytes]
  BY DEF RelayInv, TypeOK
<1> HIDE DEF u
<1>7. Carries(u, UserBytes(sent), UserRoom)
  BY <1>3, <1>4, <1>5, <1>6, RoomsAre, ReceiveCarries
<1>8. u \in [size : Nat, body : [1 .. UserRoom -> Bytes]]
  BY <1>4, <1>7, RoomsAre, CarriesType
<1>9. u # Refused
  BY <1>8, RelayAssumption DEF RelayAssumption
<1>10. user_buf' = u /\ got' = UserDecode(u)
  BY <1>9 DEF BackendUnwraps, u
<1>11. got' = sent
  BY <1>2, <1>7, <1>10, UserDecodeIs
<1>12. u \in [size : 0 .. HalfMod - 1, body : [1 .. UserRoom -> Bytes]]
  <2>1. u.size \in 0 .. HalfMod - 1
    BY <1>5, <1>7 DEF Carries
  <2> QED BY <1>8, <2>1
<1>13. TypeOK'
  BY <1>1, <1>10, <1>12 DEF RelayInv, TypeOK
<1>14. Travels'
  BY <1>1, <1>2 DEF Travels
<1> QED BY <1>1, <1>11, <1>13, <1>14 DEF RelayInv, UserExact, UserFrameValid,
                   UnwrapExact, DispatchRight

LEMMA BackendDispatchesRelay == RelayInv /\ BackendDispatches => RelayInv'
<1> SUFFICES ASSUME RelayInv, BackendDispatches PROVE RelayInv'
  OBVIOUS
<1> DEFINE p == PipeDecodeMsg(back_buf)
           h == HeadOf(back_buf.body)
<1>1. /\ stage = "at_backend" /\ stage' = "dispatched"
      /\ got' = IF p = Refused THEN Refused
                ELSE [name |-> p.name, data |-> p.data, head |-> h]
      /\ UNCHANGED <<wire, gate_buf, back_buf, user_buf, sent, head>>
  BY DEF BackendDispatches
<1>2. /\ sent \in Messages /\ head \in Heads /\ Short(sent.name)
      /\ Carries(back_buf, PipeBytes(head, sent), PipeRoom)
  BY <1>1 DEF RelayInv, Travels
<1>3. PICK d \in Seq(Bytes) : /\ p = [name |-> sent.name, data |-> d]
                              /\ SubSeq(d, 1, Len(sent.data)) = sent.data
  BY <1>2, PipeDecodeMsgIs
<1>4. h = IF (head.appid = <<>>) = (head.user_id = <<>>) THEN head
          ELSE [head EXCEPT !.appid = <<>>, !.user_id = <<>>]
  <2>1. back_buf.body \in Seq(Bytes)
    BY <1>2, RoomsAre, SeqLen DEF Carries
  <2>2. Part(back_buf.body, 0, PipeBytes(head, sent))
    BY <1>2 DEF Carries
  <2>3. /\ PipeBytes(head, sent) \in Seq(Bytes) /\ HeadBytes(head) \in Seq(Bytes)
        /\ Part(PipeBytes(head, sent), 0, HeadBytes(head))
    BY <1>2, PipeBytesAre, HeadBytesAre
  <2>4. Part(back_buf.body, 0 + 0, HeadBytes(head))
    BY <2>1, <2>2, <2>3, PartOfPart
  <2>5. Part(back_buf.body, 0, HeadBytes(head))
    BY <2>4
  <2> QED BY <1>2, <2>1, <2>5, HeadFound
<1>5. h \in [session_id : [1 .. IdSize -> Bytes], appid : Texts, user_id : Texts]
  <2>1. head \in [session_id : [1 .. IdSize -> Bytes], appid : Texts,
                  user_id : Texts]
    BY <1>2, RelayAssumption DEF RelayAssumption
  <2>2. <<>> \in Texts
    BY DEF Texts
  <2> QED BY <1>4, <2>1, <2>2
<1>6. sent.name \in Seq(Bytes)
  BY <1>2, MessageIs
<1> HIDE DEF p, h
<1>7. p \in [name : Seq(Bytes), data : Seq(Bytes)]
  BY <1>3, <1>6
<1>8. p # Refused
  BY <1>7, RelayAssumption DEF RelayAssumption
<1>9. got' = [name |-> sent.name, data |-> d, head |-> h]
  BY <1>1, <1>3, <1>8
<1>10. got' \in [name : Seq(Bytes), data : Seq(Bytes),
                 head : [session_id : [1 .. IdSize -> Bytes],
                         appid : Texts, user_id : Texts]]
  BY <1>3, <1>5, <1>6, <1>9
<1>11. got' # Refused
  BY <1>10, RelayAssumption DEF RelayAssumption
<1>12. DispatchRight'
  BY <1>1, <1>3, <1>4, <1>9, <1>11 DEF DispatchRight
<1>13. TypeOK'
  BY <1>1 DEF RelayInv, TypeOK
<1>14. Travels'
  BY <1>1, <1>2 DEF Travels
<1> QED BY <1>1, <1>12, <1>13, <1>14 DEF RelayInv, UserExact, UserFrameValid,
                   UnwrapExact

LEMMA AgainRelay == RelayInv /\ (Again \/ UNCHANGED vars) => RelayInv'
<1> SUFFICES ASSUME RelayInv, Again \/ UNCHANGED vars PROVE RelayInv'
  OBVIOUS
<1>1. CASE Again
  <2>1. /\ stage' = "client"
        /\ UNCHANGED <<wire, gate_buf, back_buf, user_buf, sent, head, got>>
    BY <1>1 DEF Again
  <2> QED BY <2>1 DEF RelayInv, TypeOK, Travels, UserExact, UserFrameValid, UnwrapExact,
                     DispatchRight
<1>2. CASE UNCHANGED vars
  BY <1>2 DEF vars, RelayInv, TypeOK, Travels, UserExact, UserFrameValid, UnwrapExact,
              DispatchRight
<1> QED BY <1>1, <1>2

LEMMA SpecRelay == Spec => []RelayInv
<1>1. RelayInv /\ [Next]_vars => RelayInv'
  BY ClientSendsRelay, GatewayReadsRelay, GatewayDecodesRelay, GatewayClosesRelay,
     GatewayWritesRelay, BackendReadsRelay, BackendUnwrapsRelay,
     BackendDispatchesRelay, AgainRelay DEF Next
<1> QED BY <1>1, InitRelay, PTL DEF Spec

\* The buffers keep the room their classes give them, whatever is read into them.
THEOREM TypeCorrect == Spec => []TypeOK
<1>1. RelayInv => TypeOK
  BY DEF RelayInv
<1> QED BY <1>1, SpecRelay, PTL

\* A UserBuffer is decoded as it was encoded, and a name that does not fit its size
\* is refused, whatever the widths of the sizes and the room.
THEOREM UserExactCorrect == Spec => []UserExact
<1>1. RelayInv => UserExact
  BY DEF RelayInv
<1> QED BY <1>1, SpecRelay, PTL

\* SizeValid refuses no frame that a UserBuffer has encoded.
THEOREM UserFrameValidCorrect == Spec => []UserFrameValid
<1>1. RelayInv => UserFrameValid
  BY DEF RelayInv
<1> QED BY <1>1, SpecRelay, PTL

\* A UserBuffer is unwrapped from a PipeBuffer as it was wrapped.
THEOREM UnwrapExactCorrect == Spec => []UnwrapExact
<1>1. RelayInv => UnwrapExact
  BY DEF RelayInv
<1> QED BY <1>1, SpecRelay, PTL

\* What PipeProcessor dispatches has the encoded name, head and data, but for what
\* comes behind the data.
THEOREM DispatchRightCorrect == Spec => []DispatchRight
<1>1. RelayInv => DispatchRight
  BY DEF RelayInv
<1> QED BY <1>1, SpecRelay, PTL

-----------------------------------------------------------------------------
(* ConsistentMap *)

\* A least element is the one Least chooses.
LEMMA LeastIs ==
  ASSUME NEW S \in SUBSET Nat, NEW m \in S, \A k \in S : m <= k
  PROVE  Least(S) = m
<1>1. \A h \in S : (\A k \in S : h <= k) => h = m
  OBVIOUS
<1>2. QED BY <1>1 DEF Least

\* Every set of numbers that is not empty has one.
LEMMA LeastIn ==
  ASSUME NEW S \in SUBSET Nat, S # {}
  PROVE  Least(S) \in S /\ \A k \in S : Least(S) <= k
<1>1. PICK m \in S : \A k \in S : ~ (<<k, m>> \in OpToRel(<, Nat))
  BY WFMin, NatLessThanWellFounded, Zenon
<1>2. ASSUME NEW k \in S PROVE m <= k
  <2>1. ~ (<<k, m>> \in {ss \in Nat \X Nat : ss[1] < ss[2]})
    BY <1>1, Zenon DEF OpToRel
  <2>2. QED BY <2>1
<1>3. Least(S) = m
  BY <1>2, LeastIs
<1>4. QED BY <1>2, <1>3

\* Where find stops: at the first key from the hash on or, when there is none,
\* at the first of all.
LEMMA PointIn ==
  ASSUME KeyMod \in Nat \ {0}, NEW data \in Maps, DOMAIN data # {}, NEW h \in Keys
  PROVE  /\ Point(data, h) \in DOMAIN data
         /\ \A k \in DOMAIN data : Distance(h, Point(data, h)) <= Distance(h, k)
<1>1. DOMAIN data \subseteq Keys
  BY DEF Maps
<1>2. Keys \subseteq Nat /\ \A k \in Keys : k < KeyMod
  BY DEF Keys
<1>3. CASE NotBefore(data, h) = {}
  <2>1. Point(data, h) = Least(DOMAIN data)
    BY <1>3 DEF Point
  <2>2. /\ Point(data, h) \in DOMAIN data
        /\ \A k \in DOMAIN data : Point(data, h) <= k
    BY <1>1, <1>2, <2>1, LeastIn
  <2>3. \A k \in DOMAIN data : ~ (k >= h)
    BY <1>3 DEF NotBefore
  <2>4. ASSUME NEW k \in DOMAIN data
        PROVE  Distance(h, Point(data, h)) <= Distance(h, k)
    <3>1. /\ h \in Nat /\ k \in Nat /\ Point(data, h) \in Nat
          /\ ~ (k >= h) /\ ~ (Point(data, h) >= h) /\ Point(data, h) <= k
      BY <1>1, <1>2, <2>2, <2>3
    <3>2. /\ Distance(h, Point(data, h)) = Point(data, h) + KeyMod - h
          /\ Distance(h, k) = k + KeyMod - h
      BY <3>1 DEF Distance
    <3>3. QED BY <3>1, <3>2
  <2>5. QED BY <2>2, <2>4
<1>4. CASE NotBefore(data, h) # {}
  <2>1. Point(data, h) = Least(NotBefore(data, h))
    BY <1>4 DEF Point
  <2>2. NotBefore(data, h) \subseteq DOMAIN data
    BY DEF NotBefore
  <2>3. /\ Point(data, h) \in NotBefore(data, h)
        /\ \A k \in NotBefore(data, h) : Point(data, h) <= k
    BY <1>1, <1>2, <1>4, <2>1, <2>2, LeastIn
  <2>4. Point(data, h) >= h
    BY <2>3 DEF NotBefore
  <2>5. \A k \in DOMAIN data : k >= h => Point(data, h) <= k
    BY <2>3 DEF NotBefore
  <2>6. Point(data, h) \in DOMAIN data
    BY <2>2, <2>3
  <2>7. ASSUME NEW k \in DOMAIN data
        PROVE  Distance(h, Point(data, h)) <= Distance(h, k)
    <3>1. /\ h \in Nat /\ k \in Nat /\ Point(data, h) \in Nat
          /\ Point(data, h) < KeyMod /\ h < KeyMod
      BY <1>1, <1>2, <2>6
    <3>2. Distance(h, Point(data, h)) = Point(data, h) - h
      BY <2>4 DEF Distance
    <3>3. CASE k >= h
      BY <2>5, <3>1, <3>2, <3>3 DEF Distance
    <3>4. CASE ~ (k >= h)
      BY <3>1, <3>2, <3>4 DEF Distance
    <3>5. QED BY <3>3, <3>4
  <2>8. QED BY <2>6, <2>7
<1>5. QED BY <1>3, <1>4

\* Conversely: the nearest key is the one find stops at, because two keys are
\* never equally far.
LEMMA PointIs ==
  ASSUME KeyMod \in Nat \ {0}, NEW data \in Maps, NEW h \in Keys,
         NEW p \in DOMAIN data,
         \A k \in DOMAIN data : Distance(h, p) <= Distance(h, k)
  PROVE  Point(data, h) = p
<1>1. /\ Point(data, h) \in DOMAIN data
      /\ Distance(h, Point(data, h)) <= Distance(h, p)
  BY PointIn
<1>2. DOMAIN data \subseteq Keys
  BY DEF Maps
<1>3. \A k \in Keys : k \in Nat /\ k < KeyMod
  BY DEF Keys
<1>4. Distance(h, p) <= Distance(h, Point(data, h))
  BY <1>1
<1>5. QED BY <1>1, <1>2, <1>3, <1>4 DEF Distance

\* The operations keep the map a map.
LEMMA InsertStays ==
  ASSUME NEW data \in Maps, NEW k \in Keys, NEW n \in Nodes
  PROVE  Insert(data, k, n) \in Maps
<1>1. PICK S \in SUBSET Keys : data \in [S -> Nodes]
  BY DEF Maps
<1>2. Update(data, k, n) \in [S \cup {k} -> Nodes]
  BY <1>1 DEF Update
<1>3. S \cup {k} \in SUBSET Keys
  BY <1>1
<1>4. QED BY <1>2, <1>3 DEF Maps, Insert

LEMMA EraseStays ==
  ASSUME NEW data \in Maps, NEW e \in Keys
  PROVE  Erase(data, e) \in Maps
<1>1. PICK S \in SUBSET Keys : data \in [S -> Nodes]
  BY DEF Maps
<1>2. Erase(data, e) \in [S \ {e % HashMod} -> Nodes]
  BY <1>1 DEF Erase
<1>3. QED BY <1>1, <1>2 DEF Maps

-----------------------------------------------------------------------------

\* find returns the node of the key nearest to the hash in the direction of
\* growing keys around the ring: what lower_bound and the step from end() to
\* begin() are for.
THEOREM FindNearest ==
  ASSUME KeyMod \in Nat \ {0}, NEW data \in Maps, DOMAIN data # {}, NEW h \in Keys
  PROVE  \E p \in DOMAIN data :
           /\ \A k \in DOMAIN data : Distance(h, p) <= Distance(h, k)
           /\ Find(data, h) = data[p]
BY PointIn DEF Find

\* When a node joins, what a hash finds stays the same or becomes the new node:
\* nothing moves between the nodes that were there before.
THEOREM InsertMoves ==
  ASSUME KeyMod \in Nat \ {0}, NEW data \in Maps, DOMAIN data # {},
         NEW k \in Keys, NEW n \in Nodes, NEW h \in Keys
  PROVE  Find(Insert(data, k, n), h) \in {Find(data, h), n}
<1>1. CASE k \in DOMAIN data
  BY <1>1 DEF Insert
<1>2. CASE k \notin DOMAIN data
  <2> DEFINE new == Insert(data, k, n)
             p   == Point(new, h)
  <2>1. /\ new \in Maps
        /\ DOMAIN new = DOMAIN data \cup {k}
        /\ new[k] = n
        /\ \A j \in DOMAIN data : new[j] = data[j]
    BY <1>2, InsertStays DEF Insert, Update
  <2> HIDE DEF new
  <2>2. /\ p \in DOMAIN new
        /\ \A j \in DOMAIN new : Distance(h, p) <= Distance(h, j)
    BY <2>1, PointIn
  <2>3. CASE p = k
    BY <2>1, <2>3 DEF Find, new
  <2>4. CASE p # k
    <3>1. p \in DOMAIN data /\ \A j \in DOMAIN data : Distance(h, p) <= Distance(h, j)
      BY <2>1, <2>2, <2>4
    <3>2. Point(data, h) = p
      BY <3>1, PointIs
    <3>3. QED BY <2>1, <3>1, <3>2 DEF Find, new
  <2>5. QED BY <2>3, <2>4
<1>3. QED BY <1>1, <1>2

\* When a node leaves, only what it owned moves: every hash that did not find
\* it finds the same node as before.
THEOREM EraseMoves ==
  ASSUME KeyMod \in Nat \ {0}, HashMod \in Nat \ {0},
         NEW data \in Maps, DOMAIN data # {},
         NEW e \in Keys, NEW h \in Keys, Point(data, h) # e % HashMod
  PROVE  Find(Erase(data, e), h) = Find(data, h)
<1> DEFINE new == Erase(data, e)
           p   == Point(data, h)
<1>1. /\ DOMAIN new = DOMAIN data \ {e % HashMod}
      /\ \A j \in DOMAIN new : new[j] = data[j]
  BY DEF Erase
<1>2. new \in Maps
  BY EraseStays
<1> HIDE DEF new
<1>3. p \in DOMAIN data /\ \A j \in DOMAIN data : Distance(h, p) <= Distance(h, j)
  BY PointIn
<1>4. p \in DOMAIN new /\ \A j \in DOMAIN new : Distance(h, p) <= Distance(h, j)
  BY <1>1, <1>3
<1>5. Point(new, h) = p
  BY <1>2, <1>4, PointIs
<1>6. QED BY <1>1, <1>4, <1>5 DEF Find, new

\* A node that joins and leaves again leaves no trace, if its key fits the
\* 32 bits of the argument of erase.
THEOREM EraseInsert ==
  ASSUME HashMod \in Nat \ {0}, NEW data \in Maps,
         NEW k \in Keys \ DOMAIN data, k < HashMod, NEW n \in Nodes
  PROVE  Erase(Insert(data, k, n), k) = data
<1>1. k % HashMod = k
  BY DEF Keys
<1>2. (DOMAIN data \cup {k}) \ {k} = DOMAIN data
  OBVIOUS
<1>3. data = [j \in DOMAIN data |-> data[j]]
  BY DEF Maps
<1>4. QED BY <1>1, <1>2, <1>3 DEF Erase, Insert, Update

\* With a wider type K a key beyond the 32 bits is never erased: erase looks
\* for what is left of it, and may take another node off the ring.
THEOREM EraseMisses ==
  ASSUME HashMod \in Nat \ {0}, NEW data \in Maps,
         NEW k \in DOMAIN data, k >= HashMod
  PROVE  k \in DOMAIN Erase(data, k)
<1>1. k \in Nat
  BY DEF Maps, Keys
<1>2. k % HashMod < HashMod
  BY <1>1
<1>3. k % HashMod # k
  BY <1>1, <1>2
<1>4. QED BY <1>3 DEF Erase

-----------------------------------------------------------------------------
(* The log file, for any number of threads and workers and any length of   *)
(* the hour and of the queue: the inductive invariant.                     *)

USE SinkAssumption

\* Whatever is on its way was stamped before now.
Stamped ==
  /\ now \in Nat
  /\ stamped \in [Threads -> 0 .. now \cup {Nothing}]
  /\ queue \in Seq(0 .. now)
  /\ held \in [Workers -> 0 .. now \cup {Nothing}]

\* The next rotation is the end of an hour h that has begun; the open file is of
\* that hour or, if it was opened late, of an earlier one.
Rotation ==
  \E h \in 0 .. Hour(now) :
    /\ rotation_tp = (h + 1) * HourTicks
    /\ file \in 0 .. h
    /\ late <=> file # h

SinkInv == Stamped /\ Rotation /\ PromptRight

-----------------------------------------------------------------------------
(* Hours *)

LEMMA HourNat ==
  ASSUME NEW t \in Nat
  PROVE  Hour(t) \in Nat
  BY DEF Hour

\* Rounding down, without the division.
LEMMA HourBounds ==
  ASSUME NEW t \in Nat
  PROVE  Hour(t) * HourTicks <= t /\ t < (Hour(t) + 1) * HourTicks
  BY DEF Hour

LEMMA TimesHour ==
  ASSUME NEW m \in Nat, NEW n \in Nat, m <= n
  PROVE  m * HourTicks <= n * HourTicks
  OBVIOUS

\* The end of an hour, by the clock and by the hour.
LEMMA HourEnd ==
  ASSUME NEW t \in Nat, NEW h \in Nat
  PROVE  t >= (h + 1) * HourTicks <=> Hour(t) > h
<1>1. Hour(t) \in Nat
  BY HourNat
<1>2. /\ Hour(t) * HourTicks \in Nat /\ (Hour(t) + 1) * HourTicks \in Nat
      /\ (h + 1) * HourTicks \in Nat
  BY <1>1
<1>3. ASSUME Hour(t) > h PROVE t >= (h + 1) * HourTicks
  <2>1. (h + 1) * HourTicks <= Hour(t) * HourTicks
    BY <1>1, <1>3, TimesHour
  <2> QED BY <1>2, <2>1, HourBounds
<1>4. ASSUME ~(Hour(t) > h) PROVE ~(t >= (h + 1) * HourTicks)
  <2>1. (Hour(t) + 1) * HourTicks <= (h + 1) * HourTicks
    BY <1>1, <1>4, TimesHour
  <2> QED BY <1>2, <2>1, HourBounds
<1> QED BY <1>3, <1>4

LEMMA HoursGrow ==
  ASSUME NEW t \in Nat, NEW u \in Nat, t <= u
  PROVE  Hour(t) <= Hour(u)
<1>1. CASE Hour(t) = 0
  BY <1>1, HourNat
<1>2. CASE Hour(t) # 0
  <2> DEFINE h == Hour(t) - 1
  <2>1. h \in Nat /\ Hour(t) = h + 1 /\ Hour(t) > h
    BY <1>2, HourNat
  <2> HIDE DEF h
  <2>2. t >= (h + 1) * HourTicks /\ (h + 1) * HourTicks \in Nat
    BY <2>1, HourEnd
  <2>3. u >= (h + 1) * HourTicks
    BY <2>2
  <2>4. Hour(u) > h /\ Hour(u) \in Nat
    BY <2>1, <2>3, HourEnd, HourNat
  <2> QED BY <2>1, <2>4
<1> QED BY <1>1, <1>2

-----------------------------------------------------------------------------
(* The steps of LogSink *)

LEMMA InitSink == SinkInit => SinkInv
<1> SUFFICES ASSUME SinkInit PROVE SinkInv
  OBVIOUS
<1>1. now \in Nat /\ Hour(now) \in Nat
  BY HourNat DEF SinkInit
<1>2. Stamped
  <2>1. <<>> \in Seq(0 .. now)
    OBVIOUS
  <2> QED BY <1>1, <2>1 DEF SinkInit, Stamped
<1>3. Rotation
  <2>1. PICK t \in 0 .. now : file = Hour(t)
    BY DEF SinkInit
  <2>2. file \in 0 .. Hour(now)
    BY <1>1, <2>1, HourNat, HoursGrow
  <2>3. rotation_tp = (Hour(now) + 1) * HourTicks
    BY DEF SinkInit, NextRotation
  <2>4. late <=> file # Hour(now)
    BY DEF SinkInit
  <2> QED BY <1>1, <2>2, <2>3, <2>4 DEF Rotation
<1>4. PromptRight
  BY DEF SinkInit, PromptRight
<1> QED BY <1>2, <1>3, <1>4 DEF SinkInv

\* What a write does to the file, and what it tells of it.
LEMMA Written ==
  ASSUME SinkInv, NEW w \in Workers, Sink(w)
  PROVE  Rotation' /\ PromptRight' /\ (file' = file \/ file' > file)
<1> DEFINE t == held[w]
<1>1. t \in 0 .. now /\ now \in Nat /\ now' = now
  BY DEF Sink, SinkInv, Stamped
<1>2. /\ file' = Hour(t) /\ rotation_tp' = NextRotation(now)
        /\ late' = (Hour(t) # Hour(now))
      \/ UNCHANGED <<file, rotation_tp, late>>
  BY DEF Sink
<1>3. IF t >= rotation_tp
      THEN /\ file' = Hour(t) /\ rotation_tp' = NextRotation(now)
           /\ late' = (Hour(t) # Hour(now))
      ELSE UNCHANGED <<file, rotation_tp, late>>
  BY DEF Sink
<1>4. last' = [hour |-> Hour(t), at |-> Hour(now), file |-> file', late |-> late']
  BY DEF Sink
<1> HIDE DEF t
<1>5. PICK h \in 0 .. Hour(now) :
        /\ rotation_tp = (h + 1) * HourTicks
        /\ file \in 0 .. h
        /\ late <=> file # h
  BY DEF SinkInv, Rotation
<1>6. /\ Hour(t) \in Nat /\ Hour(now) \in Nat /\ Hour(t) <= Hour(now)
      /\ h \in Nat /\ h <= Hour(now)
  BY <1>1, HourNat, HoursGrow
<1>7. t >= rotation_tp <=> Hour(t) > h
  BY <1>1, <1>5, <1>6, HourEnd
<1>8. CASE t >= rotation_tp
  <2>1. /\ file' = Hour(t) /\ rotation_tp' = (Hour(now) + 1) * HourTicks
    BY <1>3, <1>8 DEF NextRotation
  <2>2. late' <=> Hour(t) # Hour(now)
    BY <1>3, <1>8
  <2>3. Hour(now)' = Hour(now)
    BY <1>1 DEF Hour
  <2>4. Rotation'
    BY <1>6, <2>1, <2>2, <2>3 DEF Rotation
  <2>5. last'.file = last'.hour
    BY <1>4, <2>1
  <2>6. file' > file
    BY <1>5, <1>6, <1>7, <1>8, <2>1
  <2> QED BY <2>4, <2>5, <2>6 DEF PromptRight
<1>9. CASE ~(t >= rotation_tp)
  <2>1. UNCHANGED <<file, rotation_tp, late>>
    BY <1>3, <1>9
  <2>2. Hour(now)' = Hour(now)
    BY <1>1 DEF Hour
  <2>3. Rotation'
    BY <1>5, <2>1, <2>2 DEF Rotation
  <2>4. ASSUME Hour(now) = Hour(t), ~late PROVE file = Hour(t)
    BY <1>5, <1>6, <1>7, <1>9, <2>4
  <2>5. /\ last'.at = Hour(now) /\ last'.hour = Hour(t) /\ last'.file = file
        /\ last'.late = late
    BY <1>4, <2>1
  <2>6. PromptRight'
    BY <2>4, <2>5 DEF PromptRight
  <2> QED BY <2>1, <2>3, <2>6
<1> QED BY <1>8, <1>9

LEMMA StampedStep ==
  ASSUME Stamped, [SinkNext]_sink_vars
  PROVE  Stamped'
<1>1. CASE Tick
  <2>1. /\ now \in Nat /\ now' = now + 1 /\ now' \in Nat
        /\ UNCHANGED <<stamped, queue, held>>
    BY <1>1 DEF Tick, Stamped
  <2>2. 0 .. now \subseteq 0 .. now'
    BY <2>1
  <2>3. queue \in Seq(0 .. now')
    <3>1. queue \in Seq(0 .. now)
      BY DEF Stamped
    <3> QED BY <2>2, <3>1, SeqMonotonic
  <2> QED BY <2>1, <2>2, <2>3 DEF Stamped
<1>2. ASSUME NEW p \in Threads, Log(p) PROVE Stamped'
  BY <1>2 DEF Log, Stamped
<1>3. ASSUME NEW p \in Threads, Enqueue(p) PROVE Stamped'
  <2>1. /\ stamped[p] \in 0 .. now /\ queue' = Append(queue, stamped[p])
        /\ stamped' = [stamped EXCEPT ![p] = Nothing] /\ UNCHANGED <<now, held>>
    BY <1>3 DEF Enqueue, Stamped
  <2>2. queue' \in Seq(0 .. now)
    BY <2>1 DEF Stamped
  <2> QED BY <2>1, <2>2 DEF Stamped
<1>4. ASSUME NEW w \in Workers, Dequeue(w) PROVE Stamped'
  <2>1. /\ queue # <<>> /\ queue' = Tail(queue) /\ UNCHANGED <<now, stamped>>
        /\ held' = [held EXCEPT ![w] = Head(queue)]
    BY <1>4 DEF Dequeue
  <2>2. queue' \in Seq(0 .. now) /\ Head(queue) \in 0 .. now
    BY <2>1 DEF Stamped
  <2> QED BY <2>1, <2>2 DEF Stamped
<1>5. ASSUME NEW w \in Workers, Sink(w) PROVE Stamped'
  <2>1. held' = [held EXCEPT ![w] = Nothing] /\ UNCHANGED <<now, stamped, queue>>
    BY <1>5 DEF Sink
  <2> QED BY <2>1 DEF Stamped
<1>6. CASE UNCHANGED sink_vars
  BY <1>6 DEF sink_vars, Stamped
<1> QED BY <1>1, <1>2, <1>3, <1>4, <1>5, <1>6 DEF SinkNext

LEMMA SinkStep ==
  ASSUME SinkInv, [SinkNext]_sink_vars
  PROVE  SinkInv' /\ (file' = file \/ file' > file)
<1>1. Stamped'
  BY StampedStep DEF SinkInv
<1>2. CASE Tick
  <2>1. now \in Nat /\ now' = now + 1 /\ UNCHANGED <<file, rotation_tp, late, last>>
    BY <1>2 DEF Tick, SinkInv, Stamped
  <2>2. Hour(now) <= Hour(now + 1) /\ Hour(now) \in Nat /\ Hour(now + 1) \in Nat
    BY <2>1, HoursGrow, HourNat
  <2>3. 0 .. Hour(now) \subseteq 0 .. Hour(now)'
    BY <2>1, <2>2 DEF Hour
  <2>4. Rotation'
    BY <2>1, <2>3 DEF Rotation, SinkInv
  <2>5. PromptRight'
    BY <2>1 DEF PromptRight, SinkInv
  <2> QED BY <1>1, <2>1, <2>4, <2>5 DEF SinkInv
<1>3. CASE UNCHANGED <<now, file, rotation_tp, late, last>>
  <2>1. Rotation'
    BY <1>3 DEF Rotation, SinkInv, Hour
  <2>2. PromptRight'
    BY <1>3 DEF PromptRight, SinkInv
  <2> QED BY <1>1, <1>3, <2>1, <2>2 DEF SinkInv
<1>4. ASSUME NEW w \in Workers, Sink(w)
      PROVE  SinkInv' /\ (file' = file \/ file' > file)
  BY <1>1, <1>4, Written DEF SinkInv
<1> QED BY <1>2, <1>3, <1>4 DEF SinkNext, Log, Enqueue, Dequeue, sink_vars

-----------------------------------------------------------------------------
(* The theorems about LogSink *)

LEMMA SpecSink == SinkSpec => []SinkInv
  BY InitSink, SinkStep, PTL DEF SinkSpec

\* A message written within its hour is in that hour's file, unless the file was
\* opened late: PromptRight.
THEOREM PromptRightCorrect == SinkSpec => []PromptRight
<1>1. SinkInv => PromptRight
  BY DEF SinkInv
<1> QED BY <1>1, SpecSink, PTL

\* The sink only ever goes on to the file of a later hour: NeverBack.
THEOREM NeverBackCorrect == SinkSpec => NeverBack
<1>1. SinkInv /\ [SinkNext]_sink_vars => [file' > file]_file
  BY SinkStep
<1> QED BY <1>1, SpecSink, PTL DEF SinkSpec, NeverBack
=============================================================================
