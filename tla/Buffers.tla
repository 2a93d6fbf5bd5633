------------------------------- MODULE Buffers -------------------------------
(***************************************************************************)
(* The frames of common/user_buffer.h and common/pipe_buffer.h.  A buffer  *)
(* is the number its header holds and the bytes after the header, all of   *)
(* them: those beyond the size are what the last frame left there.  Texts  *)
(* are sequences of bytes other than NUL, the protobuf data is any bytes.  *)
(***************************************************************************)
EXTENDS Naturals, Sequences

CONSTANTS
  ByteMod,     \* 2^8, of the uint8_t sizes
  HalfMod,     \* 2^16, of the uint16_t sizes
  UserMax,     \* kMaxBufferSize of UserBuffer, 16 * 1024
  PipeMax,     \* kMaxBufferSize of PipeBuffer, 512 * 1024
  IdSize,      \* sizeof(uint32_t), of the session id
  CheckSize,   \* sizeof(uint32_t), of the check sum
  Refused      \* what a decoder returns with false

ASSUME BuffersAssumption ==
  /\ ByteMod \in Nat /\ ByteMod > 2 /\ HalfMod \in Nat \ {0}
  /\ UserMax \in 3 .. HalfMod - 1 /\ PipeMax \in Nat /\ PipeMax > 4
  /\ IdSize \in Nat \ {0} /\ CheckSize \in Nat

NUL == 0
Bytes == 0 .. ByteMod - 1
Texts == Seq(Bytes \ {NUL})
Zeros(n) == [i \in 1 .. n |-> NUL]

\* The bytes behind the header, sizeof(HeaderType) shorter than buf_.
UserRoom == UserMax - 2
PipeRoom == PipeMax - 4

\* The constructor of Buffer clears it.
Blank(room) == [size |-> 0, body |-> Zeros(room)]

\* memcpy to the start of the body: the bytes behind stay as they are.
Put(body, bytes) ==
  [i \in DOMAIN body |-> IF i <= Len(bytes) THEN bytes[i] ELSE body[i]]

\* What is sent and received: the header and so many bytes of the body.
Frame(b) == [size |-> b.size, bytes |-> SubSeq(b.body, 1, b.size)]
Receive(b, f) == [size |-> f.size, body |-> Put(b.body, f.bytes)]

\* Mutant of SizeValid: the size is compared as a uint8_t.
SizeValidByte(size, max) == size % ByteMod \in 1 .. max

\* The size is compared as a uint16_t, whatever HeaderType is.
SizeValid(size, max) == size % HalfMod \in 1 .. max

-----------------------------------------------------------------------------
(* UserBuffer *)

\* Mutant of UserEncode: the size of the name is not narrowed to a byte.
UserEncodeWide(m) ==
  LET body == <<Len(m.name) + 1>> \o Append(m.name, NUL) \o m.data
                \o Zeros(CheckSize)
  IN  [size |-> Len(body), body |-> Put(Zeros(UserRoom), body)]

\* Mutant of UserEncode: the name is ended with NUL whatever its size.
UserEncodeEnded(m) ==
  LET n == (Len(m.name) + 1) % ByteMod
      body == <<n>> \o SubSeq(m.name, 1, n - 1) \o <<NUL>> \o m.data
                \o Zeros(CheckSize)
  IN  [size |-> Len(body), body |-> Put(Zeros(UserRoom), body)]

\* msg_name_size is a uint8_t, and so many bytes of the name and its NUL are
\* copied.  The check sum is never written.
UserEncode(m) ==
  LET n == (Len(m.name) + 1) % ByteMod
      body == <<n>> \o SubSeq(Append(m.name, NUL), 1, n) \o m.data
                \o Zeros(CheckSize)
  IN  [size |-> Len(body), body |-> Put(Zeros(UserRoom), body)]

UserDecode(b) ==
  LET n == b.body[1] IN
  IF n < 2 \/ b.body[1 + n] # NUL THEN Refused
  ELSE [name |-> SubSeq(b.body, 2, n),
        data |-> SubSeq(b.body, 2 + n, b.size - CheckSize)]

-----------------------------------------------------------------------------
(* PipeBuffer: the session id, the appid and the user id, then a UserBuffer *)

\* appid and user_id: their size with the NUL, or 0 for an empty one.
Sized(text) ==
  IF text = <<>> THEN <<0>> ELSE <<Len(text) + 1>> \o Append(text, NUL)

PipeEncode(head, rest) ==
  LET body == head.session_id \o Sized(head.appid) \o Sized(head.user_id) \o rest
  IN  [size |-> Len(body), body |-> Put(Zeros(PipeRoom), body)]

\* Encode of a UserBuffer copies its body, size and check sum included.
PipeEncodeUser(head, user_buf) ==
  PipeEncode(head, SubSeq(user_buf.body, 1, user_buf.size))

\* Encode of a message.  Here the name is always ended with NUL.
PipeEncodeMsg(head, m) ==
  LET n == (Len(m.name) + 1) % ByteMod
      name == IF n = 0 THEN <<>> ELSE Append(SubSeq(m.name, 1, n - 1), NUL)
  IN  PipeEncode(head, <<n>> \o name \o m.data \o Zeros(CheckSize))

\* The places of appid_size, user_id_size and what follows the user id.
AppidAt == IdSize + 1
UserIdAt(body) == AppidAt + 1 + body[AppidAt]
\* Mutant of RestAt: the size byte of the user id is not counted.
RestAtShort(body) == UserIdAt(body) + body[UserIdAt(body)]
RestAt(body) == UserIdAt(body) + 1 + body[UserIdAt(body)]

\* The appid and the user id end with NUL, unless their size is 0.
HeadValid(body) ==
  /\ body[AppidAt] = 0 \/ body[UserIdAt(body) - 1] = NUL
  /\ body[UserIdAt(body)] = 0 \/ body[RestAt(body) - 1] = NUL

TextAt(body, at) == SubSeq(body, at + 1, at + body[at] - 1)

\* The PipeHead PipeProcessor makes: both texts, or none when one is nullptr.
HeadOf(body) ==
  LET both == body[AppidAt] # 0 /\ body[UserIdAt(body)] # 0
  IN  [session_id |-> SubSeq(body, 1, IdSize),
       appid |-> IF both THEN TextAt(body, AppidAt) ELSE <<>>,
       user_id |-> IF both THEN TextAt(body, UserIdAt(body)) ELSE <<>>]

\* Mutant of PipeDecodeUser: the size byte of the user id is not subtracted.
PipeDecodeUserLong(b, user_buf) ==
  LET at == RestAt(b.body) IN
  IF ~HeadValid(b.body) THEN Refused
  ELSE Receive(user_buf, [size |-> b.size - at + 2,
                          bytes |-> SubSeq(b.body, at, b.size + 1)])

\* Decode into a UserBuffer.
PipeDecodeUser(b, user_buf) ==
  LET at == RestAt(b.body) IN
  IF ~HeadValid(b.body) THEN Refused
  ELSE Receive(user_buf, [size |-> b.size - at + 1,
                          bytes |-> SubSeq(b.body, at, b.size)])

\* Decode of a message.  What msg_data_size_ leaves out are the message name
\* and the check sum, not the session id and the texts before them.
PipeDecodeMsg(b) ==
  LET at == RestAt(b.body)
      n == b.body[at]
      size == b.size - 1 - n - CheckSize
  IN  IF ~HeadValid(b.body) \/ n < 2 \/ b.body[at + n] # NUL THEN Refused
      ELSE [name |-> SubSeq(b.body, at + 1, at + n - 1),
            data |-> SubSeq(b.body, at + n + 1, at + n + size)]
=============================================================================
