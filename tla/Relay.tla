-------------------------------- MODULE Relay --------------------------------
(***************************************************************************)
(* The way of a message through the buffers of common/: a client encodes   *)
(* it in a UserBuffer, a gateway reads that into its read_buf_, decodes it *)
(* and wraps it, or a message of its own, in a PipeBuffer for a back end,  *)
(* which reads it into its own read_buf_ and either unwraps the UserBuffer *)
(* or dispatches the message.  Buffers that are read into are used again   *)
(* and again.  (In this repository nobody uses PipeBuffer and              *)
(* PipeProcessor yet: the gateway and the back end are how their interface *)
(* is meant to be used.)                                                   *)
(***************************************************************************)
EXTENDS Buffers

CONSTANTS
  Messages,   \* bound: the messages, [name : Texts, data : Seq(Bytes)]
  Heads,      \* bound: [session_id, appid : Texts, user_id : Texts]
  Nobody      \* no frame on the wire

Short(text) == Len(text) + 1 < ByteMod

\* Messages and heads fit the buffers, also with the head once more behind them,
\* where PipeBuffer::Decode looks for data: 2 * (4 + 2 * 256) + 16 * 1024 is far
\* below 512 * 1024.  What is no message, head or buffer differs from all of them.
ASSUME RelayAssumption ==
  /\ Messages \subseteq [name : Texts \ {<<>>}, data : Seq(Bytes)]
  /\ Heads \subseteq [session_id : [1 .. IdSize -> Bytes],
                      appid : Texts, user_id : Texts]
  /\ \A head \in Heads : Short(head.appid) /\ Short(head.user_id)
  /\ \A m \in Messages : 1 + Len(m.name) + 1 + Len(m.data) + CheckSize <= UserRoom
  /\ \A head \in Heads :
       2 * (IdSize + 2 + Len(head.appid) + 1 + Len(head.user_id) + 1) + UserRoom
         <= PipeRoom
  /\ Nobody \notin Heads
  /\ Refused \notin [size : Nat, body : [1 .. UserRoom -> Bytes]]
  /\ Refused \notin [name : Seq(Bytes), data : Seq(Bytes)]
  /\ Refused \notin [name : Seq(Bytes), data : Seq(Bytes),
                     head : [session_id : [1 .. IdSize -> Bytes],
                             appid : Texts, user_id : Texts]]

VARIABLES
  stage,      \* where the message is
  wire,       \* the frame under way
  gate_buf,   \* read_buf_ of the gateway, a UserBuffer
  back_buf,   \* read_buf_ of the back end, a PipeBuffer
  user_buf,   \* the UserBuffer the back end unwraps into
  sent, head, \* history: the last message and head encoded
  got         \* what was decoded last

vars == <<stage, wire, gate_buf, back_buf, user_buf, sent, head, got>>

Init ==
  /\ stage = "client" /\ wire = Nobody
  /\ gate_buf = Blank(UserRoom) /\ back_buf = Blank(PipeRoom)
  /\ user_buf = Blank(UserRoom)
  /\ sent = Nobody /\ head = Nobody /\ got = Nobody

-----------------------------------------------------------------------------

ClientSends ==
  /\ stage = "client" /\ stage' = "to_gateway"
  /\ \E m \in Messages : sent' = m /\ wire' = Frame(UserEncode(m))
  /\ got' = Nobody /\ head' = Nobody
  /\ UNCHANGED <<gate_buf, back_buf, user_buf>>

\* The header is read and its size checked, then the body.
GatewayReads ==
  /\ stage = "to_gateway"
  /\ IF SizeValid(wire.size, UserMax)
     THEN stage' = "at_gateway" /\ gate_buf' = Receive(gate_buf, wire)
     ELSE stage' = "closed" /\ UNCHANGED gate_buf
  /\ wire' = Nobody
  /\ UNCHANGED <<back_buf, user_buf, sent, head, got>>

GatewayDecodes ==
  /\ stage = "at_gateway" /\ stage' = "gateway"
  /\ got' = UserDecode(gate_buf)
  /\ UNCHANGED <<wire, gate_buf, back_buf, user_buf, sent, head>>

\* A frame that Decode refuses closes the connection.
GatewayCloses ==
  /\ stage = "gateway" /\ got = Refused /\ stage' = "client"
  /\ gate_buf' = Blank(UserRoom)
  /\ UNCHANGED <<wire, back_buf, user_buf, sent, head, got>>

GatewayForwards ==
  /\ stage = "gateway" /\ got # Refused /\ stage' = "to_backend"
  /\ \E h \in Heads :
       head' = h /\ wire' = Frame(PipeEncodeUser(h, gate_buf))
  /\ got' = Nobody
  /\ UNCHANGED <<gate_buf, back_buf, user_buf, sent>>

GatewaySends ==
  /\ stage = "gateway" /\ got # Refused /\ stage' = "to_backend"
  /\ \E h \in Heads, m \in Messages :
       /\ Short(m.name)
       /\ head' = h /\ sent' = m /\ wire' = Frame(PipeEncodeMsg(h, m))
  /\ got' = Nobody
  /\ UNCHANGED <<gate_buf, back_buf, user_buf>>

BackendReads ==
  /\ stage = "to_backend"
  /\ IF SizeValid(wire.size, PipeMax)
     THEN stage' = "at_backend" /\ back_buf' = Receive(back_buf, wire)
     ELSE stage' = "closed" /\ UNCHANGED back_buf
  /\ wire' = Nobody
  /\ UNCHANGED <<gate_buf, user_buf, sent, head, got>>

BackendUnwraps ==
  LET unwrapped == PipeDecodeUser(back_buf, user_buf) IN
  /\ stage = "at_backend" /\ stage' = "unwrapped"
  /\ IF unwrapped = Refused THEN got' = Refused /\ UNCHANGED user_buf
     ELSE user_buf' = unwrapped /\ got' = UserDecode(unwrapped)
  /\ UNCHANGED <<wire, gate_buf, back_buf, sent, head>>

\* PipeProcessor::Dispatch posts the head and the message.
BackendDispatches ==
  /\ stage = "at_backend" /\ stage' = "dispatched"
  /\ LET m == PipeDecodeMsg(back_buf) IN
     got' = IF m = Refused THEN Refused
            ELSE [name |-> m.name, data |-> m.data, head |-> HeadOf(back_buf.body)]
  /\ UNCHANGED <<wire, gate_buf, back_buf, user_buf, sent, head>>

Again ==
  /\ stage \in {"gateway", "unwrapped", "dispatched"} /\ got # Refused
  /\ stage' = "client"
  /\ UNCHANGED <<wire, gate_buf, back_buf, user_buf, sent, head, got>>

Next ==
  \/ ClientSends \/ GatewayReads \/ GatewayDecodes \/ GatewayCloses
  \/ GatewayForwards \/ GatewaySends \/ BackendReads \/ BackendUnwraps
  \/ BackendDispatches \/ Again

Spec == Init /\ [][Next]_vars

-----------------------------------------------------------------------------
(* Properties *)

\* Every variable has the type its C++ declaration gives it.
TypeOK ==
  /\ stage \in {"client", "to_gateway", "at_gateway", "gateway", "to_backend",
                "at_backend", "unwrapped", "dispatched", "closed"}
  /\ gate_buf \in [size : Nat, body : [1 .. UserRoom -> Bytes]]
  /\ back_buf \in [size : Nat, body : [1 .. PipeRoom -> Bytes]]
  /\ user_buf \in [size : 0 .. HalfMod - 1, body : [1 .. UserRoom -> Bytes]]
  /\ sent \in Messages \cup {Nobody} /\ head \in Heads \cup {Nobody}

\* A UserBuffer is decoded as it was encoded, whatever frame was in read_buf_
\* before.  A name too long for its size is refused, never taken for another.
UserExact ==
  stage = "gateway" => got = IF Short(sent.name) THEN sent ELSE Refused

\* No frame that a UserBuffer has encoded is refused for its size.  (One of a
\* PipeBuffer is, when its size is a multiple of 2^16.)
UserFrameValid == stage = "closed" => head # Nobody

\* The UserBuffer in a PipeBuffer, too, is decoded as it was encoded.
UnwrapExact == stage = "unwrapped" => got = sent

\* What PipeProcessor dispatches has the name, and starts with the data, that
\* was encoded, and its head is the encoded one, unless only one of appid and
\* user id is given.
DispatchRight ==
  stage = "dispatched" =>
    /\ got # Refused /\ got.name = sent.name
    /\ SubSeq(got.data, 1, Len(sent.data)) = sent.data
    /\ got.head = IF (head.appid = <<>>) = (head.user_id = <<>>) THEN head
                  ELSE [head EXCEPT !.appid = <<>>, !.user_id = <<>>]

\* What PipeProcessor parses is the encoded data, up to the check_sum that the
\* layout puts behind it.
DataExact ==
  stage = "dispatched" /\ got # Refused => got.data = sent.data
=============================================================================
