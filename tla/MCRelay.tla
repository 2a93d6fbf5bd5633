------------------------------- MODULE MCRelay -------------------------------
(* Relay with bytes below 4: a name of 3 bytes is too long, and so is one   *)
(* of 5, whose size wraps to 2.                                            *)
EXTENDS Relay

MCMessages ==
  {[name |-> n, data |-> d] : n \in {<<1>>, <<2, 1>>, <<1, 2, 3>>, <<1, 2, 3, 1, 2>>},
                              d \in {<<>>, <<3>>, <<0, 2>>}}
MCHeads ==
  [session_id : {<<0, 3>>}, appid : {<<>>, <<1>>}, user_id : {<<>>, <<2, 3>>}]
=============================================================================
