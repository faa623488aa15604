----------------------------- MODULE MCInbound -----------------------------
(* One person's two Telegram messages, the second with a handoff token,    *)
(* and an Instagram update of two events whose first can be stored again   *)
(* when its second fails.                                                  *)
EXTENDS Inbound

CONSTANTS u1, u2, u3

Of(kind) == [kind |-> kind, handle |-> "h"]

MCEvents == [u \in Updates |->
  CASE u = u1 -> <<Of("telegram")>>
    [] u = u2 -> <<Of("start")>>
    [] u = u3 -> <<Of("dm"), Of("postback")>>]
=============================================================================
