----------------------------- MODULE MCNotices -----------------------------
(* Model-checking instances of Notices: the notices of a close on two      *)
(* channels, every notice of the key on one, the notices that have a key   *)
(* of their own among them, and a deliver job whose one attempt may fail.  *)
EXTENDS Notices

MCChannels == {"telegram", "feishu"}

MCSetups == {
  [channels |-> MCChannels, kinds |-> {"close", "summary"}, attempts |-> 2],
  [channels |-> {"telegram"}, kinds |-> {"partial", "close", "summary", "trade"}, attempts |-> 2],
  [channels |-> {"telegram"}, kinds |-> {"open", "partial", "tradePartial", "trade"}, attempts |-> 2],
  [channels |-> MCChannels, kinds |-> {"close", "trade"}, attempts |-> 1] }

\* One channel, and no webhook.
PartlySetups == {[channels |-> {"telegram"}, kinds |-> {"partial", "close", "summary"},
                  attempts |-> 1]}
=============================================================================
