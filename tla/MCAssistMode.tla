----------------------------- MODULE MCAssistMode -----------------------------
(***************************************************************************)
(* Small instances of AssistMode for TLC.                                  *)
(***************************************************************************)
EXTENDS AssistMode

(* The two kinds of session: the mailbox and the bounded FIFO.             *)
OnlyTranslation == {"translation"}
Mixed           == {"translation", "reply_coaching"}

(* A backlog count is only ever compared with zero.                        *)
ZeroOrMore == {0, 1}
=============================================================================
