--------------------------- MODULE MCInteractive ---------------------------
(***************************************************************************)
(* Interactive on a small instance.                                         *)
(***************************************************************************)
EXTENDS Interactive

On(messenger, undo) == [messenger |-> messenger, undo |-> undo]
MCSetups == {On("slack", TRUE), On("telegram", TRUE), On("slack", FALSE)}
SlackOnly == {On("slack", TRUE)}
TelegramOnly == {On("telegram", TRUE)}
=============================================================================
