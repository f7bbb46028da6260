--------------------------- MODULE MCCommandHandler ---------------------------
(* CommandHandler for TLC: an ordinary, a restart and an invalid command.     *)
EXTENDS CommandHandler

CONSTANTS setGroup, restart, unknown

MCIds == {setGroup, restart, unknown}
MCTwoIds == {setGroup, restart}
MCRestartIds == {restart}
MCInvalidIds == {unknown}
MCNone == {}
=============================================================================
