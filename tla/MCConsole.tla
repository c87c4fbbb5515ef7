----------------------------- MODULE MCConsole -----------------------------
(* Console for TLC.                                                        *)
EXTENDS Console, TLC

\* Two letters, one of them of two bytes, and the bracket of a sequence.
MCWidth == ("p" :> 1) @@ ("r" :> 2) @@ ("[" :> 1)
MCFinals == {"p", "["}
MCTypeable == {"p", "r", "[", "ESC", "CR", "LF", "BS"}
MCVocabulary == (<<"p">> :> "registered") @@ (<<"r">> :> "reboot")
                  @@ (<<"p", "p">> :> "builtin")

\* Widths against a limit of five bytes: cuts that leave room, and an empty piece.
MCPieces == {<<>>, <<1>>, <<3>>, <<1, 3>>}

============================================================================
