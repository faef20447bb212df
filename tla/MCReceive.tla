----------------------------- MODULE MCReceive -----------------------------
(* Instances of Receive for TLC.                                           *)
EXTENDS Receive

Blank(no, type) ==
    [no |-> no, type |-> type, names |-> << >>, width |-> 0, player |-> 0,
     x |-> 0, sense |-> TRUE]
NewGame(names, size) ==
    [Blank(0, "NEW_GAME") EXCEPT !.names = names, !.width = size]
Pixel(no, player, x) ==
    [Blank(no, "PIXEL") EXCEPT !.player = player, !.x = x]
Eliminated(no, player) ==
    [Blank(no, "PLAYER_ELIMINATED") EXCEPT !.player = player]

(* The second game has other players on a smaller board.                   *)
FirstGame ==
    <<NewGame(<<1, 2, 3>>, 3), Pixel(1, 2, 2), Eliminated(2, 0),
      Blank(3, "GAME_OVER")>>
SecondGame == <<NewGame(<<2, 4>>, 2), Pixel(1, 0, 1), Pixel(2, 1, 0)>>

MCGames == <<FirstGame, SecondGame>>

(* Pixels outside the board or of a player the game does not have, a       *)
(* record the client cannot make sense of, and one of a type it does not   *)
(* know.                                                                   *)
MCFaulty ==
    {Pixel(1, 0, 3), Pixel(2, 2, 0), Eliminated(1, 3),
     [NewGame(<<3, 1>>, 1) EXCEPT !.sense = FALSE],
     [Blank(1, "UNKNOWN") EXCEPT !.sense = FALSE]}
=============================================================================
