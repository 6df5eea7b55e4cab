------------------------------- MODULE TicTacToe -------------------------------
(***************************************************************************)
(* The tic-tac-toe game of IOSEx (IOSEx/IOSEx/ViewController.swift).       *)
(*                                                                         *)
(* A tap on a free cell is one handler: the player's mark, the checks, the *)
(* computer's random mark, the checks again.  The end of a game is an      *)
(* alert, which is modal: until its only button is pressed nothing else    *)
(* can be tapped.  Displaying a cell clears its point, so reloading the    *)
(* collection is how a game is restarted.  A cell is a third of the        *)
(* collection's width and height, less the spacing, so all nine are always *)
(* on screen and are displayed only by a reload.                           *)
(***************************************************************************)
EXTENDS Naturals, FiniteSets

VARIABLES points,       \* selectionStatus of every cell
          alert         \* the alert on screen

vars == <<points, alert>>

-----------------------------------------------------------------------------
Cell == (0 .. 2) \X (0 .. 2)
Status == {"none", "player", "comp"}
Board == [Cell -> Status]
Empty == [c \in Cell |-> "none"]

\* The lines in the order check() looks at them: rows, columns, diagonals.
Line(k) ==
  CASE k \in 1 .. 3 -> {<<k - 1, 0>>, <<k - 1, 1>>, <<k - 1, 2>>}
    [] k \in 4 .. 6 -> {<<0, k - 4>>, <<1, k - 4>>, <<2, k - 4>>}
    [] k = 7 -> {<<0, 0>>, <<1, 1>>, <<2, 2>>}
    [] k = 8 -> {<<2, 0>>, <<1, 1>>, <<0, 2>>}

Complete(b, k) == \E s \in {"player", "comp"} : \A c \in Line(k) : b[c] = s

\* Faulty variant: the second diagonal is forgotten.
CheckSevenLines(b) ==
  LET won == {k \in 1 .. 7 : Complete(b, k)}
  IN  IF won = {} THEN "none"
      ELSE b[CHOOSE c \in Line(CHOOSE k \in won : \A j \in won : k <= j) : TRUE]

\* check(): the owner of the first complete line.
Check(b) ==
  LET won == {k \in 1 .. 8 : Complete(b, k)}
  IN  IF won = {} THEN "none"
      ELSE b[CHOOSE c \in Line(CHOOSE k \in won : \A j \in won : k <= j) : TRUE]

Full(b) == \A c \in Cell : b[c] # "none"
Free(b) == {c \in Cell : b[c] = "none"}
Drawn(b) == Check(b) = "none" /\ Full(b)
Marked(c, s) == [points EXCEPT ![c] = s]

Init == points = Empty /\ alert = "none"

-----------------------------------------------------------------------------
CanTap(c) == alert = "none" /\ points[c] = "none"

PlayerWins(c) ==
  /\ CanTap(c)
  /\ Check(Marked(c, "player")) = "player"
  /\ points' = Marked(c, "player") /\ alert' = "won"

PlayerDraws(c) ==
  /\ CanTap(c)
  /\ Drawn(Marked(c, "player"))
  /\ points' = Marked(c, "player") /\ alert' = "drawn"

\* Faulty variant: the game goes on after a defeat.
CompAnswersOnly(c, d) ==
  /\ CanTap(c)
  /\ Check(Marked(c, "player")) # "player" /\ ~Drawn(Marked(c, "player"))
  /\ d \in Free(Marked(c, "player"))
  /\ points' = [Marked(c, "player") EXCEPT ![d] = "comp"]
  /\ alert' = IF Drawn(points') THEN "drawn" ELSE "none"

\* The computer's mark goes to any free cell: the loop draws cells at random
\* until it hits one.
CompAnswers(c, d) ==
  /\ CanTap(c)
  /\ Check(Marked(c, "player")) # "player" /\ ~Drawn(Marked(c, "player"))
  /\ d \in Free(Marked(c, "player"))
  /\ points' = [Marked(c, "player") EXCEPT ![d] = "comp"]
  /\ alert' = IF Check(points') = "comp" THEN "lost"
              ELSE IF Drawn(points') THEN "drawn" ELSE "none"

\* The restart button, or the button of the alert: all cells are displayed anew.
Restart == points' = Empty /\ alert' = "none"

Next ==
  \/ \E c \in Cell : PlayerWins(c) \/ PlayerDraws(c)
  \/ \E c, d \in Cell : CompAnswers(c, d)
  \/ Restart

Spec == Init /\ [][Next]_vars

-----------------------------------------------------------------------------
(* Properties.                                                             *)

\* Every cell has a status and the alert is one of those the handlers present.
TypeOK == /\ points \in Board
          /\ alert \in {"none", "won", "lost", "drawn"}

\* The random search for the computer's cell ends: whenever the player may tap
\* a cell and that tap does not end the game, a free cell is left.
SearchEnds ==
  \A c \in Cell : CanTap(c) =>
    \/ Check(Marked(c, "player")) = "player"
    \/ Drawn(Marked(c, "player"))
    \/ Free(Marked(c, "player")) # {}

\* Play goes on only on a board where nobody has three in a row and a cell is
\* free: the handler, which looks for the end of the game after each of its two
\* marks, never misses it.
OpenBoardIsUndecided ==
  alert = "none" => Check(points) = "none" /\ Free(points) # {}

\* Three different cells on one straight line of the board.
Straight(l) ==
  /\ Cardinality(l) = 3
  /\ \/ \A c, d \in l : c[1] = d[1]
     \/ \A c, d \in l : c[2] = d[2]
     \/ \A c \in l : c[1] = c[2]
     \/ \A c \in l : c[1] + c[2] = 2

\* check() names the one side that holds a straight line, and nobody if none
\* does; two sides never hold one at a time.
CheckIsRight ==
  \A s \in {"player", "comp"} :
    Check(points) = s <=> \E l \in SUBSET {c \in Cell : points[c] = s} : Straight(l)
=============================================================================
