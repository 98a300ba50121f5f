---------------------------- MODULE ChainReaction ----------------------------
(***************************************************************************)
(* The game of software/spu32-system/apps/chainreaction/chainreaction.c:    *)
(* two players put atoms on a field; a cell with as many atoms as           *)
(* neighbours explodes into them.  One action is a move, the others are the *)
(* steps of the reaction, cell by cell.                                     *)
(***************************************************************************)
EXTENDS Integers, FiniteSets, FiniteSetsExt

CONSTANTS MAXX, MAXY,      \* last column and last row, 5 and 4
          Machine          \* whether player 2 is the machine

VARIABLES f,               \* the field: owner and atoms of each cell
          ki,              \* player 2 is the machine
          player,          \* whose turn it is
          playerplayed,    \* the players that have moved
          phase,           \* "move", "react", "over"
          winner,          \* 0, 1 or 2
          pass             \* the pass of the reaction: next cell, owners met,
                           \* and whether it found nothing to explode

vars == <<f, ki, player, playerplayed, phase, winner, pass>>

Cells == (0 .. MAXX) \X (0 .. MAXY)
Empty == [owner |-> 0, atoms |-> 0]
Other(p) == 3 - p
\* The order of the loops: columns, and in each the rows.
Count == (MAXX + 1) * (MAXY + 1)
Nth(i) == <<i \div (MAXY + 1), i % (MAXY + 1)>>

Near(c) == {n \in Cells : \/ n[1] = c[1] /\ n[2] - c[2] \in {-1, 1}
                          \/ n[2] = c[2] /\ n[1] - c[1] \in {-1, 1}}
getCapacity(c) == 3 - (IF c[1] \in {0, MAXX} THEN 1 ELSE 0)
                    - (IF c[2] \in {0, MAXY} THEN 1 ELSE 0)
Owned(g, p) == {c \in Cells : g[c].owner = p}
getOwnerCount(g, p) == MapThenSumSet(LAMBDA c : g[c].atoms, Owned(g, p))

\* One more atom; a cell holds four at most.
Gains(cell, p) == [owner |-> p, atoms |-> IF cell.atoms < 4 THEN cell.atoms + 1 ELSE 4]
putAtom(g, p, c) ==
  IF g[c].owner \in {0, p} THEN [g EXCEPT ![c] = Gains(@, p)] ELSE g

spreadAtoms_Keeping(g, c) ==
  [n \in Cells |-> IF n = c THEN Empty
                   ELSE IF n \in Near(c)
                   THEN Gains(g[n], IF g[n].owner = 0 THEN g[c].owner ELSE g[n].owner)
                   ELSE g[n]]
spreadAtoms(g, c) ==
  [n \in Cells |-> IF n = c THEN Empty
                   ELSE IF n \in Near(c) THEN Gains(g[n], g[c].owner) ELSE g[n]]

\* One cell of a pass over the field, on the record of f and the pass so far.
Start == [at |-> 0, stable |-> TRUE, players |-> {}]
Visit(g, a) ==
  LET c == Nth(a.at)
      explodes == g[c].atoms > getCapacity(c)
  IN [f |-> IF explodes THEN spreadAtoms(g, c) ELSE g,
      pass |-> [at |-> a.at + 1, stable |-> a.stable /\ ~explodes,
                players |-> a.players \cup ({g[c].owner} \ {0})]]
\* With one player left there is no need for further reaction.
Ends(a) == a.stable \/ a.players # {1, 2}

\* The whole reaction at once, as the machine tries its moves.
Fields == [Cells -> [owner : 0 .. 2, atoms : 0 .. 4]]
Passes == [at : 0 .. Count, stable : BOOLEAN, players : SUBSET {1, 2}]
react(field, start) ==
  LET rest[s \in [f : Fields, pass : Passes]] ==
        IF s.pass.at < Count THEN rest[Visit(s.f, s.pass)]
        ELSE IF Ends(s.pass) THEN s.f ELSE rest[[f |-> s.f, pass |-> Start]]
  IN rest[[f |-> field, pass |-> start]]
-----------------------------------------------------------------------------
(* The machine. *)

isCritical(g, c) == g[c].atoms = getCapacity(c)
computeDanger(g, p, c) == Cardinality({n \in Near(c) : g[n].owner # p /\ isCritical(g, n)})
countEndangered(g, p) == Cardinality({c \in Owned(g, p) : computeDanger(g, p, c) > 0})

evaluateField(g, p) ==
  MapThenSumSet(LAMBDA c : 4 - getCapacity(c) + (IF isCritical(g, c) THEN 1 ELSE 0),
                Owned(g, p))
  - 2 * countEndangered(g, p) + countEndangered(g, Other(p))
  + (IF Owned(g, Other(p)) = {} THEN 1000 ELSE 0)

Usable(p) == {c \in Cells : f[c].owner \in {0, p}}
\* The moves it may choose: of the best ones any, by a throw of the dice.
thinkAI ==
  LET score == [c \in Usable(2) |->
                  evaluateField(react(putAtom(f, 2, c), Start), 2)
                  - (IF computeDanger(f, 2, c) > 0 /\ ~isCritical(f, c) THEN 10 ELSE 0)]
  IN {c \in Usable(2) : \A d \in Usable(2) : score[d] <= score[c]}
-----------------------------------------------------------------------------
Init ==
  /\ f = [c \in Cells |-> Empty] /\ ki \in Machine /\ player = 1
  /\ playerplayed = {} /\ phase = "move" /\ winner = 0
  /\ pass = Start

\* readPlayerMove refuses a cell of the other player, and asks again.
Move(c) ==
  /\ phase = "move" /\ c \in IF ki /\ player = 2 THEN thinkAI ELSE Usable(player)
  /\ f' = putAtom(f, player, c) /\ playerplayed' = playerplayed \cup {player}
  /\ phase' = "react" /\ pass' = Start /\ UNCHANGED <<ki, player, winner>>

checkWinner(g, played) ==
  CASE 1 \in played /\ getOwnerCount(g, 1) = 0 -> 2
    [] 2 \in played /\ getOwnerCount(g, 2) = 0 -> 1
    [] OTHER -> 0

React ==
  /\ phase = "react" /\ pass.at < Count
  /\ LET v == Visit(f, pass) IN f' = v.f /\ pass' = v.pass
  /\ UNCHANGED <<ki, player, playerplayed, phase, winner>>

Again ==
  /\ phase = "react" /\ pass.at = Count /\ ~Ends(pass)
  /\ pass' = Start /\ UNCHANGED <<f, ki, player, playerplayed, phase, winner>>

Done ==
  /\ phase = "react" /\ pass.at = Count /\ Ends(pass)
  /\ winner' = checkWinner(f, playerplayed)
  /\ IF winner' = 0 THEN phase' = "move" /\ player' = Other(player)
     ELSE phase' = "over" /\ UNCHANGED player
  /\ pass' = Start /\ UNCHANGED <<f, ki, playerplayed>>

\* gamemenu: the next game, or the end of the program.
Over ==
  /\ phase = "over"
  /\ \/ UNCHANGED vars
     \/ /\ f' = [c \in Cells |-> Empty] /\ ki' \in Machine /\ player' = 1
        /\ playerplayed' = {} /\ phase' = "move" /\ winner' = 0 /\ UNCHANGED pass

Next == React \/ Again \/ Done \/ Over \/ \E c \in Cells : Move(c)
Spec == Init /\ [][Next]_vars /\ WF_vars(React \/ Again \/ Done)
-----------------------------------------------------------------------------
\* A turn begins on a field at rest, on which the player whose turn it is has
\* a cell to choose: the machine always finds a move.
TurnPossible ==
  phase = "move" =>
    /\ Usable(player) # {}
    /\ \A c \in Cells : f[c].atoms <= getCapacity(c) /\ (f[c].owner = 0) = (f[c].atoms = 0)

\* The game is over when one player has moved and lost all fields, and then
\* only; the winner is the one whose move it was.
WinnerTakesAll ==
  /\ winner # 0 => Owned(f, Other(winner)) = {} /\ Other(winner) \in playerplayed
                   /\ player = winner
  /\ phase = "move" => \A p \in playerplayed : Owned(f, p) # {}

\* Every chain reaction ends, even when no cell can come to rest any more.
TurnEnds == phase = "react" ~> phase # "react"
=============================================================================
