---------------------------- MODULE SudokuSolver ----------------------------
(***************************************************************************)
(* The backtracking solver of Lab 1 (src/Lab1/src/sudoku_basic.h) and the  *)
(* two conversions around it (src/Lab1/src/main.cc).  A line is a sequence *)
(* of digits, 0 for an empty cell, and a board a function of its cells.    *)
(* The side of a box is a parameter, 3 in the program.                     *)
(***************************************************************************)
EXTENDS Integers, Sequences, FiniteSets

CONSTANT Box   \* the side of a box

ASSUME BoxAssumption == Box \in Nat \ {0}

Dim    == Box * Box
Cells  == (0..Dim - 1) \X (0..Dim - 1)
Boards == [Cells -> 0..Dim]

\* deserialize_board() asserts the length of a line and its digits.
IsBoard(line) == Len(line) = Dim * Dim /\ \A i \in 1..Len(line) : line[i] \in 0..Dim

deserialize_board(line) == [p \in Cells |-> line[p[1] * Dim + p[2] + 1]]

serialize_board(b) == [i \in 1..Dim * Dim |-> b[<<(i - 1) \div Dim, (i - 1) % Dim>>]]

\* box_start_r and box_start_c: where the box of a row or column begins
BoxStart(n) == n - (n % Box)

\* Mutant: the box is found by the remainder of the row alone.
is_safeWrongBox(b, p, v) ==
  /\ \A col \in 0..Dim - 1 : b[<<p[1], col>>] # v
  /\ \A row \in 0..Dim - 1 : b[<<row, p[2]>>] # v
  /\ \A row, col \in 0..Box - 1 :
       b[<<row + BoxStart(p[1]), col + BoxStart(p[1])>>] # v

\* v is in neither the row, the column nor the box of p.
is_safe(b, p, v) ==
  /\ \A col \in 0..Dim - 1 : b[<<p[1], col>>] # v
  /\ \A row \in 0..Dim - 1 : b[<<row, p[2]>>] # v
  /\ \A row, col \in 0..Box - 1 :
       b[<<row + BoxStart(p[1]), col + BoxStart(p[2])>>] # v

\* The first empty cell, row by row; <<Dim, Dim>> stands for none.
Nowhere == <<Dim, Dim>>
get_unassigned_location(b) ==
  LET empty == {p \in Cells : b[p] = 0}
  IN IF empty = {} THEN Nowhere
     ELSE CHOOSE p \in empty : \A q \in empty : p[1] * Dim + p[2] <= q[1] * Dim + q[2]

\* The loop of solve_sudoku_basic() at board b from value v on: whether it
\* returns true, and the board it leaves, its cell reset after each failure.
Search[s \in Boards \X (1..Dim + 1)] ==
  LET b == s[1]
      v == s[2]
      p == get_unassigned_location(b)
  IN CASE p = Nowhere -> [solved |-> TRUE, board |-> b]
       [] p # Nowhere /\ v > Dim -> [solved |-> FALSE, board |-> b]
       [] OTHER ->
            IF ~is_safe(b, p, v) THEN Search[<<b, v + 1>>]
            ELSE LET deeper == Search[<<[b EXCEPT ![p] = v], 1>>]
                 IN IF deeper.solved THEN deeper
                    ELSE Search[<<[deeper.board EXCEPT ![p] = 0], v + 1>>]

\* What the task of main() returns for a line: the solved board as a line, or
\* the empty string.
Answer(line) ==
  LET r == Search[<<deserialize_board(line), 1>>]
  IN IF r.solved THEN serialize_board(r.board) ELSE <<>>

-----------------------------------------------------------------------------
(* The reference: what a solution is, without the search.                  *)

\* Two cells that may not hold the same digit.
Rivals(p, q) ==
  p # q /\ (\/ p[1] = q[1] \/ p[2] = q[2]
            \/ p[1] \div Box = q[1] \div Box /\ p[2] \div Box = q[2] \div Box)

\* The ways to fill the empty cells of a line so that no rivals agree.
Solutions(line) ==
  LET b == deserialize_board(line)
      empty == {p \in Cells : b[p] = 0}
      Filled(f) == [p \in Cells |-> IF p \in empty THEN f[p] ELSE b[p]]
  IN {serialize_board(Filled(f)) :
        f \in {g \in [empty -> 1..Dim] :
                 \A p, q \in Cells : Rivals(p, q) => Filled(g)[p] # Filled(g)[q]}}

\* The clues of a line do not contradict each other.
Consistent(line) ==
  LET b == deserialize_board(line)
  IN \A p, q \in Cells : Rivals(p, q) /\ b[p] # 0 => b[p] # b[q]
=============================================================================
