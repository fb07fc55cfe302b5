------------------------------ MODULE MCSudoku ------------------------------
(* Five lines for SudokuMain, on boards of four by four: one solution that *)
(* is found after twelve dead ends, two solutions, none, a full board, and *)
(* a line that is no board.                                                *)
EXTENDS SudokuMain

FiveLines ==
  << <<0, 0, 0, 0,  0, 0, 4, 2,  2, 0, 1, 3,  0, 3, 2, 4>>,
     <<0, 0, 0, 0,  0, 0, 3, 4,  4, 3, 1, 2,  0, 0, 4, 3>>,
     <<0, 3, 0, 0,  0, 1, 4, 3,  1, 2, 0, 4,  0, 0, 3, 2>>,
     <<1, 2, 3, 4,  3, 4, 1, 2,  2, 1, 4, 3,  4, 3, 2, 1>>,
     <<1, 2, 3>> >>
=============================================================================
