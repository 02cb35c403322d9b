----------------------------- MODULE MCLibrary -----------------------------
(* Small arguments for the model of the library. *)
EXTENDS Library

(* Words at the ends of the range, around powers of ten and of two. *)
Words ==
  {ToWord(s * n + d) : n \in {0, 10, 100, 1000, 10000, 255, 4096, 20000, 30000, 32767},
                       s \in {-1, 1}, d \in -2 .. 2}

FewWords == {-32768, -10000, -100, -1, 0, 7, 10, 32767}

(* Codes of up to five symbols; and longer ones: three levels of tables,   *)
(* two tables of the second level, a fixed code of the distances.          *)
Lens ==
  UNION {[1 .. n -> 0 .. 4] : n \in 1 .. 5}
    \cup {<<7, 6, 5, 4, 3, 2, 1, 7>>, <<2, 3, 2, 3, 3, 3>>, <<4, 4, 3, 4, 2, 3, 0, 4, 2>>,
          [i \in 1 .. 6 |-> 3]}
=============================================================================
