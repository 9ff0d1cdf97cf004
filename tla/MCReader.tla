------------------------------ MODULE MCReader ------------------------------
(* Short texts for Reader: they begin with a fence, and go on for at most one *)
(* line after the code has stopped being Python.                              *)
EXTENDS Reader
Worthwhile == /\ text # << >> => text[1] \in Fences
              /\ code # << >> => Parse(SubSeq(code, 1, Len(code) - 1), 0).at # "bad"
=============================================================================
