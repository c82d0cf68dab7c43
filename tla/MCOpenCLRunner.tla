----------------------------- MODULE MCOpenCLRunner -----------------------------
(* A small instance of OpenCLRunner for TLC. *)
EXTENDS OpenCLRunner

CONSTANTS d1, d2, d3

(* No run of two, one, several of the same length, and one of full length. *)
MCPool == {<<0, 1, 2, 0>>, <<1, 1, 0, 0>>, <<2, 1, 1, 1>>}

(* All, one, an order and a repetition, and an index out of range. *)
MCSelections == {<<>>, <<0>>, <<2, 0, 2>>, <<1, 3>>}

(* No driver for a GPU, one platform or two, devices that change places, a
   platform without a GPU and one that fails.                              *)
MCAnswers == {<<>>, <<<<>>>>, <<<<d1>>>>, <<<<d1, d2>>, <<>>, <<d3>>>>,
              <<<<d3, d1>>, <<d2>>>>, <<<<d1>>, Broken>>}
================================================================================
