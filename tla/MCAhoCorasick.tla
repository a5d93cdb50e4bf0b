---------------------------- MODULE MCAhoCorasick ----------------------------
(***************************************************************************)
(* Rules files over two bytes: every sequence of up to three patterns of   *)
(* up to three bytes, and every sequence of one of four bytes and two of   *)
(* two, deep enough for the order of build's queue to matter.              *)
(***************************************************************************)
EXTENDS AhoCorasick

Words(n) == [1 .. n -> Alphabet]
Short    == UNION {Words(n) : n \in 0 .. 3}
Deep     == Words(4) \X Words(2) \X Words(2)

SmallRuleSets == (UNION {[1 .. n -> Short] : n \in 1 .. 3}) \cup Deep
=============================================================================
