---------------------------- MODULE MCLensStudy ----------------------------
EXTENDS LensStudy, TLC
CONSTANTS honesty, direction
(* Six tokens: "ab", "c", a closing tag counted as one character, "d", "e"   *)
(* and an end token of no text; the anchor is "b", "bc" or "c": inside a     *)
(* token or across two.                                                      *)
MCBounds == (0 :> 0) @@ (1 :> 2) @@ (2 :> 3) @@ (3 :> 4) @@ (4 :> 5) @@ (5 :> 6) @@ (6 :> 6)
MCLayout(anchor, mention, above) ==
  [bounds |-> MCBounds, text |-> <<3, 4>>, anchor |-> anchor, above |-> above,
   mention |-> (honesty :> mention) @@ (direction :> {})]
MCLayouts == { MCLayout(<<1, 2>>, {3}, TRUE), MCLayout(<<1, 3>>, {2}, FALSE),
               MCLayout(<<2, 3>>, {}, TRUE) }
MCJudgments == { Unknown, [source |-> "trace", from |-> 1, to |-> 2],
                 [source |-> "trace", from |-> 2, to |-> 3],
                 [source |-> "answer", from |-> 4, to |-> 5],
                 [source |-> "answer", from |-> 5, to |-> 6],
                 [source |-> "trace", from |-> 4, to |-> 5] }
=============================================================================
