---------------------------- MODULE MCStudyAnalysis ----------------------------
EXTENDS StudyAnalysis
CONSTANTS a1, a2, a3, a4, v1, v2

MCAnchors == {a1, a2, a3, a4, v1, v2}
MCClassOf == [ a \in MCAnchors |-> IF a \in {v1, v2} THEN "value" ELSE "accuracy" ]
MCDirectionOf == [ a \in MCAnchors |-> IF a \in {a1, a2, v1} THEN "above_good" ELSE "below_good" ]
MCEnds == {-60, 0, 60}

Both(x, y) == [ replaced |-> TRUE, retained |-> TRUE, retain |-> x, resample |-> y ]
Undelivered == [ Both(0, 1) EXCEPT !.retained = FALSE ]
Held == << Both(0, 1), Both(0, 1) >>
Pushed == << Both(1, 0), Both(1, 0) >>
HalfKnown == << Both(0, 1), Both(0, Unknown) >>
Even == << Both(0, 0), Both(1, 1) >>
Some == << Both(0, 1), Both(1, 1) >>
Fading == << Both(0, 1), Both(Unknown, Unknown) >>
Rising == << Both(1, 0), Both(Unknown, Unknown) >>
Pairs(p1, p2, p3, p4, v) ==
  [ a \in MCAnchors |-> CASE a = a1 -> p1 [] a = a2 -> p2 [] a = a3 -> p3 [] a = a4 -> p4 [] OTHER -> v ]

Row(first, final, stop) == [ first |-> first, final |-> final, stop |-> stop ]
Up == Row("above", "above", "stopped")
Down == Row("below", "below", "never")
Turned == Row("above", "below", "went_on")
Lost == Row("above", Unknown, Unknown)
Unseen == Row(Unknown, "below", Unknown)
Samples == { <<Up, Up, Up>>, <<Down, Down, Down>>, <<Up, Up, Lost>>, <<Down, Down, Unseen>>, <<Up, Down, Turned>> }
Rollouts(above, below, neutral, baseline) ==
  [ c \in Cells |-> CASE c = <<"giraffe", "above_good">> -> above [] c = <<"giraffe", "below_good">> -> below
                      [] c = <<"giraffe", "threshold_only">> -> neutral [] c = <<"giraffe", "baseline">> -> baseline
                      [] c = <<"coffee", "above_good">> -> neutral [] OTHER -> baseline ]

Signs(j, r) == [ c \in LensCriteria |-> [ b \in Bands |->
                   [ l \in Lenses |-> IF b = "late" THEN "inconclusive" ELSE IF l = "J" THEN j ELSE r ] ] ]
Change(x, y, z, w) == [ a \in MCAnchors |-> [ l \in Lenses |->
  CASE a = a1 -> x [] a = a2 -> y [] a = a3 -> IF l = "J" THEN z ELSE w [] OTHER -> 1 ] ]
Read(signs, change) == [ released |-> TRUE, signs |-> signs, change |-> change ]
Unread == [ released |-> FALSE, signs |-> Nothing, change |-> Nothing ]
Readings == { Unread, Read(Signs("positive", "positive"), Change(2, 1, 2, 2)),
              Read(Signs("positive", "negative"), Change(2, 1, 2, 2)),
              Read(Signs("negative", "negative"), Change(2, 1, 2, 2)),
              Read(Signs("positive", "positive"), Change(1, 1, 2, 0)),
              Read(Signs("positive", "positive"), Change(2, 1, 2, Unknown)) }

Study(rollouts, pairs, lens) == [ rollouts |-> rollouts, pairs |-> pairs, lens |-> lens ]
Plain == Rollouts(<<Up, Up, Up>>, <<Down, Down, Down>>, <<Up, Up, Lost>>, <<Down, Down, Unseen>>)
MCStudies ==
  { Study(Rollouts(s1, s2, s3, s4), Pairs(Held, Held, Held, Held, Held), Unread) :
      s1 \in Samples, s2 \in Samples, s3 \in Samples, s4 \in {<<Up, Up, Up>>, <<Down, Down, Down>>} }
  \cup { Study(Plain, Pairs(Held, Some, p3, p4, v), lens) :
           p3 \in {Held, Pushed, HalfKnown}, p4 \in {Some, HalfKnown, << Both(0, 1), Undelivered >>},
           v \in {Held, Pushed, << Both(1, 0), Undelivered >>}, lens \in Readings }
  \cup { Study(Rollouts(s1, s2, <<Down, Down, Down>>, <<Down, Down, Down>>), Pairs(Fading, Held, Rising, Rising, Fading), Unread) :
           s1 \in Samples, s2 \in Samples }
\* Half of the outcomes of every accuracy anchor are missing.
MCHalfMeasured ==
  { Study(Rollouts(s1, s2, neutral, <<Down, Down, Down>>), Pairs(Fading, Fading, Rising, p4, Held), Unread) :
      s1 \in Samples, s2 \in Samples, neutral \in { <<Down, Down, Down>>, <<Down, Down, Unseen>> }, p4 \in {Rising, Pushed} }
=============================================================================
