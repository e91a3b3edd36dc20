------------------------------- MODULE MCBarrier -------------------------------
\* Values of the constants of Barrier that a configuration file cannot write.
EXTENDS Barrier

MCPatterns == {<<"linear", "linear">>, <<"tree", "tree">>, <<"hyper", "hyper">>,
               <<"hierarchical", "hierarchical">>, <<"hyper", "tree">>}
MCTree == {<<"tree", "tree">>}
MCBodies == {<<"plain", "reduce">>, <<"reduce", "reduce_nowait">>}
MCPlain == {<<"plain">>}

\* TreesAssumption holds of larger teams, other branch factors and machines too.
Shape(f, fanout, levels) == INSTANCE Barrier WITH N <- 14, F <- f, A <- fanout, Depth <- levels
ASSUME TreesOfOtherTeams == \A n \in 2 .. 14 :
  /\ \A f \in {2, 3, 4}, p \in PatternNames \ {"hierarchical"} : Shape(f, 2, 6)!TreesSpan(p, p, n)
  /\ \A shape \in {<<2, 6>>, <<3, 4>>, <<4, 4>>, <<14, 2>>} :
       Shape(2, shape[1], shape[2])!TreesSpan("hierarchical", "hierarchical", n)
=============================================================================
