-------------------------- MODULE MCKanaliSession --------------------------
EXTENDS KanaliSession, TLC

MCSettings == {"media", "rotation"}
MCValues == {1, 2}
MCCompared == {"media"}
MCChanges == {"media" :> 2, "rotation" :> 2, "media" :> 1 @@ "rotation" :> 1}
MCUnfit == {"media" :> 1 @@ "rotation" :> 1}
MCSymmetry == Permutations(Files)
=============================================================================
