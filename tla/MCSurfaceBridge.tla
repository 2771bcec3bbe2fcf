-------------------------- MODULE MCSurfaceBridge --------------------------
EXTENDS SurfaceBridge, TLC

MCDrawings == {<<Draw("push"), Draw("fill"), Draw("pop")>>}

\* Two batches and a failing frame, or three batches and none.
MCBudget == nextSeq - 1 + failures <= MaxBatches

MCSymmetry == Permutations(Threads) \cup Permutations(Panes)
=============================================================================
