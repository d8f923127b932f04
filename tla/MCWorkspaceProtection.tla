------------------------ MODULE MCWorkspaceProtection ------------------------
EXTENDS WorkspaceProtection

CONSTANTS f1, f2

MCFile == {f1, f2}

Tree(x, y) == [f \in MCFile |-> IF f = f1 THEN x ELSE y]

(* The new f1 passes with either f2, but not without one.                  *)
MCGood == {Tree("new", "old"), Tree("new", "new")}
MCCandidate == MCGood \cup {Tree("old", "old"), Tree("new", "none")}
=============================================================================
