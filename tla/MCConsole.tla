------------------------------- MODULE MCConsole -------------------------------
(* Instances of Console for TLC. *)
EXTENDS Console, FiniteSets

CONSTANT MaxInk   \* how many cells of the three grids may be filled at a time

MCTexts == {<< "a", NL >>}
MCNotes == {<< "a" >>}
MCFull == << "a" >>

Ink(g) == Cardinality({p \in Ys \X Xs : g[p[1]][p[2]] # SP})

InkBound == Ink(video) + Ink(back[0]) + Ink(back[1]) <= MaxInk
=============================================================================
