-------------------------- MODULE MCRenameJournal --------------------------
(* Small instances of RenameJournal: a rename carries its last member in a *)
(* moved directory, the others are rewritten where they are.               *)
EXTENDS RenameJournal

MCCarrier == [f \in 1..NFiles |-> IF f = NFiles /\ NMoves > 0 THEN 1 ELSE 0]

=============================================================================
