----------------------------- MODULE MCSharing -----------------------------
(* One User logs every Expense; the others read and Like them.             *)
EXTENDS Sharing, TLC

OneOwner == [e \in Expense |-> CHOOSE u \in User : TRUE]
SlotSymmetry == Permutations(Slot)
=============================================================================
