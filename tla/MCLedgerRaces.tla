---------------------------- MODULE MCLedgerRaces ----------------------------
(* Instances of LedgerRaces for TLC, over the statements of MCLedger. *)
EXTENDS LedgerRaces, TLC

MC == INSTANCE MCLedger

\* Two stages that contradict each other, another's agreement, and another subject.
RaceItems == {MC!SamDefers, MC!EngInProgress, MC!PatDefers, MC!OtherSubject}
RaceSymmetry == Permutations(Objects) \cup Permutations(Workers) \cup Permutations(Requests)
StancePatches == MC!StancePatches
ReviewItems == MC!ReviewItems
=============================================================================
