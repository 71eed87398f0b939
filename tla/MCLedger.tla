------------------------------ MODULE MCLedger ------------------------------
(***************************************************************************)
(* Instances of Ledger for TLC: the statements of the SCIM story that      *)
(* docs/SPEC.md tells, and the ones that bring out each rule.              *)
(***************************************************************************)
EXTENDS Ledger, TLC

Says(stance) == [Blank EXCEPT !.stance = stance]

Base == [subject |-> "acme:scim", type |-> "decision", stage |-> "product", role |-> "product",
         speculative |-> FALSE, ts |-> 1, author |-> "sam", corrects |-> FALSE, conf |-> 90,
         newcap |-> FALSE, attrs |-> Says("required")]

\* The customer's requirement, sales' restatement of it, engineering's progress.
CustomerRequires == [Base EXCEPT !.stage = "sales", !.role = "customer", !.author = None]
SalesSaysDropped == [Base EXCEPT !.stage = "sales", !.role = "sales", !.ts = 3, !.author = "joe",
                                 !.attrs = Says("dropped")]
EngInProgress == [Base EXCEPT !.stage = "engineering", !.role = "engineering", !.ts = 3,
                              !.author = "eve", !.attrs = Says("in_progress")]

\* One product manager's successive decisions, and another's, who also corrects.
SamRequires == Base
SamDefers == [Base EXCEPT !.ts = 2, !.attrs = Says("deferred")]
SamRequiresAgain == [Base EXCEPT !.ts = 3]
SamMaybeDrops == [Base EXCEPT !.ts = 3, !.conf = 50, !.attrs = Says("dropped")]
PatDefers == [Base EXCEPT !.ts = 3, !.author = "pat", !.attrs = Says("deferred")]
PatCorrects == [PatDefers EXCEPT !.corrects = TRUE]

\* A statement that takes no stance, one of another type, one on another subject.
SamMentions == [Base EXCEPT !.ts = 2, !.attrs = Blank]
CustomerQuestion == [CustomerRequires EXCEPT !.type = "question", !.ts = 2]
OtherSubject == [SamDefers EXCEPT !.subject = "acme:sso", !.newcap = TRUE]

Story == {CustomerRequires, SamDefers, EngInProgress}
Chain == {SamRequires, SamDefers, SamRequiresAgain}
AllItems == {CustomerRequires, SalesSaysDropped, EngInProgress, SamRequires, SamDefers,
             SamRequiresAgain, SamMaybeDrops, PatDefers, PatCorrects, SamMentions,
             CustomerQuestion, OtherSubject}
ReviewItems == {CustomerRequires, SamDefers, EngInProgress, PatDefers, SamMaybeDrops, SamMentions}

\* A reviewer changes a stance.
StancePatches == {[stance |-> "deferred"]}

Symmetry == Permutations(Objects)
=============================================================================
