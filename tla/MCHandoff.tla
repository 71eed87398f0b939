----------------------------- MODULE MCHandoff -----------------------------
(***************************************************************************)
(* Instances of Handoff for TLC: the chain sales -> product -> engineering *)
(* over the SSO story of docs/SPEC.md, with the contracts of contracts/    *)
(* reduced to two fields.                                                  *)
(***************************************************************************)
EXTENDS Handoff

SSO == [entity |-> "acme", capability |-> "sso"]

Base == [subject |-> SSO, type |-> "requirement", stage |-> "sales", role |-> "customer",
         speculative |-> FALSE, ts |-> 1, author |-> None, corrects |-> FALSE, conf |-> 90,
         newcap |-> FALSE, attrs |-> Blank]

Dec15 == <<2026, 12, 15>>

\* "We need SAML through Okta by Dec 15", and the account executive's restatement.
CustomerCall == [Base EXCEPT !.attrs.protocol = "SAML", !.attrs.value = "okta",
                             !.attrs.due = Dec15, !.attrs.prec = "day"]
AeEmail == [Base EXCEPT !.role = "sales", !.ts = 2, !.attrs.protocol = "oidc"]

\* The product requirements, without the protocol and with it.
Prd == [Base EXCEPT !.stage = "product", !.role = "product", !.ts = 3, !.author = "pat",
                    !.attrs.value = "okta", !.attrs.prec = "month"]
PrdProtocol == [Prd EXCEPT !.ts = 4, !.attrs.protocol = "SAML"]

\* Engineering's tasks.
Task == [Base EXCEPT !.stage = "engineering", !.role = "engineering", !.ts = 5, !.author = "eve"]
TaskProtocol == [Task EXCEPT !.attrs.protocol = "saml2", !.attrs.due = Dec15]

ChainItems == {CustomerCall, AeEmail, Prd, PrdProtocol, Task, TaskProtocol}

Requirements(slots, min) ==
    [name |-> "requirements", check |-> "propagate", types |-> {"requirement"}, slots |-> slots,
     importance |-> "critical", minAuthority |-> min, rule |-> None]
Evidence ==
    [name |-> "evidence", check |-> "present", types |-> {"requirement"}, slots |-> {},
     importance |-> "high", minAuthority |-> 0, rule |-> "has_derived_from"]

ChainContracts ==
    { [id |-> "sales_to_product", from |-> "sales", to |-> "product",
       fields |-> {Requirements({"protocol", "value", "due"}, 2), Evidence}],
      [id |-> "product_to_engineering", from |-> "product", to |-> "engineering",
       fields |-> {Requirements({"protocol", "value", "due"}, 0)}] }

Wordings == [SAML |-> "saml"]
SamlWordings == {{"saml", "saml2"}}

\* Nothing is edited.
NoPatches == {}

\* Bound: no two statements are worded alike enough for dedup to relate them.  The
\* validator reads no relation that dedup makes.
WordedApart == \A r \in rels : r.by # "dedup"

Symmetry == Permutations(Objects)
=============================================================================
