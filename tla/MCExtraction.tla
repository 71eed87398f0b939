----------------------------- MODULE MCExtraction -----------------------------
(* Instances of Extraction for TLC. *)
EXTENDS Extraction, TLC

\* Two sections of one document with the same text, each with its own heading.
OneText == [s \in Sources |-> "text"]
OneDocument == [s \in Sources |-> "postmortem"]

It(name, cap, inc, quoted) ==
    [name |-> name, cap |-> cap, inc |-> inc, quoted |-> quoted, sure |-> TRUE]

\* "Initech" is near "Initechs" and alike "Iniitech"; "INITECH Inc." normalizes to it.
InitechNames == {"Initech", "Initechs", "Iniitech", "INITECH Inc."}
Normal == ("Initech" :> "initech") @@ ("Initechs" :> "initechs")
            @@ ("Iniitech" :> "iniitech") @@ ("INITECH Inc." :> "initech")
Slugs == [Normal EXCEPT !["INITECH Inc."] = "initech-inc"]
Both(pairs) == pairs \cup {<<p[2], p[1]>> : p \in pairs}
AlikePairs == Both({<<"provisioning", "provisioning_">>, <<"initech", "iniitech">>})
NearPairs == Both({<<"initech", "initechs">>})

\* The two answers name the same things in opposite orders.  A source may be answered
\* with the other's: the text is the same, and the cache may hold it.  One has an item
\* whose quote is not in the text, the other a name with a typing error.
OneWay == << It("Initech", "incident", "INC", TRUE), It("Iniitech", "incident", None, FALSE),
             It("Initechs", "audit_log", None, TRUE) >>
OtherWay == << It("Initechs", "audit_log", None, TRUE),
               It("INITECH Inc.", "provisioning_", None, TRUE),
               [It("Iniitech", "incident", "INC", TRUE) EXCEPT !.sure = FALSE] >>

CONSTANTS s1, s2
OppositeAnswers == (s1 :> {OneWay}) @@ (s2 :> {OtherWay})

SomeCaps == {"incident", "provisioning", "provisioning_", "audit_log"}
Confirmed12 == {"incident", "provisioning"}
InitechDirectory == {[slug |-> "initech", aliases |-> {"initech"}],
                     [slug |-> "initechs", aliases |-> {"initechs"}]}
=============================================================================
