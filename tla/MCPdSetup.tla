------------------------------ MODULE MCPdSetup ------------------------------
(***************************************************************************)
(* Accounts and argument lists for TLC.                                    *)
(***************************************************************************)
EXTENDS PdSetupProperties

LOCAL INSTANCE SequencesExt

CONSTANTS portal, records  \* two service names

MCServices == <<portal, records>>
MCNames == {portal, records}

\* An account nobody has set up.
Empty(advanced, intelligent) ==
  [named |-> [k \in Kinds |-> "absent"],
   member |-> [p \in People |-> "absent"],
   rule |-> [p \in People |-> "missing"],
   svc |-> [i \in SvcIds |-> NoService],
   grp |-> [g \in GrpIds |-> [type |-> "other", members |-> {}]],
   supports |-> {}, advanced |-> advanced, intelligent |-> intelligent,
   ready |-> TRUE]

\* The account as a clean run leaves it.
Complete(advanced, intelligent, orch) ==
  LET ids == SetToSeq(SvcIds)
      sets == SetToSeq(GrpIds)
      at(i) == {j \in 1..ServiceCount : ids[j] = i}
  IN  [Empty(advanced, intelligent) EXCEPT
        !.named = [k \in Kinds |-> "match"],
        !.member = [p \in People |-> "manager"],
        !.rule = [p \in People |-> "designed"],
        !.svc = [i \in SvcIds |->
                   IF at(i) = {} THEN NoService
                   ELSE [name |-> Services[CHOOSE j \in at(i) : TRUE],
                         fields |-> "match", integ |-> TRUE, orch |-> orch,
                         active |-> TRUE]],
        !.grp = [g \in GrpIds |->
                   IF \E j \in 1..ServiceCount : sets[j] = g
                   THEN [type |-> IF intelligent THEN "intelligent" ELSE "time",
                         members |-> {ids[CHOOSE j \in 1..ServiceCount : sets[j] = g]}]
                   ELSE [type |-> "other", members |-> {}]],
        !.supports = {ids[j] : j \in 1..ServiceCount}]

\* New accounts, with and without the two add-ons.
FreshAccounts == {Empty(a, i) : a \in BOOLEAN, i \in BOOLEAN}

\* Accounts set up before: with the titles, or from before there were any.
BuiltAccounts == {Complete(TRUE, i, "design") : i \in BOOLEAN}
                 \cup {Complete(a, TRUE, "severity") : a \in BOOLEAN}

\* The built account, all its services in one setting, not as designed.
Shared(type) ==
  LET a == Complete(TRUE, FALSE, "design")
      sets == SetToSeq(GrpIds)
  IN  [a EXCEPT !.grp = [g \in GrpIds |->
        IF g = sets[1] THEN [type |-> type, members |-> a.supports]
        ELSE [type |-> "other", members |-> {}]]]
AllAccounts == FreshAccounts \cup BuiltAccounts
SharedToo == AllAccounts \cup {Shared("other")}

\* Fewer, for runs with a person about: one account of each kind set up before.
FewBuilt == FreshAccounts \cup {Complete(TRUE, FALSE, "design"), Complete(FALSE, TRUE, "severity"), Shared("other")}

Mode(apply, addRules, retry) ==
  [apply |-> apply, addRules |-> addRules, retry |-> retry]

ApplyOnly == {Mode(TRUE, FALSE, FALSE)}
DryAndApply == {Mode(a, FALSE, FALSE) : a \in BOOLEAN}
AllModes == {Mode(a, r, t) : a \in BOOLEAN, r \in BOOLEAN, t \in BOOLEAN}
=============================================================================
