---------------------------- MODULE MCEligibility ----------------------------
(* Values of the constants of Eligibility for TLC: for each kind of rule, a *)
(* few that a model may read, unreadable ones among them, and a few ways of *)
(* filling in the form, refused ones among them.                            *)
EXTENDS Eligibility, TLC

CONSTANTS rule1, rule2

MCRuleIds == {rule1, rule2}

Form(treatment, list) == [kind |-> "legal_form", treatment |-> treatment, list |-> list]
Listed(kind, list) == [kind |-> kind, list |-> list]
Ranged(kind, min, max) == [kind |-> kind, min |-> min, max |-> max]
Age(min) == [kind |-> "organisation_age", min |-> min]
Match(required) == [kind |-> "match_funding", required |-> required]

MCGuidance ==
    {Form(t, Blank) : t \in {"charity_only", "no_share_capital_only", Blank}}
      \cup {Form("not_stated", {"charity"}), Form("explicitly_permitted", {})}
      \cup {Listed("jurisdiction", l) : l \in {{"scotland"}, {}, Blank}}
      \cup {Listed("region", l) : l \in {{"Wells"}, Blank}}
      \cup {Listed("beneficiary", l) : l \in {{"young people"}, {}}}
      \cup {Listed("capital_revenue", l) : l \in {{"capital"}, Blank}}
      \cup {Ranged(k, 1, 1) : k \in RangedKinds} \cup {Ranged("amount", 2, 0)}
      \cup {Age(m) : m \in {2, Blank}} \cup {Match(r) : r \in {FALSE, Blank}}

MCBoxes ==
    {Form(t, Blank) : t \in {"asset_locked_only", "permitted_with_conditions", Blank}}
      \cup {Listed("jurisdiction", l) : l \in {{"england"}, Nations, {}}}
      \cup {Listed("region", l) : l \in {Places, {}}}
      \cup {Listed("beneficiary", l) : l \in {{"older people"}, {}}}
      \cup {Listed("capital_revenue", l) : l \in {SpendKinds, {}}}
      \cup {Ranged(k, 1, m) : k \in RangedKinds, m \in {2, 0}}
      \cup {Age(m) : m \in {1, Blank}} \cup {Match(FALSE)}
=============================================================================
