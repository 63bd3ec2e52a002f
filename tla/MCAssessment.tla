---------------------------- MODULE MCAssessment -----------------------------
(***************************************************************************)
(* The small instance of Assessment: two of the three questions about the  *)
(* work, one of them answered by either of two claims; two shared funds,   *)
(* the form of one of them known, and one typed in by hand.                *)
(***************************************************************************)
EXTENDS Assessment

MCWorkClaims == {"mission", "programme_description", "beneficiary_groups"}
MCAnsweredBy == [what |-> {"mission", "programme_description"}, who |-> {"beneficiary_groups"}]
MCForms ==
    [listed |-> [words |-> 1400, questions |-> 6, papers |-> 3, match |-> FALSE, template |-> TRUE],
     catalogued |-> Unseen, typed |-> Unseen]
MCGave == [listed |-> <<5000, 8000, 10000, 12000, 30000>>,
           catalogued |-> <<>>, typed |-> <<10000, 10000, 12000>>]
MCFunds == {"listed", "catalogued", "typed"}
MCShared == {"listed", "catalogued"}
MCJudgements == {{}, {"pass"}, {"pass", "unknown"}, {"fail", "unknown"}}
=============================================================================
