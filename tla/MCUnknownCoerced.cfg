SPECIFICATION RulesSpec
CONSTANTS
    rule1 = rule1
    rule2 = rule2
    RuleIds <- MCRuleIds
    Guidance <- MCGuidance
    Boxes <- MCBoxes
    MaxNumber = 2
    Blank = Blank
INVARIANTS
    UnknownIsNotCoerced
