------------------------------ MODULE Prospects ------------------------------
(***************************************************************************)
(* Who has funded work like this organisation's: the funders page          *)
(* (domain/prospect/match.ts, domain/grants/keywords.ts) and the ranked    *)
(* list of a grant search (domain/grants/funders.ts).  Everything shown is *)
(* computed at each reading from the published awards, what the            *)
(* organisation has said of itself and today's date; those are the state.  *)
(*                                                                         *)
(* A text is the set of the words that occur in it, a label the set of its *)
(* meaningful tokens, a date a count of half months.  Funders are numbered *)
(* in the order of their names.                                            *)
(***************************************************************************)
EXTENDS Giving

CONSTANTS
    Funders,        \* 1 .. n, in the order of their names
    AwardLists,     \* the lists of awards a funder may publish
    Projects,       \* the projects the organisation may describe
    Somewhere,      \* the places it may give: [nation, region]
    Days,           \* the dates the page is opened on
    Nothing         \* no answer

Forever == 100000     \* later than any date: the Infinity of an unknown recency

ASSUME ProspectsAssumption ==
    /\ IsFiniteSet(Funders) /\ Funders = 1 .. Cardinality(Funders)
    /\ \A l \in AwardLists :
           /\ l \in Seq({l[i] : i \in DOMAIN l})
           /\ \A i \in DOMAIN l : l[i].amount \in Nat /\ l[i].on \in Nat
    /\ Days \subseteq 0 .. Forever
    /\ Nothing \notin Int
    /\ \A p \in Projects : p.ask \in Nat \cup {Nothing}

VARIABLES
    published,      \* Funders -> AwardLists: funder_awards
    where,          \* the profile's jurisdiction and region
    project,        \* name and description as words, groups, ask
    today

prospectVars == <<published, where, project, today>>

ProspectsInit ==
    /\ published \in [Funders -> {l \in AwardLists : l = <<>>}]
    /\ where \in Somewhere
    /\ project \in Projects
    /\ today \in Days

-----------------------------------------------------------------------------
(* Words.                                                                  *)

Said(text) == {text[i] : i \in DOMAIN text}
Times(text, w) == Cardinality({i \in DOMAIN text : text[i] = w})
FirstAt(text, w) == CHOOSE i \in DOMAIN text : text[i] = w /\ \A j \in 1 .. i - 1 : text[j] # w

(* The most-used words of a text; of two used as often, the earlier.       *)
UsedMore(text, v, w) ==
    \/ Times(text, v) > Times(text, w)
    \/ Times(text, v) = Times(text, w) /\ FirstAt(text, v) < FirstAt(text, w)
FirstWords(words, text, limit) ==
    {w \in words : Cardinality({v \in words : UsedMore(text, v, w)}) < limit}
WorkWords(text, limit) == FirstWords(Said(text), text, limit)

WorkLimit == 5
Thin == 2

(* The search a person lands on: the words of the project's name, then the *)
(* description's while there is room, then the groups where those say      *)
(* almost nothing, then the region.                                        *)
DefaultSearch ==
    LET name == WorkWords(project.name, 3)
        more == WorkWords(project.text, WorkLimit) \ name
        work == name \cup FirstWords(more, project.text, WorkLimit - Cardinality(name))
    IN  work \cup (IF Cardinality(work) < Thin THEN project.groups ELSE {})
             \cup ({where.region} \ {Nothing})

Texts == UNION {{f} \X DOMAIN published[f] : f \in Funders}

EnoughToJudge == 20

(* The words that narrow anything: those in at most three texts of ten.    *)
Distinctive(words) ==
    LET texts == Cardinality(Texts)
    IN  IF texts < EnoughToJudge THEN words
        ELSE {w \in words :
                10 * Cardinality({t \in Texts : w \in published[t[1]][t[2]].text}) <= 3 * texts}

Words == Distinctive(WorkWords(project.name \o project.text, WorkLimit))

-----------------------------------------------------------------------------
(* One funder against the organisation.                                    *)

DormantAfter == 36
Months(from, to) == (to - from) \div 2

MatchesLabel(a) == a.labels \cap project.groups # {}
MatchesWork(a, words) == Cardinality(a.text \cap words) >= 2
MatchesCause(a, words) == MatchesLabel(a) \/ MatchesWork(a, words)
MatchesRegion(a) == a.region # Nothing /\ where.region # Nothing /\ a.region = where.region
MatchesNation(a) ==
    /\ a.nation # Nothing /\ where.nation # Nothing
    /\ a.nation = "uk_wide" \/ a.nation = where.nation
MatchesArea(a) == MatchesRegion(a) \/ MatchesNation(a)

Tiers == <<"area_and_cause", "cause", "area", "no_overlap", "not_characterised">>
Place(tier) == CHOOSE i \in DOMAIN Tiers : Tiers[i] = tier

(* The bug of asking it of every award.                                    *)
TierOfAll(awards, cause, area) ==
    IF Len(awards) < MinAwards THEN "not_characterised"
    ELSE IF cause = DOMAIN awards /\ area = DOMAIN awards THEN "area_and_cause"
    ELSE IF cause # {} THEN "cause"
    ELSE IF area # {} THEN "area"
    ELSE "no_overlap"

(* The tier the awards earn, from those for the cause and those near.      *)
TierOf(awards, cause, area) ==
    IF Len(awards) < MinAwards THEN "not_characterised"
    ELSE IF cause \cap area # {} THEN "area_and_cause"
    ELSE IF cause # {} THEN "cause"
    ELSE IF area # {} THEN "area"
    ELSE "no_overlap"

\* The bug of leaving the upper quartile itself outside.
FitsBelow(ask, spread) ==
    IF ask = Nothing THEN "unknown"
    ELSE IF 4 * ask < spread.lower THEN "below_typical"
    ELSE IF 4 * ask >= spread.upper THEN "above_typical"
    ELSE "within_typical"

(* The funders page: the ask against the funder's usual range.             *)
AmountFit(ask, spread) ==
    IF ask = Nothing THEN "unknown"
    ELSE IF 4 * ask < spread.lower THEN "below_typical"
    ELSE IF 4 * ask > spread.upper THEN "above_typical"
    ELSE "within_typical"

LatestOf(awards) ==
    IF DOMAIN awards = {} THEN Nothing
    ELSE CHOOSE d \in {awards[i].on : i \in DOMAIN awards} :
            \A i \in DOMAIN awards : awards[i].on <= d

Dormant(since) == since # Nothing /\ since > DormantAfter

AssessProspect(f, words) ==
    LET awards == published[f]
        cause == {i \in DOMAIN awards : MatchesCause(awards[i], words)}
        area == {i \in DOMAIN awards : MatchesArea(awards[i])}
        tier == TierOf(awards, cause, area)
        matching == CASE tier = "area_and_cause" -> cause \cap area
                      [] tier = "cause" -> cause
                      [] tier = "area" -> area
                      [] OTHER -> {}
        last == LatestOf(awards)
        since == IF last = Nothing THEN Nothing ELSE Months(last, today)
    IN  [funder |-> f, tier |-> tier, since |-> since, dormant |-> Dormant(since),
         matching |-> Cardinality(matching),
         work |-> Cardinality({i \in matching : MatchesWork(awards[i], words)}),
         fit |-> IF tier = "not_characterised" THEN "unknown"
                 ELSE AmountFit(project.ask, Spread(AmountsOf(awards)))]

-----------------------------------------------------------------------------
(* The order of the cards: negative when a reads before b.                 *)

Since(p) == IF p.since = Nothing THEN Forever ELSE p.since

\* The bug of sending a dormant funder back without looking at the other.
DormantLast(a, b) == IF a.dormant THEN 1 ELSE IF b.dormant THEN -1 ELSE 0

DormancyOrder(a, b) == IF a.dormant = b.dormant THEN 0 ELSE IF a.dormant THEN 1 ELSE -1

(* Two funders that publish nothing differ by Infinity - Infinity, which   *)
(* is not a number: the sort takes it for no difference.                   *)
ByRelevance(a, b) ==
    LET keys == <<Place(a.tier) - Place(b.tier), DormancyOrder(a, b), b.work - a.work,
                  b.matching - a.matching, Since(a) - Since(b),
                  IF a.since = Nothing /\ b.since = Nothing THEN 0 ELSE a.funder - b.funder>>
        told == {i \in DOMAIN keys : keys[i] # 0}
    IN  IF told = {} THEN 0 ELSE keys[CHOOSE i \in told : \A j \in told : i <= j]

-----------------------------------------------------------------------------
(* The ranked list of a grant search: the funders of the awards that       *)
(* mention what was asked.                                                 *)

Hits(f, asked) ==
    LET awards == published[f]
        told == {i \in DOMAIN awards : (awards[i].text \cup awards[i].labels) \cap asked # {}}
    IN  [i \in told |-> awards[i]]

Age(hits) == IF DOMAIN hits = {} THEN Forever ELSE today - LatestOf(hits)

CappedAt(n, cap) == IF n < cap THEN n ELSE cap
InRegion(hits) == Cardinality({i \in DOMAIN hits : MatchesRegion(hits[i])})

\* A sum of nothing is no ask to the list of a search.
AsksForASum == project.ask # Nothing /\ project.ask > 0

\* What the size of the ask is worth in the score.
AskWorth(hits) ==
    LET spread == Spread(AmountsOf(hits))
    IN  IF ~AsksForASum THEN 0
        ELSE IF spread.lower <= 4 * project.ask /\ 4 * project.ask <= spread.upper THEN 6
        ELSE IF spread.min <= 4 * project.ask /\ 4 * project.ask <= spread.max THEN 3
        ELSE 0

FunderScore(hits) ==
      CappedAt(HowMany(hits), 10)
    + (IF InRegion(hits) > 0 THEN 8 ELSE 0)
    + (IF Age(hits) <= 48 THEN 6 ELSE IF Age(hits) <= 72 THEN 2 ELSE 0)
    + AskWorth(hits)

(* The clauses under a funder's name; below the bar the amounts themselves *)
(* stand where the clause about the ask would.                             *)
WhyThisFunder(hits) ==
    LET amounts == AmountsOf(hits)
        spread == Spread(amounts)
        described == CanCharacterise(amounts)
    IN  [grants |-> HowMany(hits), near |-> InRegion(hits),
         years |-> IF Age(hits) < 24 THEN "this year"
                   ELSE IF Age(hits) <= 48 THEN "2 years"
                   ELSE IF Age(hits) <= 72 THEN "3 years" ELSE "stale",
         named |-> IF described \/ spread.min = 0 THEN {} ELSE {spread.min, spread.max},
         ask |-> IF ~described \/ ~AsksForASum THEN "unsaid"
                 ELSE IF spread.lower <= 4 * project.ask /\ 4 * project.ask <= spread.upper
                      THEN "typical"
                 ELSE IF spread.min <= 4 * project.ask /\ 4 * project.ask <= spread.max
                      THEN "possible" ELSE "outside"]

-----------------------------------------------------------------------------
(* The steps.                                                              *)

(* A funder's list is replaced whole by the next reading of the corpus.    *)
Publish(f, list) ==
    /\ published[f] # list
    /\ published' = [published EXCEPT ![f] = list]
    /\ UNCHANGED <<where, project, today>>

SayWhere(place) ==
    /\ where # place
    /\ where' = place
    /\ UNCHANGED <<published, project, today>>

Describe(p) ==
    /\ project # p
    /\ project' = p
    /\ UNCHANGED <<published, where, today>>

OpenLater ==
    /\ today' \in {d \in Days : d > today}
    /\ UNCHANGED <<published, where, project>>

ProspectsNext ==
    \/ \E f \in Funders, list \in AwardLists : Publish(f, list)
    \/ \E place \in Somewhere : SayWhere(place)
    \/ \E p \in Projects : Describe(p)
    \/ OpenLater

ProspectsSpec == ProspectsInit /\ [][ProspectsNext]_prospectVars

-----------------------------------------------------------------------------
(* The state keeps its shape. *)
ProspectsTypeOK ==
    /\ published \in [Funders -> AwardLists]
    /\ where \in Somewhere /\ project \in Projects /\ today \in Days

\* Every funder's card, under the words in force.
Cards == LET words == Words IN [f \in Funders |-> AssessProspect(f, words)]

(* The order of the cards is an order: it does not depend on which of two  *)
(* funders is asked first, it is transitive, and two funders tie only when *)
(* neither publishes anything (byRelevance is handed to a sort that        *)
(* assumes exactly this).                                                  *)
ReadingOrderIsSound ==
    LET cards == Cards
        Before(f, g) == ByRelevance(cards[f], cards[g]) < 0
    IN  \A f, g \in Funders :
            /\ f # g /\ published[f] # <<>> => (Before(f, g) <=> ~Before(g, f))
            /\ \A h \in Funders : Before(f, g) /\ Before(g, h) => Before(f, h)

Listed(asked) == {f \in Funders : HowMany(Hits(f, asked)) > 0}
Described(asked) == {f \in Funders : HowMany(Hits(f, asked)) >= MinAwards}
ScoredAsTold(listed, asked) ==
    LET told == [f \in listed |-> WhyThisFunder(Hits(f, asked))]
        score == [f \in listed |-> FunderScore(Hits(f, asked))]
    IN  \A f, g \in listed : told[f] = told[g] => score[f] = score[g]

(* The two pages that compare the ask with what a funder gives, and the    *)
(* list of a search, never tell the organisation different things: usual   *)
(* on one is usual on the others, above or below is never turned round,    *)
(* and of two described funders told in the same words neither scores      *)
(* higher.                                                                 *)
SizesAgree ==
    /\ LET asked == DefaultSearch IN ScoredAsTold(Described(asked), asked)
    /\ \A f \in Funders :
           LET awards == published[f]
               spread == Spread(AmountsOf(awards))
               here == AmountFit(project.ask, spread)
               there == AskAgainst(project.ask, spread)
           IN  CanCharacterise(awards) /\ project.ask # Nothing =>
                   /\ here = "within_typical" <=> there = "within_typical"
                   /\ here = "below_typical" <=> 4 * project.ask < spread.lower
                   /\ there \in {"below_typical", "above_typical"} => here = there
                   /\ AsksForASum =>
                         /\ AskWorth(awards) = 6 <=> here = "within_typical"
                         /\ AskWorth(awards) = 0 <=> there = "outside_range_entirely"

(* A grant more never costs: when a funder's list only grows and the words *)
(* in force stay, its card does not move to a worse tier.  (The words may  *)
(* well go: one that a third of all texts now use is dropped.)             *)
Grows(old, new) == Len(old) <= Len(new) /\ SubSeq(new, 1, Len(old)) = old
EvidenceNeverCosts ==
    [][\A f \in Funders :
          published'[f] # published[f] /\ Grows(published[f], published'[f]) =>
              \A words \in {Words} : Words' = words =>
                  Place(AssessProspect(f, words)'.tier) <= Place(AssessProspect(f, words).tier)
      ]_prospectVars

(* "Each clause corresponds to a term in funderScore, so the explanation   *)
(* and the ordering cannot drift apart": two funders told in the same      *)
(* words score the same.  Below the bar the code does not keep it: the ask *)
(* counts in the score and no clause tells of it.                          *)
WordsExplainTheScore == LET asked == DefaultSearch IN ScoredAsTold(Listed(asked), asked)
=============================================================================
