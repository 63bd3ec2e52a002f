----------------------------- MODULE GrantSearch -----------------------------
(***************************************************************************)
(* Searching the awards this deployment holds, and narrowing what came     *)
(* back.  One answer is five statements at READ COMMITTED (searchCorpus in *)
(* src/app/grants/search.ts): what each word is worth, the list, the       *)
(* chips with their counts, the funders, and the organisations.  The load  *)
(* replaces a funder's awards between any two of them.  The next question  *)
(* comes from a chip on the page that was drawn.                           *)
(*                                                                         *)
(* A filter is a set of values in each of four dimensions (`since` never   *)
(* holds two) and at most one organisation.  Amounts are bands, dates are  *)
(* years since the award, ranks are small numbers.  An award's labels are  *)
(* a sequence: a publisher may repeat one and nothing takes it out.  Names *)
(* hold no '~', which separates values in the address.                     *)
(***************************************************************************)
EXTENDS Naturals, Sequences, FiniteSets, Totals

CONSTANTS
    Awards,        \* records [id, funder, recipient, amount, years, place, tags, ranks]
    Values,        \* what each dimension can be narrowed by: a set per dimension
    Inside,        \* the pairs <<p, q>> where the name p is part of the name q
    Queries,       \* the sets of words a person types
    AskBands,      \* the bands from half to double of what the applicant asks for
    Anyone,        \* no organisation scoped
    NoPick,        \* no chip has been followed
    Stale,         \* a value in an old link that names nothing
    FacetWidth,    \* FACET_WIDTH
    ListLimit,     \* the limit of searchAwards
    FunderLimit,   \* FUNDER_LIMIT
    MaxValues,     \* MAX_VALUES_PER_DIMENSION
    MaxWalks,      \* bound: how often the load replaces a shelf
    MaxChosen      \* bound: how many values are in force together

Dimensions == {"amount", "since", "place", "topic"}

ASSUME SearchAssumption ==
    /\ DOMAIN Values = Dimensions /\ AskBands \subseteq Values["amount"]
    /\ \A p \in Values["place"] : <<p, p>> \in Inside
    /\ \A a \in Awards : a.tags \in Seq(Values["topic"])
    /\ IsFiniteSet(Awards) /\ \A d \in Dimensions : IsFiniteSet(Values[d])
    /\ \A words \in Queries : /\ IsFiniteSet(words)
                              /\ \A w \in words, a \in Awards : a.ranks[w] \in Nat
    /\ {FacetWidth, ListLimit, FunderLimit, MaxValues, MaxWalks, MaxChosen} \subseteq Nat
    /\ ListLimit > 0 /\ MaxValues > 0 /\ Cardinality(AskBands) <= MaxValues

VARIABLES
    held,          \* funder_awards
    walks,         \* how often a shelf was replaced
    asked,         \* the address: the words and the filters
    page,          \* the answer, as far as it has been read
    pick           \* the chip that led here, with the count it carried

searchVars == <<held, walks, asked, page, pick>>

-----------------------------------------------------------------------------
NoFilters == [d \in Dimensions |-> {}]

(* A choice of values in each dimension.  A place or a topic nobody knows  *)
(* is kept as it was sent.                                                 *)
MayHold(d) == IF d \in {"place", "topic"} THEN Values[d] \cup {Stale} ELSE Values[d]

FilterSets == [amount : SUBSET MayHold("amount"), since : SUBSET MayHold("since"),
               place : SUBSET MayHold("place"), topic : SUBSET MayHold("topic")]

(* The address holds the words, the filters and at most one organisation.  *)
Addresses ==
    [words : Queries,
     filters : {f \in FilterSets : Cardinality(f["since"]) <= 1
                  /\ \A d \in Dimensions : Cardinality(f[d]) <= MaxValues},
     recipient : {a.recipient : a \in Awards} \cup {Anyone}]

(* The entries of one parameter of a link: the first MaxValues distinct    *)
(* ones.                                                                   *)
ReadMany(entries) ==
    {entries[i] : i \in {j \in DOMAIN entries :
                            Cardinality({entries[k] : k \in 1..j}) <= MaxValues}}

(* What a link is read as: bands that name nothing are dropped, of the     *)
(* years only the first entry counts, places and topics are kept unseen.   *)
FiltersFromParams(params) ==
    [d \in Dimensions |->
        IF d = "since" THEN {params[d][i] : i \in DOMAIN params[d] \cap {1}} \cap MayHold(d)
        ELSE ReadMany(params[d]) \cap MayHold(d)]

(* Mutant of Toggle: a second year is kept beside the first.               *)
KeepsBothYears(filters, d, v) ==
    [filters EXCEPT ![d] = IF v \in @ THEN @ \ {v} ELSE @ \cup {v}]

(* One value flipped.  A year replaces the other; past the limit nothing   *)
(* changes.                                                                *)
Toggle(filters, d, v) ==
    [filters EXCEPT ![d] =
        IF v \in @ THEN @ \ {v}
        ELSE IF d = "since" THEN {v}
        ELSE IF Cardinality(@) < MaxValues THEN @ \cup {v} ELSE @]

Without(filters, d) == [filters EXCEPT ![d] = {}]

(* Whether an award carries a value itself, and whether a filter on that   *)
(* value lets it through: a place is looked for inside the region's name.  *)
Carries(a, d, v) ==
    \/ d = "amount" /\ a.amount = v
    \/ d = "since" /\ a.years <= v
    \/ d = "place" /\ a.place = v
    \/ d = "topic" /\ \E i \in DOMAIN a.tags : a.tags[i] = v

Passes(a, d, v) == Carries(a, d, v) \/ (d = "place" /\ <<v, a.place>> \in Inside)

(* Mutant of Matches: every value chosen in a dimension has to hold.       *)
MatchesEvery(a, filters, recipient) ==
    /\ \A d \in Dimensions : \A v \in filters[d] : Passes(a, d, v)
    /\ recipient \in {Anyone, a.recipient}

Matches(a, filters, recipient) ==
    /\ \A d \in Dimensions : filters[d] = {} \/ \E v \in filters[d] : Passes(a, d, v)
    /\ recipient \in {Anyone, a.recipient}

-----------------------------------------------------------------------------
(* What the words are worth, read once for the whole answer.  The weight   *)
(* of a word is any positive function that falls as more awards carry it;  *)
(* the code's is ln(1 + N / (1 + df)).                                     *)
Carrying(H, w) == {a \in H : a.ranks[w] > 0}
Rarity(H, w) == 100 + (100 * Cardinality(H)) \div (1 + Cardinality(Carrying(H, w)))

TextSearch(H, words) ==
    {[word |-> w, best |-> Max({a.ranks[w] : a \in H}), rarity |-> Rarity(H, w)] :
        w \in {x \in words : Carrying(H, x) # {}}}

(* Mutant of Score: ranks added up without the best rank of each word.     *)
RawScore(a, scope) ==
    SumOver([t \in scope |-> (t.rarity * a.ranks[t.word]) \div 9], scope)

(* How well an award matches, out of what the words could give together.   *)
Score(a, scope) ==
    SumOver([t \in scope |-> (t.rarity * a.ranks[t.word]) \div t.best], scope)

Achievable(scope) == SumOver([t \in scope |-> t.rarity], scope)

(* RELEVANCE_FLOOR is a quarter; words nothing matches find nothing.       *)
Close(a, scope) == scope # {} /\ 4 * Score(a, scope) >= Achievable(scope)

BuildWhere(H, scope, filters, recipient) ==
    {a \in H : Close(a, scope) /\ Matches(a, filters, recipient)}

(* Mutant of Total: the number over the list without the floor.            *)
CountsEveryMention(H, scope, filters, recipient) ==
    Cardinality({a \in H : (\E t \in scope : a.ranks[t.word] > 0)
                              /\ Matches(a, filters, recipient)})

(* The number over the list.                                               *)
Total(H, scope, filters, recipient) ==
    Cardinality(BuildWhere(H, scope, filters, recipient))

(* The join of awards with unnest(a.tags): a label that an award repeats   *)
(* is there twice.                                                         *)
Labels(found) == UNION {{a} \X DOMAIN a.tags : a \in found}

(* The count on a chip, its own dimension released and the others in       *)
(* force: of awards, but of a topic the times it was written.              *)
ChipCount(H, scope, at, d, v) ==
    LET found == BuildWhere(H, scope, Without(at.filters, d), at.recipient)
    IN IF d = "topic" THEN Cardinality({m \in Labels(found) : m[1].tags[m[2]] = v})
       ELSE Cardinality({a \in found : Carries(a, d, v)})

(* ORDER BY and LIMIT n: the first n there are, ties as they fall.         *)
Firsts(S, n, Ahead(_, _)) ==
    {T \in SUBSET S :
        /\ Cardinality(T) = IF Cardinality(S) < n THEN Cardinality(S) ELSE n
        /\ \A t \in T, u \in S \ T : ~Ahead(u, t)}

(* The order of the list: how well it matches, then how recent it is.      *)
Outranks(a, b, scope) ==
    \/ Score(a, scope) > Score(b, scope)
    \/ Score(a, scope) = Score(b, scope) /\ a.years < b.years

(* How many of what was found each funder gave, and the order of funders.  *)
Given(found) ==
    [f \in {a.funder : a \in found} |-> Cardinality({a \in found : a.funder = f})]

GivesMore(found, f, g) ==
    LET latest(h) == Min({a.years : a \in {x \in found : x.funder = h}})
    IN \/ Given(found)[f] > Given(found)[g]
       \/ Given(found)[f] = Given(found)[g] /\ latest(f) < latest(g)

(* What is listed of a dimension: all bands and years, the commonest       *)
(* places and topics, and whatever is chosen, at zero if need be.          *)
Listings(counts, d) ==
    IF d \in {"amount", "since"} THEN {Values[d]}
    ELSE Firsts({v \in Values[d] : counts[v] > 0}, FacetWidth,
                LAMBDA v, u : counts[v] > counts[u])

(* Mutant of Offer: what is chosen is listed only while it is common.      *)
OffersTheListed(counts, listed, chosen) ==
    {<<v, counts[v]>> : v \in {x \in listed : counts[x] > 0}}

Offer(counts, listed, chosen) ==
    {<<v, counts[v]>> : v \in {x \in listed : counts[x] > 0 \/ x \in chosen}}
        \cup {<<v, 0>> : v \in chosen \ listed}

-----------------------------------------------------------------------------
Unread == [at |-> "asked", scope |-> {}, walk |-> 0, list |-> {}, total |-> 0,
           offered |-> [d \in Dimensions |-> {}], funders |-> <<>>, scoped |-> 0]

SearchTypeOK ==
    /\ held \subseteq Awards /\ walks \in 0..MaxWalks
    /\ asked \in Addresses
    /\ page.at \in {"asked", "weighed", "listed", "counted", "shown", "idle", "failed"}
    /\ page.list \subseteq Awards
    /\ pick = NoPick \/ pick.count \in Nat

SearchInit ==
    /\ held \in SUBSET Awards /\ walks = 0
    /\ asked \in [words : Queries, filters : {NoFilters}, recipient : {Anyone}]
    /\ page = Unread /\ pick = NoPick

(* The load, or an ingest by hand, replaces one funder's awards.           *)
ReplaceShelf ==
    /\ walks < MaxWalks /\ walks' = walks + 1
    /\ \E f \in {a.funder : a \in Awards} :
         \E S \in SUBSET {a \in Awards : a.funder = f} :
            held' = {a \in held : a.funder # f} \cup S
    /\ UNCHANGED <<asked, page, pick>>

(* Nothing typed shows what arrived last; otherwise the words are weighed. *)
WeighWords ==
    /\ page.at = "asked"
    /\ page' = IF asked.words = {} THEN [Unread EXCEPT !.at = "idle"]
               ELSE [Unread EXCEPT !.at = "weighed", !.walk = walks,
                                   !.scope = TextSearch(held, asked.words)]
    /\ UNCHANGED <<held, walks, asked, pick>>

SearchAwards ==
    /\ page.at = "weighed"
    /\ \E list \in Firsts(BuildWhere(held, page.scope, asked.filters, asked.recipient),
                          ListLimit, LAMBDA a, b : Outranks(a, b, page.scope)) :
         page' = [page EXCEPT !.at = "listed", !.list = list]
    /\ UNCHANGED <<held, walks, asked, pick>>

FacetsFor ==
    /\ page.at = "listed"
    /\ LET counts == [d \in Dimensions |->
                        [v \in Values[d] |-> ChipCount(held, page.scope, asked, d, v)]]
       IN \E listed \in [amount : Listings(counts["amount"], "amount"),
                         since : Listings(counts["since"], "since"),
                         place : Listings(counts["place"], "place"),
                         topic : Listings(counts["topic"], "topic")] :
            page' = [page EXCEPT !.at = "counted",
                 !.total = Total(held, page.scope, asked.filters, asked.recipient),
                 !.offered = [d \in Dimensions |->
                                Offer(counts[d], listed[d], asked.filters[d])]]
    /\ UNCHANGED <<held, walks, asked, pick>>

(* The same matches by funder, of the funders that gave most; and, under a *)
(* scope, everything held for that organisation, whatever the words.       *)
FunderSummaries ==
    /\ page.at = "counted"
    /\ LET found == BuildWhere(held, page.scope, asked.filters, asked.recipient)
       IN \E shown \in Firsts(DOMAIN Given(found), FunderLimit,
                              LAMBDA f, g : GivesMore(found, f, g)) :
            page' = [page EXCEPT !.at = "shown",
                       !.funders = [f \in shown |-> Given(found)[f]],
                       !.scoped = IF asked.recipient = Anyone THEN 0
                          ELSE Cardinality({a \in held : a.recipient = asked.recipient})]
    /\ UNCHANGED <<held, walks, asked, pick>>

(* A statement fails: the page says so and offers no chips.                *)
ReadFails ==
    /\ page.at \in {"asked", "weighed", "listed", "counted"}
    /\ page' = [Unread EXCEPT !.at = "failed"]
    /\ UNCHANGED <<held, walks, asked, pick>>

InForce(filters) == Cardinality(UNION {{d} \X filters[d] : d \in Dimensions})

Ask(address, chip) ==
    /\ InForce(address.filters) <= MaxChosen
    /\ asked' = address /\ page' = Unread /\ pick' = chip /\ UNCHANGED <<held, walks>>

(* New words in the box drop every filter.                                 *)
TypeWords ==
    /\ page.at \in {"shown", "idle", "failed"}
    /\ \E words \in Queries :
         Ask([words |-> words, filters |-> NoFilters, recipient |-> Anyone], NoPick)

(* The links somebody kept or was sent: one entry more of a parameter than *)
(* is read, of which some may repeat or name nothing.                      *)
Links ==
    UNION {{FiltersFromParams([e \in Dimensions |-> IF e = d THEN entries ELSE <<>>]) :
                entries \in [1..(MaxValues + 1) -> Values[d] \cup {Stale}]} : d \in Dimensions}

FollowLink ==
    /\ page.at \in {"shown", "failed"}
    /\ \E filters \in Links : Ask([asked EXCEPT !.filters = filters], NoPick)

(* A chip: its value flipped, the rest of the address kept.                *)
FollowChip ==
    /\ page.at = "shown"
    /\ \E d \in Dimensions : \E o \in page.offered[d] :
         LET next == Toggle(asked.filters, d, o[1])
         IN Ask([asked EXCEPT !.filters = next],
                IF o[1] \in next[d]
                THEN [count |-> o[2], walk |-> page.walk, topic |-> d = "topic",
                      alone |-> d # "place" /\ next[d] = {o[1]}]
                ELSE NoPick)

(* "About what we need", "clear", one organisation (a peer's row, or a     *)
(* link to it), and the way back from it.                                  *)
FollowAskChip ==
    /\ page.at = "shown" /\ AskBands # {}
    /\ Ask([asked EXCEPT !.filters["amount"] = IF @ = AskBands THEN {} ELSE AskBands], NoPick)

ClearFilters ==
    /\ page.at = "shown" /\ asked.filters # NoFilters
    /\ Ask([asked EXCEPT !.filters = NoFilters], NoPick)

ScopeToRecipient ==
    /\ page.at = "shown"
    /\ \E a \in Awards : Ask([words |-> asked.words, filters |-> NoFilters,
                              recipient |-> a.recipient], NoPick)

Unscope ==
    /\ page.at = "shown" /\ asked.recipient # Anyone
    /\ Ask([asked EXCEPT !.recipient = Anyone], NoPick)

SearchNext ==
    \/ ReplaceShelf
    \/ WeighWords \/ SearchAwards \/ FacetsFor \/ FunderSummaries \/ ReadFails
    \/ TypeWords \/ FollowLink \/ FollowChip \/ FollowAskChip
    \/ ClearFilters \/ ScopeToRecipient \/ Unscope

SearchSpec == SearchInit /\ [][SearchNext]_searchVars

-----------------------------------------------------------------------------
(* A chip never leads to nothing ("you can never tick one and get          *)
(* nothing", src/domain/grants/facets.ts:21); except for a topic, never to *)
(* less than the number on it; and, when nothing else is chosen in its     *)
(* dimension (places apart, which are looked for inside longer names),     *)
(* never to more: unless the load has replaced a shelf since.              *)
CountsAreKept ==
    page.at \in {"counted", "shown"} /\ pick # NoPick /\ pick.walk = walks =>
        /\ page.total > 0
        /\ pick.topic \/ page.total >= pick.count
        /\ pick.alone => page.total <= pick.count

(* "Every option says how many grants it would leave"                      *)
(* (src/domain/grants/facets.ts:20), asked of a chip that is alone in its  *)
(* dimension.  It is not so: a topic counts as often as it is written.     *)
OptionsSayWhatTheyLeave ==
    page.at \in {"counted", "shown"} /\ pick # NoPick /\ pick.walk = walks /\ pick.alone
        => page.total = pick.count

(* A filter in force is always on the page as a chip, so it can be taken   *)
(* off again: whatever the load did, however rare its value (offer in      *)
(* src/db/grants.ts).                                                      *)
ChosenStaysOffered ==
    page.at \in {"counted", "shown"} =>
        \A d \in Dimensions : asked.filters[d] \subseteq {o[1] : o \in page.offered[d]}

(* The list, the number over it, the funders' rows and the scope's own     *)
(* number answer one question (searchCorpus in src/app/grants/search.ts),  *)
(* unless the load has replaced a shelf since: the list is as long as the  *)
(* number and its limit allow, each row counts all that is listed of its   *)
(* funder, and the rows make up the number when no funder is left out.     *)
OneQuestion ==
    page.at = "shown" /\ page.walk = walks =>
        /\ Cardinality(page.list) = IF page.total < ListLimit THEN page.total ELSE ListLimit
        /\ \A f \in DOMAIN page.funders :
              Cardinality({a \in page.list : a.funder = f}) <= page.funders[f]
        /\ LET sum == SumOver(page.funders, DOMAIN page.funders)
           IN /\ sum <= page.total
              /\ Cardinality(DOMAIN page.funders) < FunderLimit => sum = page.total
        /\ asked.recipient # Anyone => page.total <= page.scoped

(* Up to four words that occur at all find something, a lone place name    *)
(* among them, however low its rank: the floor is a quarter of what the    *)
(* words can give (textSearch in src/db/grants.ts).                        *)
WordsThatOccurFind ==
    page.at = "shown" /\ page.walk = walks /\ Cardinality(page.scope) \in 1..4
        /\ asked.filters = NoFilters /\ asked.recipient = Anyone
    => page.list # {}

(* A chip leads to something and to what its number says (a topic aside),   *)
(* every filter in force can be taken off again, the list, the numbers and  *)
(* the groups answer one question, and words that occur find something      *)
(* (src/app/grants/search.ts, src/db/grants.ts,                             *)
(* src/domain/grants/facets.ts).                                            *)
SearchIsHonest ==
    CountsAreKept /\ ChosenStaysOffered /\ OneQuestion /\ WordsThatOccurFind
=============================================================================
