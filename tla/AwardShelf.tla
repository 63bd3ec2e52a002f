------------------------------ MODULE AwardShelf ------------------------------
(***************************************************************************)
(* The write of one funder's awards: the transaction at the end of each    *)
(* turn of advanceCorpus, the operator's ingest of one funder by hand, and *)
(* the removal of a funder.                                                *)
(*                                                                         *)
(* Writers overlap: two steps of the walk may both be at this funder, and  *)
(* an operator may load it by hand meanwhile.  Each statement of the       *)
(* transaction is an action.  Postgres runs at READ COMMITTED: a statement *)
(* sees what is committed when it starts.  What keeps the count and the    *)
(* replacement together is the row lock that the first statement, the      *)
(* upsert of the funder's source_datasets row, holds until the end of the  *)
(* transaction; the upsert of the funders row takes the second lock, which *)
(* is the one a removal has to wait for.                                   *)
(***************************************************************************)
EXTENDS Naturals

CONSTANTS
    Writers,     \* processes that may write this funder's awards
    NoOne,       \* the owner of a free row lock
    MaxAwards,   \* bound: awards one read of a publisher can keep
    ByHand       \* TRUE: operators also load this funder by hand

ASSUME ShelfAssumption ==
    /\ NoOne \notin Writers
    /\ MaxAwards \in Nat
    /\ ByHand \in BOOLEAN

VARIABLES
    shelf,       \* committed rows of funder_awards: how many, from a whole read?
    datasetLock, \* who holds the row lock on the funder's source_datasets row
    funderLock,  \* ... and on its funders row
    writer       \* per writer: statement reached and what its fetch returned

vars == <<shelf, datasetLock, funderLock, writer>>

Shelves == [n : 0..MaxAwards, whole : BOOLEAN]
Empty == [n |-> 0, whole |-> FALSE]

Resting == [pc |-> "idle", path |-> "walk", n |-> 0, cut |-> FALSE]

Init ==
    /\ shelf = Empty
    /\ datasetLock = NoOne
    /\ funderLock = NoOne
    /\ writer = [w \in Writers |-> Resting]

-----------------------------------------------------------------------------
(* Who reads this publisher: the walk, and an operator where that happens. *)
Paths == {"walk"} \cup (IF ByHand THEN {"hand"} ELSE {})

(* The fetch, before any transaction: n awards inside the window, and cut   *)
(* when the publisher's end stopped the read after its first page.          *)
Fetch(w) ==
    /\ writer[w].pc = "idle"
    /\ \E n \in 0..MaxAwards, cut \in BOOLEAN, path \in Paths :
         writer' = [writer EXCEPT ![w] =
                      [pc |-> "fetched", path |-> path, n |-> n, cut |-> cut]]
    /\ UNCHANGED <<shelf, datasetLock, funderLock>>

UpsertDataset(w) ==
    /\ writer[w].pc = "fetched"
    /\ datasetLock = NoOne
    /\ datasetLock' = w
    /\ writer' = [writer EXCEPT ![w].pc = "dataset"]
    /\ UNCHANGED <<shelf, funderLock>>

UpsertFunder(w) ==
    /\ writer[w].pc = "dataset"
    /\ funderLock = NoOne
    /\ funderLock' = w
    /\ writer' = [writer EXCEPT ![w].pc = "funder"]
    /\ UNCHANGED <<shelf, datasetLock>>

Release(w) ==
    /\ datasetLock' = IF datasetLock = w THEN NoOne ELSE datasetLock
    /\ funderLock' = IF funderLock = w THEN NoOne ELSE funderLock
    /\ writer' = [writer EXCEPT ![w] = Resting]

(* Mutant: the walk, too, forgets that its read was cut short. *)
GuardsNothing(w) == FALSE

(* countFunderAwards is asked only by the walk, and only of a read cut short. *)
GuardsPartial(w) == writer[w].path = "walk" /\ writer[w].cut

(* Mutant: off by one. *)
SmallerByTwo(w) == writer[w].n + 1 < shelf.n

(* The read kept fewer awards than are held. *)
Smaller(w) == writer[w].n < shelf.n

(* The transaction ends with the funder and its licence updated and the     *)
(* awards left alone.                                                       *)
KeepFuller(w) ==
    /\ writer[w].pc = "funder"
    /\ GuardsPartial(w) /\ Smaller(w)
    /\ Release(w)
    /\ UNCHANGED shelf

GoOn(w) ==
    /\ writer[w].pc = "funder"
    /\ ~(GuardsPartial(w) /\ Smaller(w))
    /\ writer' = [writer EXCEPT ![w].pc = "replacing"]
    /\ UNCHANGED <<shelf, datasetLock, funderLock>>

(* Mutant: the awards held are not deleted first. *)
ReplaceNoDelete(w) ==
    /\ writer[w].pc = "replacing"
    /\ shelf' = [n |-> shelf.n + writer[w].n, whole |-> ~writer[w].cut]
    /\ Release(w)

(* replaceFunderAwards: delete, insert each award, and commit. *)
Replace(w) ==
    /\ writer[w].pc = "replacing"
    /\ shelf' = [n |-> writer[w].n, whole |-> ~writer[w].cut]
    /\ Release(w)

(* A statement throws (two rows of the read share an id, the connection     *)
(* drops, the function is killed): the transaction rolls back.              *)
RollBack(w) ==
    /\ writer[w].pc # "idle"
    /\ Release(w)
    /\ UNCHANGED shelf

(* deleteFunder waits for the funders row and takes the awards with it. *)
RemoveFunder ==
    /\ funderLock = NoOne
    /\ shelf' = Empty
    /\ UNCHANGED <<datasetLock, funderLock, writer>>

Next ==
    \/ \E w \in Writers :
         \/ Fetch(w) \/ UpsertDataset(w) \/ UpsertFunder(w) \/ KeepFuller(w)
         \/ GoOn(w) \/ Replace(w) \/ RollBack(w)
    \/ RemoveFunder

Spec == Init /\ [][Next]_vars

-----------------------------------------------------------------------------
WriterType ==
    [pc : {"idle", "fetched", "dataset", "funder", "replacing"},
     path : {"walk", "hand"}, n : 0..MaxAwards, cut : BOOLEAN]

(* The types of the stored rows, the two row locks and the writers. *)
TypeOK ==
    /\ shelf \in Shelves
    /\ datasetLock \in Writers \cup {NoOne}
    /\ funderLock \in Writers \cup {NoOne}
    /\ writer \in [Writers -> WriterType]

(* The decision to replace is still right when the rows are deleted: the    *)
(* walk's cut-short read is no smaller than the shelf it is about to        *)
(* replace.                                                                 *)
DecisionHolds ==
    \A w \in Writers :
        writer[w].pc = "replacing" /\ writer[w].path = "walk" /\ writer[w].cut
            => writer[w].n >= shelf.n

(* When only the walk writes, one funder's awards obey the contract the     *)
(* readers rely on.                                                         *)
Contract == INSTANCE ShelfContract
ImplementsContract == Contract!Spec

-----------------------------------------------------------------------------
(* Refuted when operators load funders by hand: "A PARTIAL READ MAY FILL AN *)
(* EMPTY SHELF, NOT REPLACE A FULL ONE" (ingestion/threesixtygiving/        *)
(* corpus.ts): no read cut short leaves fewer awards than were held.        *)
PartialNeverReplacesFuller ==
    [][~shelf'.whole /\ shelf' # Empty => shelf'.n >= shelf.n]_shelf
=============================================================================
