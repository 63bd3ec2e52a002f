------------------------------- MODULE Chunking -------------------------------
(***************************************************************************)
(* How a document is cut up before a model reads it                        *)
(* (src/documents/chunk.ts).  Its pages come as paragraphs; one longer     *)
(* than a chunk may be is taken apart at its sentences, and a sentence     *)
(* longer than a chunk should be at its words; the segments are gathered   *)
(* into chunks, each repeating the end of the one before, and the chunks   *)
(* into the batches of one request.                                        *)
(*                                                                         *)
(* A text is its length and the pages it came from.  Which document it is  *)
(* is chosen as it is read; a batch is filled as its chunks are made,      *)
(* which is the order the code fills them in afterwards.                   *)
(***************************************************************************)
EXTENDS Integers

CONSTANTS
    Target,         \* targetChars: what a chunk should hold
    MaxChars,       \* maxChars: what it may hold
    Overlap,        \* overlapChars
    MaxBatch,       \* the size of a batch
    MaxSentence,    \* bound: the longest sentence
    MaxPages        \* bound: the pages of a document

ASSUME SizesAssumption ==
    /\ Target \in Nat \ {0} /\ MaxChars \in Nat /\ Overlap \in Nat /\ MaxBatch \in Nat
    /\ Target <= MaxChars /\ MaxChars <= MaxBatch
    /\ MaxSentence \in Nat /\ MaxPages \in Nat \ {0}

VARIABLES
    page,       \* the page being read
    at,         \* "between" paragraphs, in the "sentences" of one, or "wrapping" one
    held,       \* the sentences of a long paragraph gathered so far
    rest,       \* what is left of a sentence being wrapped
    buffer,     \* the chunk being filled
    last,       \* the chunk made last
    batch,      \* how long the batch being filled is; no chunk is empty
    closed,     \* how long the batch closed last was
    lost        \* segments dropped from the buffer, in no chunk

chunkVars == <<page, at, held, rest, buffer, last, batch, closed, lost>>

(* own: is anything in it in no earlier chunk?  mark: startedOn, zero for  *)
(* null; began, ended: the pages its text begins and ends on; first: the   *)
(* page of its first own segment.                                          *)
Empty == [len |-> 0, own |-> FALSE, mark |-> 0, began |-> 0, ended |-> 0, first |-> 0]

ChunkInit ==
    /\ page = 1 /\ at = "between" /\ held = 0 /\ rest = 0
    /\ buffer = Empty /\ last = Empty
    /\ batch = 0 /\ closed = 0
    /\ lost = 0

-----------------------------------------------------------------------------
\* The bug of carrying the page of one chunk over to the next.
TailsMarked(b) ==
    IF b.len <= Overlap THEN {Empty}
    ELSE {[len |-> n, own |-> FALSE, mark |-> b.mark, began |-> p, ended |-> b.ended,
           first |-> 0] : n \in 1 .. Overlap, p \in b.began .. b.ended}

(* The end of a chunk that the next one repeats: at most Overlap long, and *)
(* shorter where it would begin in the middle of a word.                   *)
Tails(b) ==
    IF Overlap = 0 \/ b.len <= Overlap THEN {Empty}
    ELSE {[len |-> n, own |-> FALSE, mark |-> 0, began |-> p, ended |-> b.ended, first |-> 0] :
             n \in 1 .. Overlap, p \in b.began .. b.ended}

TooLong(b, n, limit) == b.len # 0 /\ b.len + n + 2 > limit

\* The bug of closing a chunk only at the hard ceiling.
LetsItFill(b, n) == FALSE

(* A full buffer is made a chunk before the segment joins it.              *)
Full(b, n) == TooLong(b, n, Target)

(* What is left in front of a segment: the ceiling may cost the overlap.   *)
Kept(b, n) == IF TooLong(b, n, MaxChars) THEN Empty ELSE b

Joined(b, n) ==
    [len |-> IF b.len = 0 THEN n ELSE b.len + 2 + n,
     own |-> TRUE,
     mark |-> IF b.mark = 0 THEN page ELSE b.mark,
     began |-> IF b.len = 0 THEN page ELSE b.began,
     ended |-> page,
     first |-> IF b.own THEN b.first ELSE page]

\* The bug of weighing a batch before its next chunk.
ClosedLate(n) == batch > MaxBatch

BatchIsFull(n) == batch > 0 /\ batch + n > MaxBatch

(* A chunk is made, and goes into the batch.                               *)
Push(b) ==
    /\ last' = b
    /\ IF BatchIsFull(b.len)
       THEN closed' = batch /\ batch' = b.len
       ELSE closed' = closed /\ batch' = batch + b.len

AddSegment(n) ==
    \E front \in (IF Full(buffer, n) THEN Tails(buffer) ELSE {buffer}) :
        /\ IF Full(buffer, n) THEN Push(buffer) ELSE UNCHANGED <<last, batch, closed>>
        /\ buffer' = Joined(Kept(front, n), n)
        /\ lost' = IF TooLong(front, n, MaxChars) /\ front.own THEN lost + 1 ELSE lost

-----------------------------------------------------------------------------
(* The steps.                                                              *)

NextPage ==
    /\ at = "between" /\ page < MaxPages
    /\ page' = page + 1
    /\ UNCHANGED <<at, held, rest, buffer, last, batch, closed, lost>>

\* A paragraph a chunk can hold.
Paragraph(n) ==
    /\ at = "between" /\ n <= MaxChars
    /\ AddSegment(n)
    /\ UNCHANGED <<page, at, held, rest>>

\* A longer one.
BeginSentences ==
    /\ at = "between"
    /\ at' = "sentences"
    /\ UNCHANGED <<page, held, rest, buffer, last, batch, closed, lost>>

(* A sentence that joins those held.                                       *)
Sentence(n) ==
    /\ at = "sentences" /\ n <= Target
    /\ held = 0 \/ held + n + 1 <= Target
    /\ held' = IF held = 0 THEN n ELSE held + 1 + n
    /\ UNCHANGED <<page, at, rest, buffer, last, batch, closed, lost>>

(* What is held becomes a segment: the next sentence does not fit, or is   *)
(* to be wrapped, or the paragraph ends.                                   *)
EmitHeld ==
    /\ at = "sentences" /\ held > 0
    /\ AddSegment(held)
    /\ held' = 0
    /\ UNCHANGED <<page, at, rest>>

BeginWrapping(n) ==
    /\ at = "sentences" /\ held = 0 /\ n > Target
    /\ at' = "wrapping" /\ rest' = n
    /\ UNCHANGED <<page, held, buffer, last, batch, closed, lost>>

(* A piece of it, cut after a word in the second half or where it must be. *)
Wrap(cut) ==
    /\ at = "wrapping" /\ rest > Target
    /\ 2 * cut > Target /\ cut <= Target
    /\ AddSegment(cut)
    /\ rest' \in {rest - cut, rest - cut - 1} \ {0}
    /\ UNCHANGED <<page, at, held>>

EndWrapping ==
    /\ at = "wrapping" /\ rest <= Target
    /\ AddSegment(rest)
    /\ rest' = 0 /\ at' = "sentences"
    /\ UNCHANGED <<page, held>>

EndParagraph ==
    /\ at = "sentences" /\ held = 0
    /\ at' = "between"
    /\ UNCHANGED <<page, held, rest, buffer, last, batch, closed, lost>>

(* The last chunk leaves no overlap behind; the next document begins.      *)
Finish ==
    /\ at = "between" /\ buffer.len > 0
    /\ Push(buffer)
    /\ buffer' = Empty /\ page' = 1
    /\ UNCHANGED <<at, held, rest, lost>>

ChunkNext ==
    \/ NextPage \/ BeginSentences \/ EmitHeld \/ EndWrapping \/ EndParagraph \/ Finish
    \/ \E n \in 1 .. MaxSentence : Paragraph(n) \/ Sentence(n) \/ BeginWrapping(n)
    \/ \E cut \in 1 .. Target : Wrap(cut)

ChunkSpec == ChunkInit /\ [][ChunkNext]_chunkVars

-----------------------------------------------------------------------------
Texts == [len : Nat, own : BOOLEAN, mark : Nat, began : Nat, ended : Nat, first : Nat]

(* The state keeps its shape. *)
ChunkTypeOK ==
    /\ page \in 1 .. MaxPages /\ at \in {"between", "sentences", "wrapping"}
    /\ held \in Nat /\ rest \in Nat /\ lost \in Nat
    /\ buffer \in Texts /\ last \in Texts
    /\ batch \in Nat /\ closed \in Nat

(* Nothing a person uploaded goes unread, and no request is unbounded: no  *)
(* paragraph is dropped with the overlap; no chunk is longer than the      *)
(* ceiling or only repeats the one before; a chunk is marked with the page *)
(* of the first thing in it that is new, which is never a page before its  *)
(* text begins; and no batch is longer than its limit.                     *)
NothingGoesUnread ==
    /\ lost = 0
    /\ \A b \in {buffer, last} :
          b # Empty => /\ 0 < b.len /\ b.len <= MaxChars /\ b.own
                       /\ b.mark = b.first /\ b.began <= b.mark /\ b.mark <= b.ended
    /\ held <= Target
    /\ batch <= MaxBatch /\ closed <= MaxBatch

(* "The page this chunk starts on."  Not kept: a chunk that begins with    *)
(* the overlap of a page is marked with the page of what follows it.       *)
MarkedWhereItStarts == last.mark = last.began
=============================================================================
