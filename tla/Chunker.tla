------------------------------ MODULE Chunker -------------------------------
(***************************************************************************)
(* chunk_blocks (app/pipeline/chunking.py): parsed blocks become chunks.   *)
(* Blocks are packed into a buffer up to a target, a chunk starting with   *)
(* the end of the one before it (overlap); tables and procedures too large *)
(* are emitted part by part; a deck gives one chunk per slide.             *)
(*                                                                         *)
(* Section path, page and ordinal of a chunk are left out, texts are those *)
(* of Procedures.                                                          *)
(***************************************************************************)
EXTENDS Splitting

CONSTANTS
    Documents,     \* the documents chunked: sequences of blocks
    Target,        \* target_tokens
    Overlap,       \* overlap_tokens
    Ceiling        \* max_tokens, the embedder's input limit

Text(bs) == FlattenSeq([i \in DOMAIN bs |-> bs[i].text])

(* No two words of a document are the same word.  A block that comes atomic *)
(* is a spreadsheet's row (parsers/tabular_parser.py), with no header.      *)
ASSUME ChunkerAssumption ==
    /\ \A doc \in Documents :
         /\ doc \in Seq(Block)
         /\ \A i \in DOMAIN doc : /\ IsPrefix(doc[i].header, doc[i].text)
                                  /\ doc[i].atomic => doc[i].header = <<>>
         /\ IsInjective(Ids(CONTINUED \o Text(doc)))
    /\ {Target, Ceiling} \subseteq Nat \ {0}
    /\ Overlap \in Nat

VARIABLES
    document,  \* the blocks that were parsed, blank ones dropped
    blocks,    \* those not yet looked at, procedures merged
    todo,      \* what is left of the block being looked at: [alone, text]
    buffer,    \* texts of the chunk being assembled
    carried,   \* _pending_overlap
    drafts,    \* the chunks, texts
    phase      \* "chunking" or "done"

vars == <<document, blocks, todo, buffer, carried, drafts, phase>>

NoSlide == -1
IsDeck(bs) == \E i \in DOMAIN bs : bs[i].slide # NoSlide

Init ==
    /\ document \in Documents
    /\ blocks = IF IsDeck(document) THEN document ELSE group_numbered_procedures(document)
    /\ todo = <<>>
    /\ buffer = <<>>
    /\ carried = <<>>
    /\ drafts = <<>>
    /\ phase = "chunking"

-----------------------------------------------------------------------------
(* _Assembler. *)

(* Texts joined by a blank line, which ends a sentence. *)
Joined(texts) ==
    FlattenSeq([i \in DOMAIN texts |-> [texts[i] EXCEPT ![Len(texts[i])].stop = TRUE]])

Held(b) == Tokens(FlattenSeq(b))

(* A chunk the embedder would reject is split whatever it is. *)
Pieces_AsTheyAre(content) == <<content>>
Pieces(content) ==
    IF Tokens(content) <= Ceiling THEN <<content>> ELSE sentence_parts(content, Ceiling)

Flushed(b) == IF b = <<>> THEN drafts ELSE drafts \o Pieces(Joined(b))
CarriedFrom(b) == IF b = <<>> THEN carried ELSE tail_overlap(Joined(b), Overlap)

Started(overlap) == IF overlap = <<>> THEN <<>> ELSE <<overlap>>

(* add: into the buffer if it has room, else into the next chunk. *)
Fits(t) == buffer = <<>> \/ Held(buffer) + Tokens(t) <= Target

Add ==
    /\ todo # <<>> /\ ~Head(todo).alone
    /\ LET t == Head(todo).text
           overlap == IF Fits(t) THEN carried ELSE CarriedFrom(buffer)
           kept == IF Fits(t) THEN buffer ELSE <<>>
       IN  /\ drafts' = IF Fits(t) THEN drafts ELSE Flushed(buffer)
           /\ buffer' = Append(IF kept = <<>> THEN Started(overlap) ELSE kept, t)
           /\ carried' = IF kept = <<>> THEN <<>> ELSE overlap
    /\ todo' = Tail(todo)
    /\ UNCHANGED <<document, blocks, phase>>

(* emit_standalone: a chunk of its own, nothing carried in or out.         *)
EmitStandalone_Unflushed ==
    /\ todo # <<>> /\ Head(todo).alone
    /\ drafts' = drafts \o Pieces(Joined(<<Head(todo).text>>))
    /\ carried' = <<>>
    /\ todo' = Tail(todo)
    /\ UNCHANGED <<document, blocks, buffer, phase>>
EmitStandalone ==
    /\ todo # <<>> /\ Head(todo).alone
    /\ drafts' = Flushed(buffer) \o Pieces(Joined(<<Head(todo).text>>))
    /\ buffer' = <<>>
    /\ carried' = <<>>
    /\ todo' = Tail(todo)
    /\ UNCHANGED <<document, blocks, phase>>

-----------------------------------------------------------------------------
(* chunk_blocks. *)

Each(alone, texts) == [i \in DOMAIN texts |-> [alone |-> alone, text |-> texts[i]]]

HasHeader(b) == b.kind = "table" /\ b.header # <<>>

(* What becomes of one block. *)
Plan(b) ==
    LET n == Tokens(b.text) IN
    CASE HasHeader(b) /\ n > Target -> Each(TRUE, table_parts(b, Target))
      [] ~HasHeader(b) /\ b.atomic /\ n > Ceiling -> Each(TRUE, procedure_parts(b.text, Ceiling))
      [] ~HasHeader(b) /\ ~b.atomic /\ n > Target -> Each(FALSE, sentence_parts(b.text, Target))
      [] OTHER -> Each(FALSE, <<b.text>>)

NextBlock ==
    /\ phase = "chunking" /\ ~IsDeck(document)
    /\ todo = <<>> /\ blocks # <<>>
    /\ todo' = Plan(Head(blocks))
    /\ blocks' = Tail(blocks)
    /\ UNCHANGED <<document, buffer, carried, drafts, phase>>

Finish ==
    /\ phase = "chunking" /\ ~IsDeck(document)
    /\ todo = <<>> /\ blocks = <<>>
    /\ drafts' = Flushed(buffer)
    /\ carried' = CarriedFrom(buffer)
    /\ buffer' = <<>>
    /\ phase' = "done"
    /\ UNCHANGED <<document, blocks, todo>>

(* _chunk_slides: slides in the order they first appear, blocks without    *)
(* one on slide 0; only the ceiling breaks a slide.                        *)
SlideOf(b) == IF b.slide = NoSlide THEN 0 ELSE b.slide

OnSlide(bs, n) ==
    FlattenSeq([i \in DOMAIN bs |-> IF SlideOf(bs[i]) = n THEN <<bs[i]>> ELSE <<>>])

Slides(bs) ==
    LET order == FirstSeen([i \in DOMAIN bs |-> SlideOf(bs[i])])
    IN  [k \in DOMAIN order |-> OnSlide(bs, order[k])]

SlideText(bs) == Joined([i \in DOMAIN bs |-> bs[i].text])

ChunkSlides ==
    /\ phase = "chunking" /\ IsDeck(document)
    /\ drafts' = FlattenSeq([k \in DOMAIN Slides(document) |->
                                Pieces(SlideText(Slides(document)[k]))])
    /\ phase' = "done"
    /\ blocks' = <<>>
    /\ UNCHANGED <<document, todo, buffer, carried>>

Next == NextBlock \/ Add \/ EmitStandalone \/ Finish \/ ChunkSlides

Spec == Init /\ [][Next]_vars

-----------------------------------------------------------------------------
(* Properties. *)

Done == phase = "done"

(* Read in order, repetitions skipped, the chunks are the document: no     *)
(* word is lost and none overtakes another ("(procedure continued)", which *)
(* is not in the document, counts as read before).  A deck, whose slides   *)
(* may be reordered, is kept word for word.                                *)
NothingIsLost ==
    Done => LET read == FlattenSeq(drafts) IN
            IF IsDeck(document)
            THEN ToSet(Ids(read)) = ToSet(Ids(Text(document))) /\ IsInjective(Ids(read))
            ELSE FirstSeen(Ids(CONTINUED \o read)) = Ids(CONTINUED \o Text(document))

(* "No chunk exceeds the embedder's input limit": except by a single word. *)
UnderTheCeiling ==
    \A i \in DOMAIN drafts : Tokens(drafts[i]) <= Ceiling \/ Len(drafts[i]) = 1

Holds(draft, t) == \E i \in 0..(Len(draft) - Len(t)) : SubSeq(Ids(draft), i + 1, i + Len(t)) = Ids(t)

Grouped == group_numbered_procedures(document)
InOneDraft(t) == \E i \in DOMAIN drafts : Holds(drafts[i], t)

(* What a procedure is: steps that climb from 0 or 1, at most one block    *)
(* without a number between two of them, and no heading or image.          *)
IsSequence(bs, i, k) ==
    LET num(m) == step_number(bs[m].text) IN
    /\ i < k
    /\ num(i) # NoStep /\ num(i) <= 1 /\ num(k) # NoStep
    /\ \A m \in i..k : bs[m].kind \in Continuable
    /\ \A m, n \in i..k : m < n /\ num(m) # NoStep /\ num(n) # NoStep => num(m) < num(n)
    /\ \A m \in i..(k - 1) : num(m) = NoStep => num(m + 1) # NoStep

(* "A numbered procedure is never split mid-sequence", and "ascent         *)
(* matters", so that lists which all start with 1 stay apart: what is      *)
(* merged is a procedure, and every procedure is merged, whole and in      *)
(* order, if perhaps with more steps around it.                            *)
OnlySequencesMerge ==
    Done /\ ~IsDeck(document) =>
        /\ \A g \in ToSet(Grouped) \ ToSet(document) :
             \E i, k \in DOMAIN document :
                IsSequence(document, i, k) /\ g.text = Text(SubSeq(document, i, k))
        /\ \A i, k \in DOMAIN document :
             IsSequence(document, i, k) =>
                \E g \in ToSet(Grouped) : g.atomic /\ Holds(g.text, Text(SubSeq(document, i, k)))

(* What belongs together and fits stays together: "PPTX produces exactly   *)
(* one chunk per slide", and a procedure above the limit is broken at step *)
(* boundaries only, where a step fits.                                     *)
UnitsAreWhole ==
    Done => IF IsDeck(document) THEN
              \A b \in ToSet(document) :
                LET t == SlideText(OnSlide(document, SlideOf(b))) IN
                Tokens(t) <= Ceiling => \E i \in DOMAIN drafts : Ids(drafts[i]) = Ids(t)
            ELSE
              \A g \in ToSet(Grouped) :
                g.atomic /\ Tokens(g.text) > Ceiling =>
                    \A s \in ToSet(split_steps(g.text)) :
                        Tokens(s) < Ceiling - Tokens(CONTINUED) => InOneDraft(s)

(* "A table always carries its header row, repeated on every part it       *)
(* spans": of a table above the target that was not merged into a          *)
(* procedure, each row that fits under the header within the target is in  *)
(* a chunk with it; and so is each word that fits under it within the      *)
(* ceiling, also where a row is broken, or a header leaves rows no room.   *)
RowsHaveTheirHeader ==
    Done /\ ~IsDeck(document) =>
        \A b \in ToSet(document) \cap ToSet(Grouped) :
            LET body == SubSeq(b.text, Len(b.header) + 1, Len(b.text))
                Under(t, limit) == Tokens(b.header) + Larger(1, Tokens(t)) <= limit
                Together(t) == \E d \in DOMAIN drafts : Holds(drafts[d], b.header) /\ Holds(drafts[d], t)
            IN  HasHeader(b) /\ Tokens(b.text) > Target =>
                    /\ \A k \in DOMAIN Lines(body) :
                         Under(Lines(body)[k], Target) => Together(Lines(body)[k])
                    /\ \A k \in DOMAIN body :
                         Under(<<body[k]>>, Ceiling) => Together(<<body[k]>>)

-----------------------------------------------------------------------------
(* What the repository says and the code does not do.                      *)

(* "Fits the ceiling, so it stays whole even if it overshoots the target." *)
ProcedureIsWhole ==
    Done /\ ~IsDeck(document) =>
        \A i \in DOMAIN Grouped :
            Grouped[i].atomic /\ Tokens(Grouped[i].text) <= Ceiling => InOneDraft(Grouped[i].text)

(* "A table always carries its header row": also one between two steps,    *)
(* where it is part of the procedure and its header only text, and one     *)
(* that is split together with the overlap in front of it.                 *)
EveryTableKeepsHeader ==
    Done /\ ~IsDeck(document) =>
        \A b \in ToSet(document) :
            LET body == SubSeq(b.text, Len(b.header) + 1, Len(b.text))
            IN  HasHeader(b) => \A k \in DOMAIN body :
                    Tokens(b.header) + Larger(1, Tokens(<<body[k]>>)) <= Ceiling =>
                        \E d \in DOMAIN drafts :
                            Holds(drafts[d], b.header) /\ Holds(drafts[d], <<body[k]>>)

=============================================================================
