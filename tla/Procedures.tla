----------------------------- MODULE Procedures -----------------------------
(***************************************************************************)
(* Numbered procedures (app/pipeline/procedures.py).  A text is a sequence *)
(* of words; a word knows its size in tokens, whether a sentence ends with *)
(* it (stop), whether it opens a line, and the step number that line bears.*)
(*                                                                         *)
(* A block is [kind, text, header, slide, atomic]; header is the first     *)
(* lines of a table's text, <<>> if the table has none.                    *)
(***************************************************************************)
EXTENDS Integers, Sequences, SequencesExt

NoStep == -1

(* id tells where in the document a word is. *)
Word == [id : Nat \X Nat, size : Nat, stop : BOOLEAN, line : BOOLEAN, step : Nat \cup {NoStep}]

BlockKind == {"heading", "text", "list", "table", "code", "image", "slide_notes"}

Block == [kind : BlockKind, text : Seq(Word), header : Seq(Word), slide : Int,
          atomic : BOOLEAN]

Ids(t) == [i \in DOMAIN t |-> t[i].id]

(* The pieces of t: a new one starts at each index where Begins holds.     *)
CutBefore(t, Begins(_)) ==
    LET Put(pieces, i) ==
            IF i = 1 \/ Begins(i) THEN Append(pieces, <<t[i]>>)
            ELSE [pieces EXCEPT ![Len(pieces)] = Append(@, t[i])]
    IN  FoldLeftDomain(Put, <<>>, t)

(* seq without the elements that appeared before. *)
FirstSeen(seq) ==
    FoldLeft(LAMBDA kept, x : IF x \in ToSet(kept) THEN kept ELSE Append(kept, x), <<>>, seq)

(* The number the first line opens with, or NoStep. *)
step_number(t) == IF t = <<>> THEN NoStep ELSE t[1].step

(* Every numbered line of a merged procedure begins a step. *)
split_steps(t) == CutBefore(t, LAMBDA i : t[i].line /\ t[i].step # NoStep)

Continuable == {"list", "text", "code", "table"}

Numbered(b) == b.kind \in Continuable /\ step_number(b.text) # NoStep

(* One atomic block in place of blocks i to j; a table's header is only    *)
(* text in it.                                                             *)
Merged(bs, i, j) ==
    [kind |-> "list", header |-> <<>>, slide |-> bs[i].slide, atomic |-> TRUE,
     text |-> FlattenSeq([k \in 1..(j - i + 1) |-> bs[i + k - 1].text])]

(* A step that comes after step last in the same procedure. *)
Climbs_OrStays(n, last) == n >= last
Climbs(n, last) == n > last

(* A run from block i takes in block c, if that goes on with the procedure: *)
(* a higher number, or an unnumbered block that a higher number follows.   *)
Continues(bs, i, c) ==
    LET num(k) == step_number(bs[k].text)
        last == num(Max({k \in i..(c - 1) : Numbered(bs[k])}))
    IN  /\ bs[c].kind \in Continuable
        /\ \/ num(c) # NoStep /\ Climbs(num(c), last)
           \/ /\ num(c) = NoStep /\ c < Len(bs)
              /\ bs[c + 1].kind \in Continuable /\ Climbs(num(c + 1), last)

(* The block after a run from i. *)
RunEnd(bs, i) ==
    Min({c \in (i + 1)..(Len(bs) + 1) : c = Len(bs) + 1 \/ ~Continues(bs, i, c)})

(* _is_ascending_run: two steps or more, the first being 0 or 1. *)
IsProcedure(bs, i) ==
    /\ Numbered(bs[i]) /\ step_number(bs[i].text) <= 1
    /\ \E k \in (i + 1)..(RunEnd(bs, i) - 1) : step_number(bs[k].text) # NoStep

group_numbered_procedures(bs) ==
    LET From[i \in 1..(Len(bs) + 1)] ==
            IF i > Len(bs) THEN <<>>
            ELSE IF IsProcedure(bs, i)
            THEN <<Merged(bs, i, RunEnd(bs, i) - 1)>> \o From[RunEnd(bs, i)]
            ELSE <<bs[i]>> \o From[i + 1]
    IN  From[1]

=============================================================================
