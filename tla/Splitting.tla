----------------------------- MODULE Splitting ------------------------------
(***************************************************************************)
(* How a text that is too long is broken (app/pipeline/splitting.py).      *)
(* Tokens add up over words: the estimator never counts a joined text      *)
(* higher than its parts.  A separator counts 1 (tokens.py).               *)
(***************************************************************************)
EXTENDS Procedures

Larger(a, b) == IF a >= b THEN a ELSE b

Tokens(t) == FoldLeft(LAMBDA n, w : n + w.size, 0, t)

Sentences(t) == CutBefore(t, LAMBDA i : t[i - 1].stop)
Lines(t) == CutBefore(t, LAMBDA i : t[i].line)
Words(t) == CutBefore(t, LAMBDA i : TRUE)

(* Units in as few groups as a greedy pass makes, none above limit unless  *)
(* it is a single unit.                                                    *)
pack(units, limit) ==
    LET Put(p, u) ==
            LET n == Tokens(u) + 1 IN
            IF p.current # <<>> /\ p.tokens + n > limit
            THEN [groups |-> Append(p.groups, p.current), current |-> u, tokens |-> n]
            ELSE [p EXCEPT !.current = @ \o u, !.tokens = @ + n]
        end == FoldLeft(Put, [groups |-> <<>>, current |-> <<>>, tokens |-> 0], units)
    IN  IF end.current = <<>> THEN end.groups ELSE Append(end.groups, end.current)

(* Units of t, each above limit broken up by Break.                        *)
Broken(units, limit, Break(_, _)) ==
    FlattenSeq([i \in DOMAIN units |->
        IF Tokens(units[i]) > limit THEN Break(units[i], limit) ELSE <<units[i]>>])

word_parts(t, limit) == pack(Words(t), limit)

sentence_parts(t, limit) == pack(Broken(Sentences(t), limit, word_parts), limit)

(* Each part of a table starts with the header. *)
table_parts_HeaderOnce(b, limit) ==
    LET budget == Larger(1, limit - Tokens(b.header))
    IN  pack(Broken(Lines(b.text), budget, word_parts), budget)
table_parts(b, limit) ==
    LET budget == Larger(1, limit - Tokens(b.header))
        body == SubSeq(b.text, Len(b.header) + 1, Len(b.text))
        groups == pack(Broken(Lines(body), budget, word_parts), budget)
    IN  IF groups = <<>> THEN <<b.text>>
        ELSE [i \in DOMAIN groups |-> b.header \o groups[i]]

(* "(procedure continued)" on a line of its own. *)
CONTINUED ==
    <<[id |-> <<0, 0>>, size |-> 1, stop |-> FALSE, line |-> TRUE, step |-> NoStep]>>

procedure_parts_Sentences(t, limit) == sentence_parts(t, limit)
procedure_parts(t, limit) ==
    LET steps == split_steps(t)
        budget == Larger(1, limit - Tokens(CONTINUED) - 1)
        parts == pack(Broken(steps, budget, sentence_parts), budget)
    IN  IF Len(steps) <= 1 THEN sentence_parts(t, limit)
        ELSE [i \in DOMAIN parts |-> IF i = 1 THEN parts[i] ELSE CONTINUED \o parts[i]]

(* The last sentences of t that fit, and in any case the last one.         *)
tail_overlap(t, limit) ==
    LET s == Sentences(t)
        tail(k) == FlattenSeq(SubSeq(s, Len(s) - k + 1, Len(s)))
        kept == {k \in 1..Len(s) : Tokens(tail(k)) <= limit} \cup {1}
    IN  IF limit <= 0 \/ t = <<>> THEN <<>>
        ELSE tail(CHOOSE k \in kept : \A j \in kept : j <= k)

=============================================================================
