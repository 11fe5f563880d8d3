----------------------------- MODULE MCChunker ------------------------------
(***************************************************************************)
(* Documents for the Chunker runs, against a target of 4 tokens, an        *)
(* overlap of 2 and a ceiling of 8: every sequence of up to MaxBlocks      *)
(* blocks of the shapes below, and decks of up to three blocks.            *)
(***************************************************************************)
EXTENDS Chunker

CONSTANT MaxBlocks     \* bound: blocks of a document

(* A line: its words' sizes, a sentence ending after each that is in stops.*)
Line(step, sizes, stops) ==
    [i \in DOMAIN sizes |-> [size |-> sizes[i], stop |-> i \in stops,
                             line |-> i = 1, step |-> IF i = 1 THEN step ELSE NoStep]]

Shape(kind, text, header, slide) ==
    [kind |-> kind, text |-> text, header |-> header, slide |-> slide, atomic |-> FALSE]

Plain(kind, sizes, stops) == Shape(kind, Line(NoStep, sizes, stops), 0, NoSlide)
Step(n) == Shape("list", Line(n, <<1, 2>>, {1}), 0, NoSlide)
Table(header, rows) ==
    Shape("table", Line(NoStep, <<header>>, {}) \o FlattenSeq([i \in 1..rows |-> Line(NoStep, <<1, 1>>, {1})]),
          1, NoSlide)
Row(sizes) == [Plain("table", sizes, {}) EXCEPT !.atomic = TRUE]
Slide(n, sizes) == Shape("text", Line(NoStep, sizes, DOMAIN sizes), 0, n)

Shapes ==
    {Plain("heading", <<1>>, {}), Plain("image", <<1>>, {}),
     Plain("text", <<1, 1>>, {2}), Plain("text", <<2, 2, 3>>, {2, 3}), Plain("code", <<10>>, {}),
     Step(1), Step(2), Step(3), Table(1, 1), Table(1, 3), Table(6, 2), Row(<<3, 2>>), Row(<<6, 4>>)}
SlideShapes == {Slide(1, <<2, 2>>), Slide(2, <<4>>), Slide(1, <<4, 4>>), Slide(NoSlide, <<1>>)}

UpTo(n, S) == UNION {[1..k -> S] : k \in 0..n}

(* Words get their identity from where they are. *)
Document(shapes) ==
    [i \in DOMAIN shapes |->
        LET t == [k \in DOMAIN shapes[i].text |-> [id |-> <<i, k>>] @@ shapes[i].text[k]]
        IN  [shapes[i] EXCEPT !.text = t, !.header = SubSeq(t, 1, shapes[i].header)]]

MCDocuments == {Document(s) : s \in UpTo(MaxBlocks, Shapes) \cup UpTo(3, SlideShapes)}

=============================================================================
