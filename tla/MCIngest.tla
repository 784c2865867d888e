------------------------------ MODULE MCIngest -------------------------------
(* Values of the constants of Ingest for TLC.  Times are in units of 100 ms.  *)
EXTENDS Ingest, TLC
CONSTANTS s1

Ev(type, element, word, padded) ==
    [event_type |-> type, tag |-> "input", input_type |-> "text", element |-> element,
     locators |-> {"id", "tag"}, text |-> [word |-> word, padded |-> padded],
     is_sensitive |-> "unset", is_enabled |-> TRUE, gap |-> 1, look |-> {}]

Slow(e) == [e EXCEPT !.gap = 25]
Off(e) == [e EXCEPT !.is_enabled = FALSE]

\* Typing into a field and clearing it, in bursts and not, a password, a check
\* box, a submit button, two spellings of a URL.
MCEvents ==
    LET typed == Ev("input", "f", "a", FALSE)
        cleared == Ev("input", "f", "", FALSE)
        click == [Ev("submit", "b", "", FALSE) EXCEPT !.look = {"submit", "form"}]
        box == [Ev("change", "c", "", FALSE) EXCEPT !.input_type = "checkbox"]
        url == [Ev("navigate", "w", "u", FALSE) EXCEPT !.locators = {}, !.tag = "none"]
    IN  s1 :> {typed, Slow(Ev("change", "f", "b", TRUE)), Off(typed),
                cleared, Ev("input", "f", "", TRUE),
                [Ev("input", "g", "b", TRUE) EXCEPT !.input_type = "password"],
                click, Off(box), url, [url EXCEPT !.text.padded = TRUE],
                [url EXCEPT !.text.word = "v"]}

MCMaxEvents == s1 :> 4
=============================================================================
