------------------------------- MODULE MCSong -------------------------------
(***************************************************************************)
(* Song for TLC: a quiz with the shapes of the seeded templates, an opening*)
(* in the words of the style, a required and a skippable answer in one     *)
(* sentence, a skippable answer alone, and the closing stock sentences.    *)
(***************************************************************************)
EXTENDS Song

Sentence(keys, stock) == [keys |-> keys, stock |-> stock]

MCQuizzes ==
  {[required |-> {"NAME"},
    template |-> {Sentence({"GENRE", "VOCAL"}, TRUE), Sentence({"NAME", "DATE"}, FALSE),
                  Sentence({"WISHES"}, FALSE), Sentence({}, TRUE),
                  Sentence({"EXTRA"}, TRUE)}]}
=============================================================================
