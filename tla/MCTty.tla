------------------------------- MODULE MCTty -------------------------------
(* Small instances of Tty.  Every .cfg file gives its own constants.        *)
EXTENDS Tty

Load(texts, most, keys, counts, controls) ==
    [texts |-> texts, most |-> most, keys |-> keys, counts |-> counts,
     controls |-> controls]

Writers == Load({<<"c">>, <<"c", "NL", "c">>}, 2, {"a", "^S", "^Q"}, {}, {})
Readers == Load({}, 7, {"a", "nl", "^H", "@"}, {1, 2}, {"TCNEXTC"})
Modes == Load({}, 6, {"a", "nl"}, {1},
              {"TCMODER", "TCMODEC", "TCMODEK", "TCECHO", "TCNOECHO"})

LongText == Load({<<"NL", "NL", "NL">>}, 0, {}, {}, {})

AllLoads == {Writers, Readers, Modes}
OnlyLongText == {LongText}

=============================================================================
