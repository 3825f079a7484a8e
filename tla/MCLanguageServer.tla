-------------------------- MODULE MCLanguageServer --------------------------
(***************************************************************************)
(* The workspaces the language server is checked on: files "a" and "b",    *)
(* programs "p" and "q".                                                   *)
(***************************************************************************)
EXTENDS LanguageServer

(* "a" declares main and imports "b", which is a program alone at the last.  *)
OneProgram ==
    [tries |-> [f \in Sources |-> IF f = "a" THEN <<"p">> ELSE <<"p", "q">>],
     entry |-> [x \in Programs |-> IF x = "p" THEN "a" ELSE "b"],
     reads |-> [x \in Programs |-> IF x = "p" THEN {"a", "b"} ELSE {"b"}],
     opens |-> {"a", "b"}]

(* The nearest program does not read "b"; the next to be tried does.         *)
NextProgram ==
    [tries |-> [f \in Sources |-> IF f = "a" THEN <<"p">> ELSE <<"p", "q">>],
     entry |-> [x \in Programs |-> IF x = "p" THEN "a" ELSE "b"],
     reads |-> [x \in Programs |-> IF x = "p" THEN {"a"} ELSE {"b"}],
     opens |-> {"b"}]

(* Each file is a program of its own.                                        *)
TwoPrograms ==
    [tries |-> [f \in Sources |-> IF f = "a" THEN <<"p">> ELSE <<"q">>],
     entry |-> [x \in Programs |-> IF x = "p" THEN "a" ELSE "b"],
     reads |-> [x \in Programs |-> IF x = "p" THEN {"a"} ELSE {"b"}],
     opens |-> {"a", "b"}]

(* The documents that are open are of one program (OneProgramAtATime).       *)
MCLayouts == {OneProgram, NextProgram}
MCTwoPrograms == {TwoPrograms}
=============================================================================
