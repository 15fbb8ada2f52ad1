----------------------------- MODULE MCConsole ------------------------------
(***************************************************************************)
(* Two rows of four columns and a ring of four lines; half a row of        *)
(* pixels is left over below the text, as on a 1080 line screen.           *)
(***************************************************************************)
EXTENDS Console

(* The last leaves the line it has written on by its start.                *)
MCOutputs == {<<Newline>>, <<Tab, "y", Return, "z">>, <<Backspace>>,
              <<"x", Return, Backspace>>}
=============================================================================
