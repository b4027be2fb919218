----------------------------- MODULE MCSession -----------------------------
(***************************************************************************)
(* Three include files, two of which include each other and themselves,    *)
(* and one with an error.  Of the programs, the fourth leaves no room for  *)
(* the contexts, the fifth runs out of memory half way, the sixth includes *)
(* a file that is not there.                                               *)
(***************************************************************************)
EXTENDS Session

MCDisk == [a |-> <<"statement", "b", "a", "statement">>,
           b |-> <<"a", "statement", "b">>,
           c |-> <<"error">>]

MCPrograms ==
  {<<"statement", "a", "statement">>,
   <<"b", "statement", "a">>,
   <<"statement", "c", "statement">>,
   [i \in 1..15 |-> "statement"],
   <<"a", "statement", "statement", "b", "statement">>,
   <<"statement", "missing", "a">>,
   <<>>}
=============================================================================
