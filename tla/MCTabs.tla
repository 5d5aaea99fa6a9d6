------------------------------- MODULE MCTabs -------------------------------
(***************************************************************************)
(* The two sides of the tabs of a window, for checking with TLC: which     *)
(* tabs there are and to what they belong (Window), and what one of them   *)
(* asks and shows (TabQuery).  The sides share no variable and are checked *)
(* one at a time.                                                          *)
(***************************************************************************)
EXTENDS Window, TabQuery, TLC

VARIABLE side   \* "window" or "tab"

TabsInit == Init /\ QueryInit /\ side \in {"window", "tab"}

TabsNext ==
  /\ UNCHANGED side
  /\ \/ side = "window" /\ Next /\ UNCHANGED queryVars
     \/ side = "tab" /\ QueryNext /\ UNCHANGED vars

TabsSpec == TabsInit /\ [][TabsNext]_<<side, vars, queryVars>>

\* Connections other than Mem are interchangeable, and so are queries of a kind.
Symmetry == Permutations(Conn \ {Mem}) \cup Permutations(Select)
=============================================================================
