---------------------------- MODULE ScreenState ----------------------------
(***************************************************************************)
(* What the parts of the connection screen share: whether it is still up,  *)
(* and the user's clicks.  A goroutine reports to the screen by writing    *)
(* what it has found into a field and then raising a flag; Process looks   *)
(* at the flags once a frame (src/internal/ui/gateway_screen.go).  Stores  *)
(* are taken to be seen in the order they are written.                     *)
(***************************************************************************)
EXTENDS Integers

CONSTANT MaxClicks   \* bound on the clicks of the user, all in all

ASSUME ClicksAssumption == MaxClicks \in Nat

\* A click that starts a goroutine gives it its number.
Job == 1..MaxClicks

VARIABLES
  open,     \* the screen is up: Process runs and buttons can be pressed
  clicks    \* the clicks so far

screenVars == <<open, clicks>>

ScreenInit == open = TRUE /\ clicks = 0

\* The user clicks something on the screen.
Click ==
  /\ open
  /\ clicks < MaxClicks
  /\ clicks' = clicks + 1

ThisJob == clicks + 1
=============================================================================
