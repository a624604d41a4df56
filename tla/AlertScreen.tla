---------------------------- MODULE AlertScreen ----------------------------
(***************************************************************************)
(* What the reader of the alert pages is promised, with no cache, request  *)
(* or failure in sight: the screen is always that of the page asked for,   *)
(* evidence once shown does not give way to a loading screen, and a        *)
(* selection lasts exactly as long as the map it was made on.              *)
(***************************************************************************)
EXTENDS Integers

CONSTANTS Pages, Kinds, Pins, NoPin

VARIABLES
  page,    \* the page asked for
  screen,  \* its screen: a kind, and the page it is about
  picked   \* the selected characteristic

vars == <<page, screen, picked>>

Screen == [kind : Kinds, of : Pages]

Init ==
  /\ page \in Pages /\ screen \in Screen /\ screen.of = page
  /\ screen.kind # "evidence" /\ picked = NoPin

Visit(p) ==
  /\ p # page /\ page' = p
  /\ screen' \in Screen /\ screen'.of = p /\ picked' = NoPin

\* The same page in another light: what is behind it arrived, or failed to.
Turn ==
  /\ page' = page /\ screen' \in Screen /\ screen'.of = page
  /\ screen.kind = "evidence" => screen'.kind # "loading"
  /\ picked' = IF screen.kind = "evidence" /\ screen' = screen THEN picked ELSE NoPin

Pick(p) ==
  /\ screen.kind = "evidence"
  /\ picked' = IF picked = p THEN NoPin ELSE p
  /\ UNCHANGED <<page, screen>>

Next ==
  \/ \E p \in Pages : Visit(p)
  \/ Turn
  \/ \E p \in Pins : Pick(p)

Spec == Init /\ [][Next]_vars

=============================================================================
