------------------------------ MODULE Carousel ------------------------------
(***************************************************************************)
(* What the panel promises a passer-by, without stacks, timers or alerts   *)
(* (docs/superpowers/specs/2026-08-16-kw-dashboard-design.md, sections 5   *)
(* and 7): one page at a time, turning by itself in a fixed order while    *)
(* nobody and nothing holds the screen, and otherwise only where whoever   *)
(* takes hold of it puts it, or back home.                                 *)
(***************************************************************************)
EXTENDS Naturals

CONSTANT PageCount   \* how many top-level pages there are, at least one

VARIABLES
    page,   \* the top-level page in front, or behind the open detail views
    held    \* a user or an alert has hold of the screen

carouselVars == <<page, held>>

CarouselInit == page = 0 /\ held = FALSE

\* The carousel turns by one page, and only while nobody holds the screen.
Turn == ~held /\ page' = (page + 1) % PageCount /\ UNCHANGED held

\* Somebody, or an alert, takes hold of the screen and puts any page in front.
Grab == held' = TRUE /\ page' \in 0 .. PageCount - 1

\* A screen held for too long goes back to the first page.  A user may still
\* hold it then, if the quiet time is longer than the idle limit.
GoHome == held /\ page' = 0 /\ held' \in BOOLEAN

\* The hold ends and the page stays.
LetGo == held /\ held' = FALSE /\ UNCHANGED page

CarouselNext == Turn \/ Grab \/ GoHome \/ LetGo

CarouselSpec == CarouselInit /\ [][CarouselNext]_carouselVars
=============================================================================
