----------------------------- MODULE KeyboardKeys -----------------------------
(***************************************************************************)
(* The keys of ScreenKeyboard, which its view, its handler and its repeat  *)
(* thread speak of.                                                        *)
(***************************************************************************)
CONSTANTS
  Key,    \* the keys of the layout; each has a code of its own
  NoKey   \* no key: -1 in KeyboardView::track, no message in repeatMsg

ASSUME KeysAssumption == NoKey \notin Key
==============================================================================
