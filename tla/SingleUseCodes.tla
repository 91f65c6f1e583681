--------------------------- MODULE SingleUseCodes ---------------------------
(***************************************************************************)
(* What a store promises of codes that can be used once, such as recovery  *)
(* codes: only a live code is ever accepted, accepting it ends its life,   *)
(* and a code that has been live is never issued again.  A code stands for *)
(* the pair of an account and one generated code.                          *)
(***************************************************************************)
EXTENDS Naturals

CONSTANT Codes

VARIABLES
  fresh,   \* codes that may still be issued
  live,    \* codes that would be accepted
  uses     \* how often each code has been accepted

vars == <<fresh, live, uses>>

Init ==
  /\ fresh = Codes
  /\ live = {}
  /\ uses = [c \in Codes |-> 0]

(* One code is accepted.  No other code is affected.                       *)
Use(c) ==
  /\ c \in live
  /\ live' = live \ {c}
  /\ uses' = [uses EXCEPT ![c] = @ + 1]
  /\ UNCHANGED fresh

(* Codes are issued, replaced, or removed with their account.              *)
Change ==
  /\ fresh' \subseteq fresh
  /\ live' \subseteq live \cup (fresh \ fresh')
  /\ UNCHANGED uses

Next == Change \/ \E c \in Codes : Use(c)

Spec == Init /\ [][Next]_vars

-----------------------------------------------------------------------------
(* A code is accepted once at most.                                        *)
AcceptedOnce == \A c \in Codes : uses[c] <= 1
=============================================================================
