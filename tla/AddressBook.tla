----------------------------- MODULE AddressBook -----------------------------
(***************************************************************************)
(* What both stores promise about email addresses, whatever the tables and *)
(* objects behind the promise.  An address belongs to one account at a     *)
(* time, and it changes hands only by being given up first.  An account    *)
(* opens with a primary address, it can make another one of its own        *)
(* addresses the primary one, and it never gives the primary one up        *)
(* without closing.  An address that was verified stays so while it is     *)
(* kept.                                                                   *)
(***************************************************************************)
CONSTANTS
  Uids,       \* accounts
  Addresses,  \* email addresses, normalized
  None        \* "nobody"

VARIABLES
  owner,      \* [Addresses -> Uids or None]
  primary,    \* the addresses that are their account's primary one
  verified    \* the addresses that are verified

book == <<owner, primary, verified>>

AddressesOf(u) == {a \in Addresses : owner[a] = u}

TypeOK ==
  /\ owner \in [Addresses -> Uids \cup {None}]
  /\ primary \subseteq Addresses
  /\ verified \subseteq Addresses

Init ==
  /\ owner = [a \in Addresses |-> None]
  /\ primary = {}
  /\ verified = {}

(* Account u opens with the address a.                                     *)
Open(u, a, v) ==
  /\ owner[a] = None
  /\ AddressesOf(u) \cap primary = {}
  /\ owner' = [owner EXCEPT ![a] = u]
  /\ primary' = primary \cup {a}
  /\ verified' = IF v THEN verified \cup {a} ELSE verified

(* A further address.                                                      *)
Add(u, a, v) ==
  /\ owner[a] = None
  /\ owner' = [owner EXCEPT ![a] = u]
  /\ verified' = IF v THEN verified \cup {a} ELSE verified
  /\ UNCHANGED primary

(* Only an account's own address can become its primary one.               *)
Promote(u, a) ==
  /\ owner[a] = u
  /\ primary' = (primary \ AddressesOf(u)) \cup {a}
  /\ UNCHANGED <<owner, verified>>

Verify(a) ==
  /\ owner[a] # None
  /\ verified' = verified \cup {a}
  /\ UNCHANGED <<owner, primary>>

(* A primary address is not given up.                                      *)
GiveUp(a) ==
  /\ a \notin primary
  /\ owner' = [owner EXCEPT ![a] = None]
  /\ verified' = verified \ {a}
  /\ UNCHANGED primary

Close(u) ==
  /\ owner' = [a \in Addresses |-> IF owner[a] = u THEN None ELSE owner[a]]
  /\ primary' = primary \ AddressesOf(u)
  /\ verified' = verified \ AddressesOf(u)

Next ==
  \/ \E u \in Uids, a \in Addresses :
       \/ \E v \in BOOLEAN : Open(u, a, v) \/ Add(u, a, v)
       \/ Promote(u, a)
  \/ \E a \in Addresses : Verify(a) \/ GiveUp(a)
  \/ \E u \in Uids : Close(u)

Spec == Init /\ [][Next]_book
=============================================================================
