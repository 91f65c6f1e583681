----------------------- MODULE DeviceCommands_proofs -----------------------
(***************************************************************************)
(* Proofs about DeviceCommands: what a request that was alone has done to  *)
(* its device, for any requests, devices, names and data; and that reading *)
(* back is right, for any finite numbers of devices and names.             *)
(***************************************************************************)
EXTENDS DeviceCommands, FiniteSetTheorems, SequenceTheorems, WellFoundedInduction, TLAPS

(* What a device can offer, and what becomes of it by one more command.    *)
LEMMA NoOfferType == NoOffer \in Offer /\ DOMAIN NoOffer = {}
<1>1. NoOffer \in [{} -> Data] BY DEF NoOffer
<1> QED BY <1>1 DEF Offer

LEMMA OfferType ==
  ASSUME NEW f \in Offer
  PROVE  /\ DOMAIN f \subseteq Names
         /\ f = [n \in DOMAIN f |-> f[n]]
         /\ \A n \in DOMAIN f : f[n] \in Data
<1>1. PICK N \in SUBSET Names : f \in [N -> Data] BY DEF Offer
<1> QED BY <1>1

LEMMA PartType ==
  ASSUME NEW wanted \in Offer \cup {None}, NEW N \in SUBSET Given(wanted)
  PROVE  /\ Given(wanted) \subseteq Names
         /\ \A n \in Given(wanted) : wanted[n] \in Data
         /\ [n \in N |-> wanted[n]] \in Offer
<1>1. wanted # None => wanted \in Offer OBVIOUS
<1>2. Given(wanted) \subseteq Names /\ \A n \in Given(wanted) : wanted[n] \in Data
  BY <1>1, OfferType DEF Given
<1>3. N \in SUBSET Names /\ [n \in N |-> wanted[n]] \in [N -> Data] BY <1>2
<1>4. [n \in N |-> wanted[n]] \in Offer BY <1>3 DEF Offer
<1> QED BY <1>2, <1>4

LEMMA OneMore ==
  ASSUME NEW f \in Offer, NEW n \in Names, NEW x \in Data
  PROVE  /\ With(f, n, x) \in Offer
         /\ DOMAIN With(f, n, x) = DOMAIN f \cup {n}
<1> DEFINE g == With(f, n, x)
<1>1. DOMAIN g = DOMAIN f \cup {n} BY DEF With
<1>2. g \in [DOMAIN f \cup {n} -> Data] BY OfferType DEF With
<1>3. DOMAIN f \cup {n} \in SUBSET Names BY OfferType
<1> QED BY <1>1, <1>2, <1>3 DEF Offer

LEMMA OneMorePart ==
  ASSUME NEW wanted, NEW N, NEW n
  PROVE  With([m \in N |-> wanted[m]], n, wanted[n]) = [m \in N \cup {n} |-> wanted[m]]
BY DEF With

(* The fields of a request.                                                *)
LEMMA Fields ==
  ASSUME TypeOK, NEW c \in Calls
  PROVE  /\ calls[c].at # "new" => calls[c] \in Request
         /\ calls[c] # New <=> calls[c].at # "new"
         /\ calls[c] \in Request => calls[c].at # "new"
BY DEF TypeOK, Call, Request, New

-----------------------------------------------------------------------------
(* A request is under way; what no step of it changes.                     *)
Going == {"first", "begun", "look", "name", "store"}

Same(old, new) ==
  /\ new.kind = old.kind /\ new.device = old.device /\ new.wanted = old.wanted
  /\ new.before = old.before /\ new.alone = old.alone

(* What a request's own step may change: its call, but not what it asks    *)
(* for, and rows of its device; the row of devices only when it commits.   *)
Own(c) ==
  LET old == calls[c]  new == calls'[c] IN
  /\ old \in Request /\ new \in Request /\ old.at # "done" /\ Same(old, new)
  /\ \A b \in Calls \ {c} : calls'[b] = calls[b]
  /\ \A d \in Devices \ {old.device} :
       (d \in devices' <=> d \in devices) /\ commands'[d] = commands[d]
  /\ old.at # "begun" => devices' = devices

(* What is to be shown of the request that takes the step.                 *)
Kept(c) ==
  /\ Sent(c)
  /\ calls[c].alone => AloneWork(c)

(* A request that is alone and another one have different devices.         *)
LEMMA Apart ==
  ASSUME IInv, NEW b \in Calls, NEW c \in Calls, b # c,
         calls[b] # New, calls[b].alone, calls[c].at \notin {"new", "done"}
  PROVE  calls[c].device # calls[b].device
<1>1. OthersDone(b) BY DEF IInv
<1>2. calls[c] # New BY Fields DEF IInv
<1> QED BY <1>1, <1>2 DEF OthersDone, On

(* A request's own step keeps the row locks.                               *)
LEMMA RowLocksKept ==
  ASSUME IInv, NEW c \in Calls, Own(c),
         calls'[c].at = "begun" =>
           /\ calls[c].kind = "create" <=> calls[c].device \notin devices'
           /\ ~Locked(c, calls[c].device)
  PROVE  RowLocks'
<1>1. SUFFICES ASSUME NEW b \in Calls, calls'[b].at = "begun"
               PROVE  /\ calls'[b].kind = "create" <=> calls'[b].device \notin devices'
                      /\ ~Locked(b, calls[b].device)'
  BY DEF RowLocks
<1>2. \A a \in Calls : calls[a].at = "begun" => calls[a] # New BY DEF New
<1>3. CASE b = c
  <2>1. calls'[c].kind = calls[c].kind /\ calls'[c].device = calls[c].device BY DEF Own, Same
  <2>2. \A a \in Calls \ {c} : calls'[a] = calls[a] BY DEF Own
  <2>3. ~Locked(c, calls[c].device)' BY <1>1, <1>3, <2>1, <2>2 DEF Locked, On
  <2> QED BY <1>1, <1>3, <2>1, <2>3
<1>4. CASE b # c
  <2>1. calls'[b] = calls[b] BY <1>4 DEF Own
  <2>2. calls[b].kind = "create" <=> calls[b].device \notin devices
    BY <1>1, <2>1 DEF IInv, RowLocks
  <2>3. ~Locked(b, calls[b].device) BY <1>1, <2>1 DEF IInv, RowLocks
  <2>4. calls[b] \in Request BY <1>1, <2>1, Fields DEF IInv
  <2>5. calls[b].device \in devices' <=> calls[b].device \in devices
    <3>1. CASE calls[c].at = "begun"
      <4>1. calls[b].device # calls[c].device
        BY <1>2, <1>4, <2>3, <3>1 DEF Locked, On
      <4> QED BY <2>4, <4>1 DEF Own, Request
    <3>2. CASE calls[c].at # "begun" BY <3>2 DEF Own
    <3> QED BY <3>1, <3>2
  <2>6. ~Locked(b, calls[b].device)'
    <3>1. SUFFICES ASSUME NEW a \in Calls \ {b}, calls'[a] # New,
                          calls'[a].device = calls[b].device, calls'[a].at = "begun"
                   PROVE  FALSE
      BY <2>1 DEF Locked, On
    <3>2. CASE a = c
      <4>1. ~Locked(c, calls[c].device) /\ calls[c].device = calls[b].device
        BY <3>1, <3>2 DEF Own, Same
      <4> QED BY <1>1, <1>2, <1>4, <2>1, <4>1 DEF Locked, On
    <3>3. CASE a # c
      <4>1. calls'[a] = calls[a] BY <3>3 DEF Own
      <4> QED BY <2>3, <3>1, <4>1 DEF Locked, On
    <3> QED BY <3>2, <3>3
  <2> QED BY <2>1, <2>2, <2>5, <2>6
<1> QED BY <1>3, <1>4

(* A request's own step leaves the others as they were.                    *)
LEMMA OthersKept ==
  ASSUME IInv, NEW c \in Calls, Own(c), NEW b \in Calls, b # c, calls'[b] # New
  PROVE  Sent(b)' /\ (calls'[b].alone => OthersDone(b)' /\ AloneWork(b)')
<1>1. calls'[b] = calls[b] BY DEF Own
<1>2. Sent(b)' BY <1>1 DEF IInv, Sent
<1>3. ASSUME calls[b].alone PROVE OthersDone(b)' /\ AloneWork(b)'
  <2>1. OthersDone(b) /\ AloneWork(b) BY <1>1, <1>3 DEF IInv
  <2>2. calls[c].at \notin {"new", "done"} BY DEF Own, Request
  <2>3. calls[c].device # calls[b].device BY <1>1, <1>3, <2>2, Apart
  <2>4. calls[b].device \in Devices BY <1>1, Fields DEF IInv, Request
  <2>5. /\ calls[b].device \in devices' <=> calls[b].device \in devices
        /\ commands'[calls[b].device] = commands[calls[b].device]
    BY <2>3, <2>4 DEF Own
  <2>6. OthersDone(b)'
    BY <1>1, <2>1, <2>3 DEF OthersDone, On, Own, Same
  <2>7. Untouched(b)' <=> Untouched(b) BY <1>1, <2>5 DEF Untouched
  <2>8. \A N : Stored(b, N)' <=> Stored(b, N) BY <1>1, <2>5 DEF Stored
  <2>9. AloneWork(b)' BY <1>1, <2>1, <2>5, <2>7, <2>8 DEF AloneWork, Part, Whole
  <2> QED BY <2>6, <2>9
<1> QED BY <1>1, <1>2, <1>3

(* So only the request itself is to be looked at.                          *)
LEMMA OwnStep ==
  ASSUME IInv, NEW c \in Calls, Own(c), TypeOK', NameLocks', Kept(c)',
         calls'[c].at = "begun" =>
           /\ calls[c].kind = "create" <=> calls[c].device \notin devices'
           /\ ~Locked(c, calls[c].device)
  PROVE  IInv'
<1>1. RowLocks' BY RowLocksKept
<1>2. calls'[c].alone => OthersDone(c)'
  <2>1. calls[c] # New BY Fields DEF IInv, Own
  <2>2. calls[c].alone => OthersDone(c) BY <2>1 DEF IInv
  <2> QED BY <2>2 DEF OthersDone, On, Own, Same
<1>3. Sent(c)' /\ (calls'[c].alone => AloneWork(c)') BY DEF Kept
<1> QED BY <1>1, <1>2, <1>3, OthersKept DEF IInv

-----------------------------------------------------------------------------
(* What Finish and Continue make of a call.                                *)
LEMMA GoingFields ==
  ASSUME TypeOK, NEW c \in Calls, calls[c].at \in Going
  PROVE  calls[c] \in Request /\ calls[c].at # "done" /\ calls[c] # New
BY Fields DEF Going

LEMMA CallsType ==
  ASSUME TypeOK, NEW c \in Calls, NEW call \in Request, calls' = [calls EXCEPT ![c] = call]
  PROVE  /\ calls' \in [Calls -> Call] /\ calls'[c] = call
         /\ \A b \in Calls \ {c} : calls'[b] = calls[b]
BY DEF TypeOK, Call

LEMMA Finished ==
  ASSUME TypeOK, NEW c \in Calls, calls[c].at \in Going,
         NEW answer \in {"ok", "duplicate", "notFound", "error"}, Finish(c, answer)
  PROVE  /\ calls' \in [Calls -> Call] /\ \A b \in Calls \ {c} : calls'[b] = calls[b]
         /\ calls'[c] \in Request /\ Same(calls[c], calls'[c])
         /\ calls'[c].at = "done" /\ calls'[c].answer = answer
         /\ calls'[c].left = calls[c].left /\ calls'[c].named = FALSE
         /\ calls'[c].retried = calls[c].retried
<1> DEFINE call == [calls[c] EXCEPT !.at = "done", !.answer = answer, !.named = FALSE]
<1>1. calls[c] \in Request BY GoingFields
<1>2. call \in Request BY <1>1 DEF Request
<1>3. calls' = [calls EXCEPT ![c] = call] BY DEF Finish
<1>4. calls'[c] = call BY <1>2, <1>3, CallsType
<1>5. /\ Same(calls[c], call) /\ call.at = "done" /\ call.answer = answer
      /\ call.left = calls[c].left /\ call.named = FALSE /\ call.retried = calls[c].retried
  BY <1>1 DEF Request, Same
<1> HIDE DEF call
<1> QED BY <1>2, <1>3, <1>4, <1>5, CallsType

LEMMA Continued ==
  ASSUME TypeOK, NEW c \in Calls, calls[c].at \in Going,
         NEW left \in SUBSET Names, Continue(c, left)
  PROVE  /\ calls' \in [Calls -> Call] /\ \A b \in Calls \ {c} : calls'[b] = calls[b]
         /\ calls'[c] \in Request /\ Same(calls[c], calls'[c]) /\ calls'[c].named = FALSE
         /\ left # {} => calls'[c].at = "look" /\ calls'[c].left = left
         /\ left = {} => /\ calls'[c].at = "done" /\ calls'[c].answer \in {"ok", "error"}
                        /\ calls'[c].left = calls[c].left
         /\ calls'[c].retried = calls[c].retried
<1>1. calls[c] \in Request BY GoingFields
<1>2. CASE left # {}
  <2> DEFINE call == [calls[c] EXCEPT !.at = "look", !.left = left, !.named = FALSE]
  <2>1. call \in Request BY <1>1 DEF Request
  <2>2. calls' = [calls EXCEPT ![c] = call] BY <1>2 DEF Continue
  <2>3. calls'[c] = call BY <2>1, <2>2, CallsType
  <2>4. /\ Same(calls[c], call) /\ call.at = "look" /\ call.left = left
        /\ call.named = FALSE /\ call.retried = calls[c].retried
    BY <1>1 DEF Request, Same
  <2> HIDE DEF call
  <2> QED BY <1>2, <2>1, <2>2, <2>3, <2>4, CallsType
<1>3. CASE left = {}
  <2>1. PICK answer \in {"ok", "error"} : Finish(c, answer) BY <1>3 DEF Continue
  <2> QED BY <1>3, <2>1, Finished
<1> QED BY <1>2, <1>3

(* The names stay locked when a request stores its command, or stores none.*)
LEMMA NameLocksKept ==
  ASSUME IInv, NEW c \in Calls, Own(c), calls'[c].at # "store",
         \/ identifiers' = identifiers
         \/ calls[c].at = "store" /\ identifiers' = identifiers \cup {calls[c].name}
  PROVE  NameLocks'
<1>1. SUFFICES ASSUME NEW b \in Calls, calls'[b].at = "store"
               PROVE  /\ calls'[b].named <=> calls'[b].name \notin identifiers'
                      /\ \A a \in Calls \ {b} :
                           calls'[a].at = "store" /\ calls'[a].named /\ calls'[b].named =>
                             calls'[a].name # calls'[b].name
  BY DEF NameLocks
<1>2. \A a \in Calls : calls'[a].at = "store" => a # c /\ calls'[a] = calls[a] BY DEF Own
<1>3. \A a, e \in Calls : calls[a].at = "store" /\ calls[e].at = "store" /\ a # e =>
        /\ calls[a].named <=> calls[a].name \notin identifiers
        /\ ~(calls[a].named /\ calls[e].named /\ calls[a].name = calls[e].name)
  BY DEF IInv, NameLocks
<1>4. calls[b].named <=> calls[b].name \notin identifiers
  BY <1>1, <1>2 DEF IInv, NameLocks
<1>5. calls[c].at = "store" => (calls[c].named <=> calls[c].name \notin identifiers)
  BY DEF IInv, NameLocks
<1>6. calls[b].named \in BOOLEAN /\ calls[c].named \in BOOLEAN
  BY <1>1, <1>2, Fields DEF IInv, Request, Own
<1>7. calls[b].named <=> calls[b].name \notin identifiers'
  BY <1>1, <1>2, <1>3, <1>4, <1>5, <1>6
<1> QED BY <1>1, <1>2, <1>3, <1>7

(* With the tables as they were a request has done what it had done.       *)
LEMMA SameTables ==
  ASSUME NEW c, Same(calls[c], calls'[c]), UNCHANGED <<devices, commands>>
  PROVE  /\ Part(c)' <=> Part(c)
         /\ \A N : Stored(c, N)' <=> Stored(c, N)
<1>1. Untouched(c)' <=> Untouched(c) BY DEF Untouched, Same
<1>2. \A N : Stored(c, N)' <=> Stored(c, N) BY DEF Stored, Same
<1> QED BY <1>1, <1>2 DEF Part

(* Whatever it has stored is a part of what it was asked for.              *)
LEMMA PartDone ==
  ASSUME IInv, NEW c \in Calls, calls[c].at \in Going, calls[c].alone
  PROVE  Part(c)
<1>1. AloneWork(c) /\ Sent(c) BY GoingFields DEF IInv
<1>2. CASE calls[c].at \in {"first", "begun"} BY <1>1, <1>2 DEF AloneWork
<1>3. CASE calls[c].at \in {"look", "name", "store"}
  <2>1. Stored(c, Given(calls[c].wanted) \ calls[c].left) BY <1>1, <1>3 DEF AloneWork
  <2>2. calls[c].wanted \in Offer \cup {None} BY GoingFields DEF IInv, Request
  <2>3. Given(calls[c].wanted) \ calls[c].left \in SUBSET Names BY <2>2, PartType
  <2> QED BY <2>1, <2>3 DEF Part
<1> QED BY <1>2, <1>3 DEF Going

-----------------------------------------------------------------------------
(* One lemma for each action: it keeps the invariant.                      *)

(* A request ends and has written nothing with this statement.             *)
LEMMA FinishKeeps ==
  ASSUME IInv, NEW c \in Calls, calls[c].at \in Going,
         NEW answer \in {"duplicate", "notFound", "error"}, Finish(c, answer),
         UNCHANGED <<devices, identifiers, commands>>,
         calls[c].alone /\ answer = "duplicate" => calls[c].device \in devices,
         calls[c].alone /\ answer = "notFound" => calls[c].device \notin devices
  PROVE  IInv'
<1>0. TypeOK BY DEF IInv
<1>1. /\ calls' \in [Calls -> Call] /\ \A b \in Calls \ {c} : calls'[b] = calls[b]
      /\ calls'[c] \in Request /\ Same(calls[c], calls'[c])
      /\ calls'[c].at = "done" /\ calls'[c].answer = answer
      /\ calls'[c].left = calls[c].left /\ calls'[c].named = FALSE
  BY <1>0, Finished
<1>2. Own(c) BY <1>0, <1>1, GoingFields DEF Own
<1>3. TypeOK' BY <1>1 DEF IInv, TypeOK
<1>4. NameLocks' BY <1>1, <1>2, NameLocksKept
<1>5. Sent(c) BY GoingFields DEF IInv
<1>6. Sent(c)' BY <1>1, <1>5 DEF Sent, Same
<1>7. calls'[c].alone => AloneWork(c)'
  <2>1. calls[c].alone => Part(c) BY PartDone
  <2>2. Part(c)' <=> Part(c) BY <1>1, SameTables
  <2> QED BY <1>1, <2>1, <2>2 DEF AloneWork, Same
<1> QED BY <1>1, <1>2, <1>3, <1>4, <1>6, <1>7, OwnStep DEF Kept

(* A statement is carried out, or the list is sent again from its start:   *)
(* nothing is written, and the request goes on.                            *)
LEMMA GoOn ==
  ASSUME IInv, NEW c \in Calls, calls[c].at \in Going, NEW call \in Request,
         calls' = [calls EXCEPT ![c] = call], Same(calls[c], call),
         UNCHANGED <<devices, identifiers, commands>>,
         call.at \in Going, call.left \subseteq Given(call.wanted),
         call.at \in {"first", "begun"} => call.left = Given(call.wanted),
         call.at \in {"look", "name", "store"} =>
           /\ calls[c].at \in {"look", "name", "store"}
           /\ call.left # {} /\ call.left = calls[c].left,
         call.at \in {"name", "store"} => call.name \in call.left,
         call.named => call.at = "store",
         call.at = "begun" =>
           /\ calls[c].kind = "create" <=> calls[c].device \notin devices
           /\ ~Locked(c, calls[c].device),
         NameLocks'
  PROVE  IInv'
<1>0. TypeOK BY DEF IInv
<1>1. /\ calls' \in [Calls -> Call] /\ calls'[c] = call
      /\ \A b \in Calls \ {c} : calls'[b] = calls[b]
  BY <1>0, CallsType
<1>2. Own(c) BY <1>0, <1>1, GoingFields DEF Own
<1>3. TypeOK' BY <1>1 DEF IInv, TypeOK
<1>4. Sent(c)' BY <1>1 DEF Sent
<1>5. calls'[c].alone => AloneWork(c)'
  <2>1. SUFFICES ASSUME calls[c].alone PROVE AloneWork(c)' BY <1>1 DEF Same
  <2>2. Part(c) /\ AloneWork(c) BY <2>1, PartDone, GoingFields DEF IInv
  <2>3. /\ Part(c)' <=> Part(c)
        /\ \A N : Stored(c, N)' <=> Stored(c, N)
    BY <1>1, SameTables
  <2>4. call.at # "done" BY DEF Going
  <2> QED BY <1>1, <2>2, <2>3, <2>4 DEF AloneWork, Same
<1> QED BY <1>1, <1>2, <1>3, <1>4, <1>5, OwnStep DEF Kept

(* A transaction is committed, with rows of the request's own device and,  *)
(* when it is that of an upsert, the name.                                 *)
LEMMA CommitKeeps ==
  ASSUME IInv, NEW c \in Calls, calls[c].at \in {"begun", "store"},
         NEW left \in SUBSET Given(calls[c].wanted), Continue(c, left),
         \A d \in Devices \ {calls[c].device} :
           (d \in devices' <=> d \in devices) /\ commands'[d] = commands[d],
         calls[c].at # "begun" => devices' = devices,
         \/ identifiers' = identifiers
         \/ calls[c].at = "store" /\ identifiers' = identifiers \cup {calls[c].name},
         devices' \subseteq Devices, identifiers' \subseteq Names,
         commands' \in [Devices -> Offer],
         \A d \in Devices : DOMAIN commands'[d] \subseteq IF d \in devices' THEN identifiers' ELSE {},
         calls[c].alone =>
           IF left = {} THEN Whole(c)' ELSE Stored(c, Given(calls[c].wanted) \ left)'
  PROVE  IInv'
<1>0. TypeOK BY DEF IInv
<1>1. calls[c].at \in Going BY DEF Going
<1>2. calls[c] \in Request BY <1>0, <1>1, GoingFields
<1>3. left \in SUBSET Names
  <2>1. calls[c].wanted \in Offer \cup {None} BY <1>2 DEF Request
  <2> QED BY <2>1, PartType
<1>4. /\ calls' \in [Calls -> Call] /\ \A b \in Calls \ {c} : calls'[b] = calls[b]
      /\ calls'[c] \in Request /\ Same(calls[c], calls'[c]) /\ calls'[c].named = FALSE
      /\ left # {} => calls'[c].at = "look" /\ calls'[c].left = left
      /\ left = {} => /\ calls'[c].at = "done" /\ calls'[c].answer \in {"ok", "error"}
                     /\ calls'[c].left = calls[c].left
  BY <1>0, <1>1, <1>3, Continued
<1>5. calls'[c].at \in {"look", "done"} BY <1>4
<1>6. Own(c) BY <1>2, <1>4 DEF Own
<1>7. TypeOK' BY <1>4 DEF TypeOK
<1>8. NameLocks' BY <1>5, <1>6, NameLocksKept
<1>9. Sent(c) BY <1>0, <1>1, GoingFields DEF IInv
<1>10. Sent(c)'
  <2>1. calls'[c].left \subseteq Given(calls'[c].wanted) BY <1>4, <1>9 DEF Sent, Same
  <2> QED BY <1>4, <1>5, <2>1 DEF Sent
<1>11. calls'[c].alone => AloneWork(c)'
  <2>1. SUFFICES ASSUME calls[c].alone PROVE AloneWork(c)' BY <1>4 DEF Same
  <2>2. CASE left # {}
    <3>1. Stored(c, Given(calls[c].wanted) \ left)' BY <2>1, <2>2
    <3>2. calls'[c].wanted = calls[c].wanted BY <1>4 DEF Same
    <3>3. Stored(c, Given(calls[c].wanted) \ calls[c].left)' BY <1>4, <2>2, <3>1
    <3> QED BY <1>4, <2>2, <3>2, <3>3 DEF AloneWork
  <2>3. CASE left = {}
    <3>1. Whole(c)' BY <2>1, <2>3
    <3>2. Part(c)'
      <4>1. calls'[c].wanted \in Offer \cup {None} BY <1>4 DEF Request
      <4>2. Given(calls'[c].wanted) \in SUBSET Names BY <4>1, PartType
      <4> QED BY <3>1, <4>2 DEF Whole, Part
    <3> QED BY <1>4, <2>3, <3>1, <3>2 DEF AloneWork
  <2> QED BY <2>2, <2>3
<1> QED BY <1>5, <1>6, <1>7, <1>8, <1>10, <1>11, OwnStep DEF Kept

LEMMA FirstStatementKeeps ==
  ASSUME IInv, NEW c \in Calls, FirstStatement(c)
  PROVE  IInv'
<1> DEFINE d == calls[c].device
<1>0. TypeOK BY DEF IInv
<1>1. calls[c].at = "first" /\ calls[c].at \in Going /\ ~Locked(c, d)
      /\ UNCHANGED <<devices, identifiers, commands>>
  BY DEF FirstStatement, Going
<1>2. calls[c] \in Request /\ Sent(c) BY <1>0, <1>1, GoingFields DEF IInv
<1>3. ASSUME Move(c, "begun"), calls[c].kind = "create" <=> d \notin devices
      PROVE  IInv'
  <2> DEFINE call == [calls[c] EXCEPT !.at = "begun"]
  <2>1. call \in Request /\ Same(calls[c], call) /\ call.at = "begun"
        /\ call.left = calls[c].left /\ call.named = calls[c].named
    BY <1>2 DEF Request, Same
  <2>2. calls' = [calls EXCEPT ![c] = call] BY <1>3 DEF Move
  <2> HIDE DEF call
  <2>3. calls[c].left = Given(calls[c].wanted) BY <1>1, <1>2 DEF Sent
  <2>4. calls[c].named \in BOOLEAN /\ ~calls[c].named BY <1>1, <1>2 DEF Sent, Request
  <2>5. Own(c) /\ calls'[c].at # "store"
    BY <1>0, <1>1, <1>2, <2>1, <2>2, CallsType DEF Own
  <2>6. NameLocks' BY <1>1, <2>5, NameLocksKept
  <2>7. call.left = Given(call.wanted) BY <2>1, <2>3 DEF Same
  <2>8. call.at \in Going BY <2>1 DEF Going
  <2> QED BY <1>1, <1>3, <2>1, <2>2, <2>4, <2>6, <2>7, <2>8, GoOn
<1>4. ASSUME Finish(c, "duplicate"), d \in devices PROVE IInv'
  BY <1>1, <1>4, FinishKeeps
<1>5. ASSUME Finish(c, "notFound"), d \notin devices PROVE IInv'
  BY <1>1, <1>5, FinishKeeps
<1> QED BY <1>3, <1>4, <1>5 DEF FirstStatement

LEMMA CommitFirstKeeps ==
  ASSUME IInv, NEW c \in Calls, CommitFirst(c)
  PROVE  IInv'
<1> DEFINE d == calls[c].device  wanted == calls[c].wanted
<1>0. TypeOK BY DEF IInv
<1>1. calls[c].at = "begun" /\ calls[c].at \in Going BY DEF CommitFirst, Going
<1>2. calls[c] \in Request /\ Sent(c) BY <1>0, <1>1, GoingFields DEF IInv
<1>3. PICK left : left = calls[c].left /\ left = Given(wanted) BY <1>1, <1>2 DEF Sent
<1>4. d \in Devices /\ wanted \in Offer \cup {None} /\ calls[c].kind \in {"create", "update"}
  BY <1>2 DEF Request
<1>5. devices' = devices \cup {d} /\ identifiers' = identifiers /\ Continue(c, left)
  BY <1>3 DEF CommitFirst
<1>6. \/ calls[c].kind = "update" /\ wanted = None /\ commands' = commands
      \/ /\ ~(calls[c].kind = "update" /\ wanted = None)
         /\ commands' = [commands EXCEPT ![d] = NoOffer]
  BY DEF CommitFirst
<1>7. /\ commands' \in [Devices -> Offer]
      /\ \A e \in Devices \ {d} : commands'[e] = commands[e]
      /\ commands'[d] \in {commands[d], NoOffer}
  BY <1>0, <1>4, <1>6, NoOfferType DEF TypeOK
<1>8. \A e \in Devices : DOMAIN commands'[e] \subseteq IF e \in devices' THEN identifiers' ELSE {}
  BY <1>0, <1>5, <1>7, NoOfferType DEF TypeOK
<1>9. ASSUME calls[c].alone
      PROVE  IF left = {} THEN Whole(c)' ELSE Stored(c, Given(calls[c].wanted) \ left)'
  <2>1. Same(calls[c], calls'[c])
    <3>1. left \in SUBSET Names BY <1>3, <1>4, PartType
    <3> QED BY <1>0, <1>1, <1>5, <3>1, Continued
  <2>2. d \in devices' BY <1>5
  <2>3. CASE calls[c].kind = "update" /\ wanted = None
    <3>1. left = {} /\ commands' = commands BY <1>3, <1>6, <2>3 DEF Given
    <3>2. d \in devices BY <1>1, <2>3 DEF IInv, RowLocks
    <3>3. Untouched(c)
      <4>1. AloneWork(c) BY <1>2, <1>9, <1>0, <1>1, GoingFields DEF IInv
      <4>2. Part(c) BY <1>1, <4>1 DEF AloneWork
      <4> QED BY <2>3, <4>2 DEF Part, Stored
    <3>4. Untouched(c)' BY <2>1, <2>2, <3>1, <3>2, <3>3 DEF Untouched, Same
    <3>5. Whole(c)' BY <2>1, <2>2, <2>3, <3>4 DEF Whole, Same
    <3> QED BY <3>1, <3>5
  <2>4. CASE ~(calls[c].kind = "update" /\ wanted = None)
    <3>1. commands'[d] = NoOffer BY <1>0, <1>4, <1>6, <2>4 DEF TypeOK
    <3>2. NoOffer = [n \in {} |-> wanted[n]] BY DEF NoOffer
    <3>3. calls'[c].device = d /\ calls'[c].wanted = wanted /\ calls'[c].kind = calls[c].kind
      BY <2>1 DEF Same
    <3>4. Stored(c, {})' BY <2>2, <2>4, <3>1, <3>2, <3>3 DEF Stored
    <3>5. Given(calls[c].wanted)' = left BY <1>3, <3>3
    <3>6. left = {} => Whole(c)' BY <2>4, <3>3, <3>4, <3>5 DEF Whole
    <3>7. (Given(calls[c].wanted) \ left)' = {} BY <3>5
    <3>8. Stored(c, Given(calls[c].wanted) \ left)' BY <3>4, <3>7
    <3> QED BY <3>6, <3>8
  <2> QED BY <2>3, <2>4
<1>10. devices' \subseteq Devices /\ identifiers' \subseteq Names BY <1>0, <1>4, <1>5 DEF TypeOK
<1> QED BY <1>1, <1>3, <1>5, <1>7, <1>8, <1>9, <1>10, CommitKeeps

LEMMA LookKeeps ==
  ASSUME IInv, NEW c \in Calls, NEW n \in Names, Look(c, n)
  PROVE  IInv'
<1> DEFINE call == [calls[c] EXCEPT !.name = n, !.at = IF n \in identifiers THEN "store" ELSE "name"]
<1>0. TypeOK BY DEF IInv
<1>1. calls[c].at = "look" /\ calls[c].at \in Going /\ n \in calls[c].left
      /\ calls' = [calls EXCEPT ![c] = call] /\ UNCHANGED <<devices, identifiers, commands>>
  BY DEF Look, Going
<1>2. calls[c] \in Request /\ Sent(c) BY <1>0, <1>1, GoingFields DEF IInv
<1>3. /\ call \in Request /\ Same(calls[c], call) /\ call.name = n
      /\ call.at = IF n \in identifiers THEN "store" ELSE "name"
      /\ call.left = calls[c].left /\ call.named = calls[c].named
  BY <1>2 DEF Request, Same
<1> HIDE DEF call
<1>4. ~call.named /\ call.named \in BOOLEAN BY <1>1, <1>2, <1>3 DEF Sent, Request
<1>5. NameLocks'
  <2>1. calls'[c] = call /\ \A b \in Calls \ {c} : calls'[b] = calls[b]
    BY <1>0, <1>1, <1>3, CallsType
  <2>2. calls'[c].at = "store" => (calls'[c].named <=> calls'[c].name \notin identifiers')
    BY <1>1, <1>3, <1>4, <2>1
  <2> QED BY <1>1, <1>4, <2>1, <2>2 DEF IInv, NameLocks
<1>6. call.at \in {"name", "store"} /\ call.at \in Going BY <1>3 DEF Going
<1>7. call.left \subseteq Given(call.wanted) /\ call.name \in call.left
  BY <1>1, <1>2, <1>3 DEF Sent, Same
<1> QED BY <1>1, <1>3, <1>4, <1>5, <1>6, <1>7, GoOn

LEMMA InsertNameKeeps ==
  ASSUME IInv, NEW c \in Calls, InsertName(c)
  PROVE  IInv'
<1> DEFINE n == calls[c].name
<1>0. TypeOK BY DEF IInv
<1>1. calls[c].at = "name" /\ calls[c].at \in Going /\ UNCHANGED <<devices, identifiers, commands>>
      /\ \A b \in Calls \ {c} : ~(calls[b] # New /\ calls[b].named /\ calls[b].name = n)
  BY DEF InsertName, Going
<1>2. calls[c] \in Request /\ calls[c] # New /\ Sent(c) BY <1>0, <1>1, GoingFields DEF IInv
<1>3. CASE n \in identifiers
  <2>1. Finish(c, "duplicate") BY <1>3 DEF InsertName
  <2>2. calls[c].alone => calls[c].device \in devices
    BY <1>1, <1>2 DEF IInv, AloneWork, Stored
  <2> QED BY <1>1, <2>1, <2>2, FinishKeeps
<1>4. CASE n \notin identifiers
  <2> DEFINE call == [calls[c] EXCEPT !.at = "store", !.named = TRUE]
  <2>1. calls' = [calls EXCEPT ![c] = call] BY <1>4 DEF InsertName
  <2>2. /\ call \in Request /\ Same(calls[c], call) /\ call.name = n /\ call.at = "store"
        /\ call.left = calls[c].left /\ call.named
    BY <1>2 DEF Request, Same
  <2> HIDE DEF call
  <2>3. NameLocks'
    <3>1. calls'[c] = call /\ \A b \in Calls \ {c} : calls'[b] = calls[b]
      BY <1>0, <2>1, <2>2, CallsType
    <3>2. \A b \in Calls \ {c} : calls[b].at = "store" => ~(calls[b].named /\ calls[b].name = n)
      BY <1>0, <1>1, Fields
    <3> HIDE DEF n
    <3> QED BY <1>1, <1>4, <2>2, <3>1, <3>2 DEF IInv, NameLocks
  <2>4. call.at \in Going BY <2>2 DEF Going
  <2>5. call.left \subseteq Given(call.wanted) /\ call.name \in call.left /\ call.left # {}
    BY <1>1, <1>2, <2>2 DEF Sent, Same
  <2> QED BY <1>1, <2>1, <2>2, <2>3, <2>4, <2>5, GoOn
<1> QED BY <1>3, <1>4

LEMMA StoreCommandKeeps ==
  ASSUME IInv, NEW c \in Calls, StoreCommand(c)
  PROVE  IInv'
<1> DEFINE d == calls[c].device  n == calls[c].name  wanted == calls[c].wanted
<1>0. TypeOK BY DEF IInv
<1>1. calls[c].at = "store" /\ calls[c].at \in Going /\ devices' = devices
  BY DEF StoreCommand, Going
<1>2. calls[c] \in Request /\ Sent(c) BY <1>0, <1>1, GoingFields DEF IInv
<1>3. d \in Devices /\ wanted \in Offer \cup {None} BY <1>2 DEF Request
<1>4. calls[c].left \subseteq Given(wanted) /\ n \in calls[c].left BY <1>1, <1>2 DEF Sent
<1>5. n \in Names /\ wanted[n] \in Data /\ Given(wanted) \subseteq Names BY <1>3, <1>4, PartType
<1>6. CASE d \notin devices
  BY <1>1, <1>6, FinishKeeps DEF StoreCommand
<1>7. CASE d \in devices
  <2>1. PICK left : left = calls[c].left \ {n} OBVIOUS
  <2>2. /\ commands' = [commands EXCEPT ![d] = With(@, n, wanted[n])]
        /\ identifiers' = identifiers \cup {n} /\ Continue(c, left)
    BY <1>7, <2>1 DEF StoreCommand
  <2>3. With(commands[d], n, wanted[n]) \in Offer
        /\ DOMAIN With(commands[d], n, wanted[n]) = DOMAIN commands[d] \cup {n}
    BY <1>0, <1>3, <1>5, OneMore DEF TypeOK
  <2>4. /\ commands' \in [Devices -> Offer]
        /\ \A e \in Devices \ {d} : commands'[e] = commands[e]
        /\ commands'[d] = With(commands[d], n, wanted[n])
    BY <1>0, <1>3, <2>2, <2>3 DEF TypeOK
  <2>5. \A e \in Devices : DOMAIN commands'[e] \subseteq IF e \in devices' THEN identifiers' ELSE {}
    BY <1>0, <1>1, <1>7, <2>2, <2>3, <2>4 DEF TypeOK
  <2>6. devices' \subseteq Devices /\ identifiers' \subseteq Names
    BY <1>0, <1>1, <1>5, <2>2 DEF TypeOK
  <2>7. left \in SUBSET Given(wanted) BY <1>4, <2>1
  <2>8. ASSUME calls[c].alone
        PROVE  IF left = {} THEN Whole(c)' ELSE Stored(c, Given(calls[c].wanted) \ left)'
    <3>1. Same(calls[c], calls'[c])
      <4>1. left \in SUBSET Names BY <1>5, <2>7
      <4> QED BY <1>0, <1>1, <2>2, <4>1, Continued
    <3>2. Stored(c, Given(wanted) \ calls[c].left)
      BY <1>0, <1>1, <1>2, <2>8, GoingFields DEF IInv, AloneWork
    <3>3. (Given(wanted) \ calls[c].left) \cup {n} = Given(wanted) \ left BY <1>4, <2>1
    <3>4. commands'[d] = [m \in Given(wanted) \ left |-> wanted[m]]
      <4>1. commands[d] = [m \in Given(wanted) \ calls[c].left |-> wanted[m]]
        BY <3>2 DEF Stored
      <4>2. With([m \in Given(wanted) \ calls[c].left |-> wanted[m]], n, wanted[n])
              = [m \in (Given(wanted) \ calls[c].left) \cup {n} |-> wanted[m]]
        BY OneMorePart
      <4> QED BY <2>4, <3>3, <4>1, <4>2
    <3>5. calls[c].kind = "update" => wanted # None BY <3>2 DEF Stored
    <3>6. calls'[c].device = d /\ calls'[c].wanted = wanted /\ calls'[c].kind = calls[c].kind
      BY <3>1 DEF Same
    <3>7. Stored(c, Given(calls[c].wanted) \ left)'
      BY <1>1, <1>7, <3>4, <3>5, <3>6 DEF Stored
    <3>8. left = {} => Stored(c, Given(calls[c].wanted))'
      <4>1. left = {} => (Given(calls[c].wanted) \ left)' = Given(calls[c].wanted)' OBVIOUS
      <4> QED BY <3>7, <4>1
    <3> QED BY <3>5, <3>6, <3>7, <3>8 DEF Whole
  <2> QED BY <1>1, <2>2, <2>4, <2>5, <2>6, <2>7, <2>8, CommitKeeps
<1> QED BY <1>6, <1>7

LEMMA LockErrorKeeps ==
  ASSUME IInv, NEW c \in Calls, LockError(c)
  PROVE  IInv'
<1>0. TypeOK BY DEF IInv
<1>1. calls[c].at \in Going /\ UNCHANGED <<devices, identifiers, commands>>
  BY DEF LockError, Going
<1>2. calls[c] \in Request /\ Sent(c) BY <1>0, <1>1, GoingFields DEF IInv
<1>3. CASE calls[c].retried
  BY <1>1, <1>3, FinishKeeps DEF LockError
<1>4. CASE ~calls[c].retried
  <2> DEFINE call == [calls[c] EXCEPT !.at = "first", !.left = Given(calls[c].wanted),
                                      !.name = None, !.named = FALSE, !.retried = TRUE]
  <2>1. calls' = [calls EXCEPT ![c] = call] BY <1>4 DEF LockError
  <2>2. Given(calls[c].wanted) \subseteq Names
    <3>1. calls[c].wanted \in Offer \cup {None} BY <1>2 DEF Request
    <3> QED BY <3>1, PartType
  <2>3. /\ call \in Request /\ Same(calls[c], call) /\ call.at = "first"
        /\ call.left = Given(call.wanted) /\ ~call.named
    BY <1>2, <2>2 DEF Request, Same
  <2> HIDE DEF call
  <2>4. Own(c) /\ calls'[c].at # "store"
    BY <1>0, <1>1, <1>2, <2>1, <2>3, CallsType, GoingFields DEF Own
  <2>5. NameLocks' BY <1>1, <2>4, NameLocksKept
  <2>6. call.at \in Going BY <2>3 DEF Going
  <2> QED BY <1>1, <2>1, <2>3, <2>5, <2>6, GoOn
<1> QED BY <1>3, <1>4

LEMMA OtherErrorKeeps ==
  ASSUME IInv, NEW c \in Calls, OtherError(c)
  PROVE  IInv'
<1>1. calls[c].at \in Going BY DEF OtherError, Going
<1> QED BY <1>1, FinishKeeps DEF OtherError

(* A new request, or the end of a device, leaves the calls for it as they  *)
(* were, except that they are no longer alone.                             *)
NotAlone(d, old, new) ==
  /\ old \in Request /\ new \in Request
  /\ new.at = old.at /\ new.kind = old.kind /\ new.device = old.device
  /\ new.wanted = old.wanted /\ new.left = old.left /\ new.name = old.name
  /\ new.named = old.named /\ new.answer = old.answer /\ new.before = old.before
  /\ new.alone <=> old.alone /\ old.device # d

LEMMA NoLongerAlone ==
  ASSUME TypeOK, NEW d, NEW b \in Calls,
         calls'[b] = IF b \in On(d) THEN [calls[b] EXCEPT !.alone = FALSE] ELSE calls[b]
  PROVE  \/ calls[b] = New /\ calls'[b] = New
         \/ calls[b] # New /\ calls'[b] # New /\ NotAlone(d, calls[b], calls'[b])
<1>1. CASE calls[b] = New BY <1>1 DEF On
<1>2. CASE calls[b] # New /\ calls[b].device = d
  <2>1. calls[b] \in Request BY <1>2, Fields
  <2>2. calls'[b] = [calls[b] EXCEPT !.alone = FALSE] BY <1>2 DEF On
  <2> QED BY <1>2, <2>1, <2>2 DEF Request, New, NotAlone
<1>3. CASE calls[b] # New /\ calls[b].device # d
  <2>1. calls[b] \in Request BY <1>3, Fields
  <2>2. calls'[b] = calls[b] BY <1>3 DEF On
  <2> QED BY <1>3, <2>1, <2>2 DEF Request, NotAlone
<1> QED BY <1>1, <1>2, <1>3

(* What such a step leaves of the invariant for another device's calls.    *)
LEMMA ElsewhereKept ==
  ASSUME IInv, NEW d \in Devices, NEW b \in Calls,
         calls[b] # New, NotAlone(d, calls[b], calls'[b]),
         \A e \in Devices \ {d} : (e \in devices' <=> e \in devices) /\ commands'[e] = commands[e]
  PROVE  Sent(b)' /\ (calls'[b].alone => AloneWork(b)')
<1>1. Sent(b)' BY DEF IInv, Sent, NotAlone
<1>2. ASSUME calls'[b].alone PROVE AloneWork(b)'
  <2>1. calls[b].alone /\ calls[b].device \in Devices \ {d}
    BY <1>2 DEF NotAlone, Request
  <2>2. AloneWork(b) BY <2>1 DEF IInv
  <2>3. Untouched(b)' <=> Untouched(b) BY <2>1 DEF Untouched, NotAlone
  <2>4. \A N : Stored(b, N)' <=> Stored(b, N) BY <2>1 DEF Stored, NotAlone
  <2>5. Part(b)' <=> Part(b) BY <2>3, <2>4 DEF Part
  <2>6. Whole(b)' <=> Whole(b) BY <2>1, <2>3, <2>4 DEF Whole, NotAlone
  <2> QED BY <2>1, <2>2, <2>4, <2>5, <2>6 DEF AloneWork, NotAlone
<1> QED BY <1>1, <1>2

LEMMA LocksElsewhereKept ==
  ASSUME IInv, NEW d, identifiers' = identifiers,
         \A b \in Calls : calls'[b].at \in {"begun", "store"} => NotAlone(d, calls[b], calls'[b]),
         \A b \in Calls : calls[b].at = "begun" =>
           (calls[b].device \in devices' <=> calls[b].device \in devices)
  PROVE  RowLocks' /\ NameLocks'
<1>1. RowLocks'
  <2>1. SUFFICES ASSUME NEW b \in Calls, calls'[b].at = "begun"
                 PROVE  /\ calls'[b].kind = "create" <=> calls'[b].device \notin devices'
                        /\ ~Locked(b, calls[b].device)'
    BY DEF RowLocks
  <2>2. NotAlone(d, calls[b], calls'[b]) BY <2>1
  <2>3. calls[b].at = "begun" /\ calls[b].device = calls'[b].device /\ calls[b].kind = calls'[b].kind
    BY <2>1, <2>2 DEF NotAlone
  <2>4. calls[b].kind = "create" <=> calls[b].device \notin devices
    BY <2>3 DEF IInv, RowLocks
  <2>5. ~Locked(b, calls[b].device) BY <2>3 DEF IInv, RowLocks
  <2>6. ASSUME NEW a \in Calls \ {b}, calls'[a].device = calls[b].device, calls'[a].at = "begun"
        PROVE  FALSE
    <3>1. NotAlone(d, calls[a], calls'[a]) BY <2>6
    <3>2. calls[a] # New /\ calls[a].device = calls[b].device /\ calls[a].at = "begun"
      BY <2>6, <3>1 DEF NotAlone, New
    <3> QED BY <2>5, <3>2 DEF Locked, On
  <2>7. ~Locked(b, calls[b].device)' BY <2>3, <2>6 DEF Locked, On
  <2> QED BY <2>3, <2>4, <2>7
<1>2. NameLocks'
  <2>1. \A b \in Calls : calls'[b].at = "store" =>
          /\ calls[b].at = "store" /\ calls'[b].name = calls[b].name
          /\ calls'[b].named = calls[b].named
    BY DEF NotAlone
  <2> QED BY <2>1 DEF IInv, NameLocks
<1> QED BY <1>1, <1>2

LEMMA StartKeeps ==
  ASSUME IInv, NEW c \in Calls, NEW kind \in {"create", "update"}, NEW d \in Devices,
         NEW wanted \in Offer \cup {None}, Start(c, kind, d, wanted)
  PROVE  IInv'
<1> DEFINE call == [at |-> "first", kind |-> kind, device |-> d, wanted |-> wanted,
                    left |-> Given(wanted), name |-> None, named |-> FALSE, retried |-> FALSE,
                    answer |-> "none", before |-> IF d \in devices THEN commands[d] ELSE None,
                    alone |-> \A o \in On(d) : calls[o].at = "done"]
<1>0. TypeOK /\ calls[c] = New /\ devices' = devices /\ commands' = commands
      /\ identifiers' = identifiers
  BY DEF IInv, Start
<1>1. /\ DOMAIN calls' = Calls /\ calls'[c] = call
      /\ \A b \in Calls \ {c} :
           calls'[b] = IF b \in On(d) THEN [calls[b] EXCEPT !.alone = FALSE] ELSE calls[b]
  BY DEF Start
<1>2. call \in Request
  <2>1. Given(wanted) \subseteq Names BY PartType
  <2>2. call.before \in Offer \cup {None} BY <1>0 DEF TypeOK
  <2> QED BY <2>1, <2>2 DEF Request
<1>3. /\ call.at = "first" /\ call.device = d /\ call.wanted = wanted
      /\ call.left = Given(wanted) /\ ~call.named
      /\ call.before = (IF d \in devices THEN commands[d] ELSE None)
      /\ call.alone => \A o \in On(d) : calls[o].at = "done"
  OBVIOUS
<1> HIDE DEF call
<1>4. \A b \in Calls \ {c} :
        \/ calls[b] = New /\ calls'[b] = New
        \/ calls[b] # New /\ calls'[b] # New /\ NotAlone(d, calls[b], calls'[b])
  BY <1>0, <1>1, NoLongerAlone
<1>5. TypeOK'
  <2>1. calls' \in [Calls -> Call]
    <3>1. calls' = [b \in Calls |-> calls'[b]] BY DEF Start
    <3>2. \A b \in Calls : calls'[b] \in Call BY <1>1, <1>2, <1>4 DEF Call, NotAlone
    <3> QED BY <3>1, <3>2
  <2> QED BY <1>0, <2>1 DEF TypeOK
<1>6. RowLocks' /\ NameLocks'
  <2>1. \A b \in Calls : calls'[b].at \in {"begun", "store"} => NotAlone(d, calls[b], calls'[b])
    BY <1>1, <1>3, <1>4 DEF New
  <2> QED BY <1>0, <2>1, LocksElsewhereKept
<1>7. ASSUME NEW b \in Calls, calls'[b] # New
      PROVE  Sent(b)' /\ (calls'[b].alone => OthersDone(b)' /\ AloneWork(b)')
  <2>1. CASE b = c
    <3>1. Sent(c)' BY <1>1, <1>3 DEF Sent
    <3>2. call.alone => OthersDone(c)'
      BY <1>1, <1>3, <1>4 DEF OthersDone, On, NotAlone
    <3>3. Untouched(c)' BY <1>0, <1>1, <1>3 DEF Untouched
    <3>4. AloneWork(c)' BY <1>1, <1>3, <3>3 DEF AloneWork, Part
    <3> QED BY <1>1, <2>1, <3>1, <3>2, <3>4
  <2>2. CASE b # c
    <3>1. calls[b] # New /\ NotAlone(d, calls[b], calls'[b]) BY <1>4, <1>7, <2>2
    <3>2. Sent(b)' /\ (calls'[b].alone => AloneWork(b)') BY <1>0, <3>1, ElsewhereKept
    <3>3. ASSUME calls'[b].alone PROVE OthersDone(b)'
      <4>1. calls[b].alone /\ calls[b].device # d /\ calls'[b].device = calls[b].device
        BY <3>1, <3>3 DEF NotAlone
      <4>2. OthersDone(b) BY <3>1, <4>1 DEF IInv
      <4> QED BY <1>1, <1>3, <1>4, <4>1, <4>2 DEF OthersDone, On, NotAlone
    <3> QED BY <3>2, <3>3
  <2> QED BY <2>1, <2>2
<1> QED BY <1>5, <1>6, <1>7 DEF IInv

LEMMA DeleteDeviceKeeps ==
  ASSUME IInv, NEW d \in Devices, DeleteDevice(d)
  PROVE  IInv'
<1>0. TypeOK /\ devices' = devices \ {d} /\ commands' = [commands EXCEPT ![d] = NoOffer]
      /\ identifiers' = identifiers
  BY DEF IInv, DeleteDevice
<1>1. /\ calls' = [b \in Calls |-> calls'[b]]
      /\ \A b \in Calls :
           calls'[b] = IF b \in On(d) THEN [calls[b] EXCEPT !.alone = FALSE] ELSE calls[b]
  BY DEF DeleteDevice
<1>2. \A b \in Calls :
        \/ calls[b] = New /\ calls'[b] = New
        \/ calls[b] # New /\ calls'[b] # New /\ NotAlone(d, calls[b], calls'[b])
  BY <1>0, <1>1, NoLongerAlone
<1>3. /\ commands' \in [Devices -> Offer] /\ commands'[d] = NoOffer
      /\ \A e \in Devices \ {d} : (e \in devices' <=> e \in devices) /\ commands'[e] = commands[e]
  BY <1>0, NoOfferType DEF TypeOK
<1>4. TypeOK'
  <2>1. calls' \in [Calls -> Call]
    <3>1. \A b \in Calls : calls'[b] \in Call BY <1>2 DEF Call, NotAlone
    <3> QED BY <1>1, <3>1
  <2>2. \A e \in Devices : DOMAIN commands'[e] \subseteq IF e \in devices' THEN identifiers' ELSE {}
    BY <1>0, <1>3, NoOfferType DEF TypeOK
  <2> QED BY <1>0, <1>3, <2>1, <2>2 DEF TypeOK
<1>5. RowLocks' /\ NameLocks'
  <2>1. \A b \in Calls : calls'[b].at \in {"begun", "store"} => NotAlone(d, calls[b], calls'[b])
    BY <1>2 DEF New
  <2>2. ASSUME NEW b \in Calls, calls[b].at = "begun"
        PROVE  calls[b].device \in devices' <=> calls[b].device \in devices
    <3>1. calls[b] # New BY <2>2 DEF New
    <3>2. calls[b].device # d BY <2>2, <3>1 DEF DeleteDevice, On
    <3> QED BY <1>0, <3>2
  <2> QED BY <1>0, <2>1, <2>2, LocksElsewhereKept
<1>6. ASSUME NEW b \in Calls, calls'[b] # New
      PROVE  Sent(b)' /\ (calls'[b].alone => OthersDone(b)' /\ AloneWork(b)')
  <2>1. calls[b] # New /\ NotAlone(d, calls[b], calls'[b]) BY <1>2, <1>6
  <2>2. Sent(b)' /\ (calls'[b].alone => AloneWork(b)') BY <1>3, <2>1, ElsewhereKept
  <2>3. ASSUME calls'[b].alone PROVE OthersDone(b)'
    <3>1. calls[b].alone /\ calls'[b].device = calls[b].device BY <2>1, <2>3 DEF NotAlone
    <3>2. OthersDone(b) BY <2>1, <3>1 DEF IInv
    <3> QED BY <1>2, <3>1, <3>2 DEF OthersDone, On, NotAlone
  <2> QED BY <2>2, <2>3
<1> QED BY <1>4, <1>5, <1>6 DEF IInv

-----------------------------------------------------------------------------
(* Every step keeps the invariant.                                         *)
LEMMA Step == ASSUME IInv, [Next]_vars PROVE IInv'
<1>1. CASE UNCHANGED vars
  <2> USE <1>1 DEF vars
  <2>1. TypeOK' /\ RowLocks' /\ NameLocks'
    BY DEF IInv, TypeOK, RowLocks, NameLocks, Locked, On
  <2>2. \A c \in Calls : calls'[c] # New =>
          Sent(c)' /\ (calls'[c].alone => OthersDone(c)' /\ AloneWork(c)')
    <3>1. SUFFICES ASSUME NEW c \in Calls, calls[c] # New
                   PROVE  Sent(c)' /\ (calls[c].alone => OthersDone(c)' /\ AloneWork(c)')
      OBVIOUS
    <3>2. Sent(c) /\ (calls[c].alone => OthersDone(c) /\ AloneWork(c)) BY <3>1 DEF IInv
    <3>3. (Sent(c)' <=> Sent(c)) /\ (OthersDone(c)' <=> OthersDone(c))
      BY DEF Sent, OthersDone, On
    <3>4. (Untouched(c)' <=> Untouched(c)) /\ \A N : Stored(c, N)' <=> Stored(c, N)
      BY DEF Untouched, Stored
    <3>5. AloneWork(c)' <=> AloneWork(c) BY <3>4 DEF AloneWork, Part, Whole
    <3> QED BY <3>2, <3>3, <3>5
  <2> QED BY <2>1, <2>2 DEF IInv
<1>2. CASE CreateStep BY <1>2, StartKeeps DEF CreateStep
<1>3. CASE UpdateStep BY <1>3, StartKeeps DEF UpdateStep
<1>4. ASSUME NEW c \in Calls, Proceed(c) PROVE IInv'
  BY <1>4, FirstStatementKeeps, CommitFirstKeeps, LookKeeps, InsertNameKeeps, StoreCommandKeeps
  DEF Proceed
<1>5. ASSUME NEW c \in Calls, LockError(c) PROVE IInv' BY <1>5, LockErrorKeeps
<1>6. ASSUME NEW c \in Calls, OtherError(c) PROVE IInv' BY <1>6, OtherErrorKeeps
<1>7. ASSUME NEW d \in Devices, DeleteDevice(d) PROVE IInv' BY <1>7, DeleteDeviceKeeps
<1> QED BY <1>1, <1>2, <1>3, <1>4, <1>5, <1>6, <1>7 DEF Next

(* Whatever requests overlap, fail, are sent twice or meet a device that is*)
(* deleted: rows and names are locked as they should be, and a request that*)
(* is alone has stored exactly what it has sent.                           *)
THEOREM InductiveInvariant == Spec => []IInv
<1>1. Init => IInv
  <2>1. SUFFICES ASSUME Init PROVE IInv OBVIOUS
  <2>2. \A c \in Calls : calls[c] = New /\ calls[c].at = "new" BY <2>1 DEF Init, New
  <2>3. TypeOK BY <2>1, NoOfferType DEF Init, TypeOK, Call
  <2> QED BY <2>2, <2>3 DEF IInv, RowLocks, NameLocks
<1>2. IInv /\ [Next]_vars => IInv' BY Step
<1> QED BY <1>1, <1>2, PTL DEF Spec

(* The tables, with their foreign keys, and the requests have their types. *)
THEOREM TypeCorrect == Spec => []TypeOK
BY InductiveInvariant, PTL DEF IInv

(* A request that is done and was alone, as the invariant describes it.    *)
LEMMA DoneAlone ==
  ASSUME IInv, NEW c \in Calls, Done(c), calls[c].alone
  PROVE  /\ calls[c].kind \in {"create", "update"} /\ calls[c].wanted \in Offer \cup {None}
         /\ AloneWork(c)
BY Fields DEF IInv, Done, Request

LEMMA OkMeans == ASSUME IInv PROVE OkMeansExactly
<1>1. SUFFICES ASSUME NEW c \in Calls, Done(c), calls[c].alone, calls[c].answer = "ok"
               PROVE  /\ calls[c].device \in devices
                      /\ commands[calls[c].device] =
                           IF calls[c].wanted # None THEN calls[c].wanted
                           ELSE IF calls[c].kind = "create" THEN NoOffer
                           ELSE calls[c].before
  BY DEF OkMeansExactly
<1> DEFINE wanted == calls[c].wanted
<1>2. calls[c].kind \in {"create", "update"} /\ wanted \in Offer \cup {None} /\ Whole(c)
  BY <1>1, DoneAlone DEF AloneWork, Done
<1>3. CASE calls[c].kind = "update" /\ wanted = None
  BY <1>2, <1>3 DEF Whole, Untouched
<1>4. CASE ~(calls[c].kind = "update" /\ wanted = None)
  <2>1. calls[c].device \in devices
        /\ commands[calls[c].device] = [n \in Given(wanted) |-> wanted[n]]
    BY <1>2, <1>4 DEF Whole, Stored
  <2>2. CASE wanted = None
    <3>1. commands[calls[c].device] = [n \in {} |-> wanted[n]] BY <2>1, <2>2 DEF Given
    <3>2. [n \in {} |-> wanted[n]] = NoOffer BY DEF NoOffer
    <3> QED BY <1>2, <1>4, <2>1, <2>2, <3>1, <3>2
  <2>3. CASE wanted # None
    <3>1. wanted \in Offer /\ Given(wanted) = DOMAIN wanted BY <1>2, <2>3 DEF Given
    <3>2. wanted = [n \in DOMAIN wanted |-> wanted[n]] BY <3>1, OfferType
    <3> QED BY <2>1, <2>3, <3>1, <3>2
  <2> QED BY <2>2, <2>3
<1> QED BY <1>3, <1>4

LEMMA ErrorMeans == ASSUME IInv PROVE ErrorMeansPart
<1>1. SUFFICES ASSUME NEW c \in Calls, Done(c), calls[c].alone, calls[c].answer # "ok"
               PROVE  LET d == calls[c].device IN
                      /\ \/ d \notin devices /\ calls[c].before = None
                         \/ d \in devices /\ commands[d] = calls[c].before
                         \/ /\ d \in devices
                            /\ calls[c].kind = "update" => calls[c].wanted # None
                            /\ \E N \in SUBSET Given(calls[c].wanted) :
                                 commands[d] = [n \in N |-> calls[c].wanted[n]]
                      /\ calls[c].answer = "duplicate" => d \in devices
                      /\ calls[c].answer = "notFound" => d \notin devices
  BY DEF ErrorMeansPart
<1>2. AloneWork(c) BY <1>1, DoneAlone
<1>3. Part(c) BY <1>1, <1>2 DEF AloneWork, Done
<1>4. CASE Untouched(c) BY <1>1, <1>2, <1>4 DEF AloneWork, Done, Untouched
<1>5. CASE \E N \in SUBSET Names : Stored(c, N)
  BY <1>1, <1>2, <1>5 DEF AloneWork, Done, Stored
<1> QED BY <1>3, <1>4, <1>5 DEF Part

(* For any number of requests, devices, names and data: a request that was *)
(* alone and is answered with ok leaves its device with what it asked for. *)
THEOREM OkAlwaysMeansExactly == Spec => []OkMeansExactly
BY InductiveInvariant, OkMeans, PTL

(* ... and one that is answered with an error has done nothing or a part   *)
(* of it, and the answer tells truly whether the device is there.          *)
THEOREM ErrorAlwaysMeansPart == Spec => []ErrorMeansPart
BY InductiveInvariant, ErrorMeans, PTL

(* Who is waited for holds the row of a device, or waits for one itself.   *)
LEMMA WaitsOnce ==
  ASSUME IInv, NEW a \in Calls, NEW b \in Calls, WaitsFor(a, b)
  PROVE  /\ ~Done(b) /\ calls[b].at \in {"begun", "store"}
         /\ calls[a].at # "name" => calls[b].at = "begun"
<1>1. calls[b] # New /\ calls[b] \in Request BY DEF WaitsFor, IInv, TypeOK, Call
<1>2. Sent(b) BY <1>1, Fields DEF IInv
<1>3. calls[b].at = "begun" \/ (calls[a].at = "name" /\ calls[b].named) BY DEF WaitsFor
<1>4. calls[b].at \in {"begun", "store"} BY <1>2, <1>3 DEF Sent
<1> QED BY <1>3, <1>4 DEF Done

(* For any number of requests, devices and names, no requests wait for each*)
(* other: a chain of waiting requests has two links at most, and ends at a *)
(* request that waits for nobody.                                          *)
THEOREM WaitsAlwaysEnd == Spec => []WaitsEnd
<1>1. ASSUME IInv, NEW a \in Calls, NEW b \in Calls, WaitsFor(a, b)
      PROVE  /\ ~Done(b)
             /\ \A c \in Calls : WaitsFor(b, c) => ~Done(c) /\ \A d \in Calls : ~WaitsFor(c, d)
  <2>1. ~Done(b) /\ calls[b].at \in {"begun", "store"} BY <1>1, WaitsOnce
  <2>2. ASSUME NEW c \in Calls, WaitsFor(b, c)
        PROVE  ~Done(c) /\ \A d \in Calls : ~WaitsFor(c, d)
    <3>1. ~Done(c) /\ calls[c].at = "begun" BY <1>1, <2>1, <2>2, WaitsOnce
    <3>2. \A d \in Calls : ~WaitsFor(c, d) BY <3>1 DEF WaitsFor
    <3> QED BY <3>1, <3>2
  <2> QED BY <2>1, <2>2
<1>2. IInv => WaitsEnd BY <1>1 DEF WaitsEnd
<1> QED BY <1>2, InductiveInvariant, PTL

(* A request's own step takes it further, and moves no other request.      *)
OwnForward(c) ==
  /\ Further(calls[c], calls'[c])
  /\ \A b \in Calls \ {c} : calls'[b] = calls[b]

(* Its end, for whatever reason.                                           *)
LEMMA EndsForward ==
  ASSUME IInv, NEW c \in Calls, calls[c].at \in Going,
         NEW answer \in {"ok", "duplicate", "notFound", "error"}, Finish(c, answer)
  PROVE  OwnForward(c)
<1>1. TypeOK BY DEF IInv
<1>2. /\ calls'[c].at = "done" /\ calls'[c].left = calls[c].left
      /\ calls'[c].retried = calls[c].retried
      /\ \A b \in Calls \ {c} : calls'[b] = calls[b]
  BY <1>1, Finished
<1>3. Order[calls[c].at] < Order[calls'[c].at] BY <1>2 DEF Going, Order
<1> QED BY <1>2, <1>3 DEF OwnForward, Further

(* A commit, after which there is less left to send, or nothing.           *)
LEMMA CommitsForward ==
  ASSUME IInv, NEW c \in Calls, calls[c].at \in Going,
         NEW left \in SUBSET calls[c].left, Continue(c, left),
         left = calls[c].left => calls[c].at \in {"first", "begun"}
  PROVE  OwnForward(c)
<1>1. TypeOK /\ calls[c] \in Request BY GoingFields DEF IInv
<1>2. left \in SUBSET Names BY <1>1 DEF Request
<1>3. CASE left = {}
  <2>1. PICK answer \in {"ok", "error"} : Finish(c, answer) BY <1>3 DEF Continue
  <2> QED BY <2>1, EndsForward
<1>4. CASE left # {}
  <2>1. /\ calls'[c].at = "look" /\ calls'[c].left = left
        /\ calls'[c].retried = calls[c].retried
        /\ \A b \in Calls \ {c} : calls'[b] = calls[b]
    BY <1>1, <1>2, <1>4, Continued
  <2>2. left = calls[c].left => Order[calls[c].at] < Order[calls'[c].at] BY <2>1 DEF Order
  <2> QED BY <2>1, <2>2 DEF OwnForward, Further
<1> QED BY <1>3, <1>4

(* A statement that commits nothing, the next one for the same command.    *)
LEMMA StatesForward ==
  ASSUME IInv, NEW c \in Calls, NEW call \in Request, calls' = [calls EXCEPT ![c] = call],
         call.left = calls[c].left, call.retried = calls[c].retried,
         Order[calls[c].at] < Order[call.at]
  PROVE  OwnForward(c)
<1>1. TypeOK BY DEF IInv
<1>2. calls'[c] = call /\ \A b \in Calls \ {c} : calls'[b] = calls[b] BY <1>1, CallsType
<1> QED BY <1>2 DEF OwnForward, Further

LEMMA ProceedForward ==
  ASSUME IInv, NEW c \in Calls, Proceed(c)
  PROVE  OwnForward(c)
<1>1. calls[c].at \in Going
  BY DEF Proceed, FirstStatement, CommitFirst, Look, InsertName, StoreCommand, Going
<1>2. TypeOK /\ calls[c] \in Request /\ Sent(c) BY <1>1, GoingFields DEF IInv
<1>3. CASE FirstStatement(c)
  <2>1. CASE Move(c, "begun")
    <3> DEFINE call == [calls[c] EXCEPT !.at = "begun"]
    <3>1. /\ call \in Request /\ call.left = calls[c].left /\ call.at = "begun"
          /\ call.retried = calls[c].retried
      BY <1>2 DEF Request
    <3>2. calls' = [calls EXCEPT ![c] = call] BY <2>1 DEF Move
    <3> HIDE DEF call
    <3>3. Order[calls[c].at] < Order[call.at] BY <1>3, <3>1 DEF FirstStatement, Order
    <3> QED BY <3>1, <3>2, <3>3, StatesForward
  <2>2. CASE Finish(c, "duplicate") \/ Finish(c, "notFound") BY <1>1, <2>2, EndsForward
  <2> QED BY <1>3, <2>1, <2>2 DEF FirstStatement
<1>4. CASE CommitFirst(c)
  <2>1. calls[c].at = "begun" /\ Continue(c, calls[c].left) BY <1>4 DEF CommitFirst
  <2> QED BY <1>1, <2>1, CommitsForward
<1>5. ASSUME NEW n \in Names, Look(c, n) PROVE OwnForward(c)
  <2> DEFINE call == [calls[c] EXCEPT !.name = n,
                                      !.at = IF n \in identifiers THEN "store" ELSE "name"]
  <2>1. /\ call \in Request /\ call.left = calls[c].left /\ call.at \in {"name", "store"}
        /\ call.retried = calls[c].retried
    BY <1>2 DEF Request
  <2>2. calls' = [calls EXCEPT ![c] = call] /\ calls[c].at = "look" BY <1>5 DEF Look
  <2> HIDE DEF call
  <2>3. Order[calls[c].at] < Order[call.at] BY <2>1, <2>2 DEF Order
  <2> QED BY <2>1, <2>2, <2>3, StatesForward
<1>6. CASE InsertName(c)
  <2> DEFINE call == [calls[c] EXCEPT !.at = "store", !.named = TRUE]
  <2>1. calls[c].at = "name" /\ (Finish(c, "duplicate") \/ calls' = [calls EXCEPT ![c] = call])
    BY <1>6 DEF InsertName
  <2>2. /\ call \in Request /\ call.left = calls[c].left /\ call.at = "store"
        /\ call.retried = calls[c].retried
    BY <1>2 DEF Request
  <2> HIDE DEF call
  <2>3. Order[calls[c].at] < Order[call.at] BY <2>1, <2>2 DEF Order
  <2> QED BY <1>1, <2>1, <2>2, <2>3, EndsForward, StatesForward
<1>7. CASE StoreCommand(c)
  <2>1. calls[c].at = "store" /\ calls[c].name \in calls[c].left
    BY <1>2, <1>7 DEF StoreCommand, Sent
  <2>2. Continue(c, calls[c].left \ {calls[c].name}) \/ Finish(c, "error")
    BY <1>7 DEF StoreCommand
  <2> QED BY <1>1, <2>1, <2>2, CommitsForward, EndsForward
<1> QED BY <1>3, <1>4, <1>5, <1>6, <1>7 DEF Proceed

LEMMA ErrorForward ==
  ASSUME IInv, NEW c \in Calls, LockError(c) \/ OtherError(c)
  PROVE  OwnForward(c)
<1>1. calls[c].at \in Going BY DEF LockError, OtherError, Going
<1>2. CASE Finish(c, "error") BY <1>1, <1>2, EndsForward
<1>3. CASE LockError(c) /\ ~calls[c].retried
  <2> DEFINE call == [calls[c] EXCEPT !.at = "first", !.left = Given(calls[c].wanted),
                                      !.name = None, !.named = FALSE, !.retried = TRUE]
  <2>1. TypeOK /\ calls[c] \in Request BY <1>1, GoingFields DEF IInv
  <2>2. Given(calls[c].wanted) \subseteq Names
    <3>1. calls[c].wanted \in Offer \cup {None} BY <2>1 DEF Request
    <3> QED BY <3>1, PartType
  <2>3. calls' = [calls EXCEPT ![c] = call] BY <1>3 DEF LockError
  <2>4. call \in Request /\ call.retried BY <2>1, <2>2 DEF Request
  <2> HIDE DEF call
  <2>5. calls'[c] = call /\ \A b \in Calls \ {c} : calls'[b] = calls[b]
    BY <2>1, <2>3, <2>4, CallsType
  <2> QED BY <1>3, <2>4, <2>5 DEF OwnForward, Further
<1> QED BY <1>2, <1>3 DEF LockError, OtherError

(* For any number of requests, devices and names, and whatever fails: each *)
(* step of a request takes it to its second try, past a command, or to the *)
(* next statement for the same one, and no other step sets it back.        *)
THEOREM OnlyEverForward == Spec => OnlyForward
<1> DEFINE Forward == \A c \in Calls :
             \/ calls'[c] = calls[c]
             \/ Further(calls[c], calls'[c])
             \/ calls'[c] = [calls[c] EXCEPT !.alone = FALSE]
<1>1. ASSUME IInv, [Next]_vars PROVE [Forward]_calls
  <2>1. CASE UNCHANGED vars BY <2>1 DEF vars
  <2>2. ASSUME NEW c \in Calls, OwnForward(c) PROVE Forward BY <2>2 DEF OwnForward
  <2>3. CASE CreateStep \/ UpdateStep
    <3>1. PICK c \in Calls, kind \in {"create", "update"}, d \in Devices,
               wanted \in Offer \cup {None} : Start(c, kind, d, wanted)
      BY <2>3 DEF CreateStep, UpdateStep
    <3>2. calls[c] = New
          /\ \A b \in Calls \ {c} :
               calls'[b] = IF b \in On(d) THEN [calls[b] EXCEPT !.alone = FALSE] ELSE calls[b]
      BY <3>1 DEF Start
    <3> QED BY <3>2 DEF Further
  <2>4. ASSUME NEW c \in Calls, Proceed(c) \/ LockError(c) \/ OtherError(c) PROVE Forward
    BY <1>1, <2>2, <2>4, ProceedForward, ErrorForward
  <2>5. ASSUME NEW d \in Devices, DeleteDevice(d) PROVE Forward BY <2>5 DEF DeleteDevice
  <2> QED BY <1>1, <2>1, <2>3, <2>4, <2>5 DEF Next
<1> QED BY <1>1, InductiveInvariant, PTL DEF Spec, OnlyForward

-----------------------------------------------------------------------------
(* Reading back: aggregateNameValuePairs is a fold over the rows, and the  *)
(* rows are the flattened rows of the devices.  Each is unfolded once, its *)
(* recursive function is shown to exist, and claims about it are proved on *)
(* the least length for which they would fail.                             *)

(* A set of naturals has a least element: what the inductions below use,   *)
(* each on the set of the lengths for which its claim would fail.          *)
LEMMA Least ==
  ASSUME NEW T \in SUBSET Nat, T # {}
  PROVE  \E m \in T : \A n \in T : m <= n
<1> DEFINE R == {ss \in Nat \X Nat : ss[1] < ss[2]}
<1>1. IsWellFoundedOn(R, Nat) BY NatLessThanWellFounded DEF OpToRel
<1>2. \E m \in T : \A n \in T : ~(<<n, m>> \in R)
  <2> HIDE DEF R
  <2> QED BY <1>1, WFMin
<1>3. PICK m \in T : \A n \in T : ~(<<n, m>> \in R) BY <1>2
<1>4. ASSUME NEW n \in T PROVE m <= n
  <2>1. m \in Nat /\ n \in Nat OBVIOUS
  <2>2. ~(n < m) BY <1>3, <2>1
  <2> HIDE DEF R
  <2> QED BY <2>1, <2>2
<1> QED BY <1>4

(* The recursive function that FoldLeft evaluates, on the sets of indices  *)
(* up to n.                                                                *)
IsFold(g, rows, n) ==
  g = [s \in SUBSET (1 .. n) |->
         IF s = {} THEN << >> ELSE AddRow(g[s \ {Max(s)}], rows[Max(s)])]

LEMMA AggregateUnfolds ==
  ASSUME NEW rows
  PROVE  Aggregate(rows) =
           (CHOOSE g : g = [s \in SUBSET (DOMAIN rows) |->
              IF s = {} THEN << >> ELSE AddRow(g[s \ {Max(s)}], rows[Max(s)])])[DOMAIN rows]
BY DEF Aggregate, FoldLeft, MapThenFoldSet

(* It exists: a set of indices up to n + 1 either lies below n + 1, or that*)
(* is its greatest element.                                                *)
LEMMA FoldExists ==
  ASSUME NEW rows, NEW n \in Nat
  PROVE  \E g : IsFold(g, rows, n)
<1> DEFINE T == {k \in 0 .. n : ~\E g : IsFold(g, rows, k)}
<1>1. SUFFICES ASSUME T # {} PROVE FALSE OBVIOUS
<1>2. PICK m \in T : \A k \in T : m <= k
  <2>1. T \in SUBSET Nat OBVIOUS
  <2> HIDE DEF T
  <2> QED BY <1>1, <2>1, Least
<1>3. m # 0
  <2>1. SUBSET (1 .. 0) = {{}} BY SMT
  <2>2. IsFold([s \in SUBSET (1 .. 0) |-> << >>], rows, 0) BY <2>1 DEF IsFold
  <2> QED BY <1>2, <2>2
<1>4. m - 1 \in 0 .. n /\ m - 1 \notin T BY <1>2, <1>3
<1>5. PICK g : IsFold(g, rows, m - 1) BY <1>4
<1> DEFINE h == [s \in SUBSET (1 .. m) |->
                   IF m \in s THEN AddRow(g[s \ {m}], rows[m]) ELSE g[s]]
<1>6. IsFold(h, rows, m)
  <2>1. SUFFICES ASSUME NEW s \in SUBSET (1 .. m)
                 PROVE  h[s] = IF s = {} THEN << >> ELSE AddRow(h[s \ {Max(s)}], rows[Max(s)])
    BY DEF IsFold
  <2>2. CASE m \in s
    <3>1. m \in s /\ \A k \in s : m >= k BY <1>2, <2>1, <2>2
    <3>2. \A k \in s : (\A j \in s : k >= j) => k = m BY <1>2, <2>1, <3>1
    <3>3. Max(s) = m BY <3>1, <3>2 DEF Max
    <3>4. s \ {m} \in SUBSET (1 .. m) /\ m \notin s \ {m} OBVIOUS
    <3>5. h[s \ {m}] = g[s \ {m}] BY <3>4
    <3> QED BY <2>2, <3>3, <3>5
  <2>3. CASE m \notin s
    <3>1. s \in SUBSET (1 .. m - 1) BY <1>2, <2>3
    <3>2. g[s] = IF s = {} THEN << >> ELSE AddRow(g[s \ {Max(s)}], rows[Max(s)])
      BY <1>5, <3>1 DEF IsFold
    <3>3. s \ {Max(s)} \in SUBSET (1 .. m) /\ m \notin s \ {Max(s)} BY <2>3
    <3>4. h[s] = g[s] /\ h[s \ {Max(s)}] = g[s \ {Max(s)}] BY <2>3, <3>3
    <3> QED BY <3>2, <3>4
  <2> QED BY <2>2, <2>3
<1> QED BY <1>2, <1>6

(* What aggregateNameValuePairs has made of the first k rows, for every k. *)
IsRun(a, rows) ==
  a[0] = << >> /\ \A k \in 1 .. Len(rows) : a[k] = AddRow(a[k - 1], rows[k])

LEMMA InitialSegments ==
  ASSUME NEW n \in Nat, NEW k \in 1 .. n
  PROVE  /\ 1 .. k \in SUBSET (1 .. n) /\ 1 .. k # {} /\ Max(1 .. k) = k
         /\ (1 .. k) \ {Max(1 .. k)} = 1 .. k - 1
<1>1. k \in 1 .. k /\ \A j \in 1 .. k : k >= j OBVIOUS
<1>2. \A i \in 1 .. k : (\A j \in 1 .. k : i >= j) => i = k BY <1>1
<1>3. Max(1 .. k) = k BY <1>1, <1>2 DEF Max
<1> QED BY <1>1, <1>3

LEMMA RunExists ==
  ASSUME NEW S, NEW rows \in Seq(S)
  PROVE  \E a : IsRun(a, rows)
<1> DEFINE n == Len(rows)
<1>1. n \in Nat OBVIOUS
<1>2. PICK g : IsFold(g, rows, n) BY <1>1, FoldExists
<1> DEFINE a == [k \in 0 .. n |-> g[1 .. k]]
<1> HIDE DEF n
<1>3. a[0] = << >>
  <2>1. 1 .. 0 = {} /\ 1 .. 0 \in SUBSET (1 .. n) BY <1>1
  <2> QED BY <1>1, <1>2, <2>1 DEF IsFold
<1>4. ASSUME NEW k \in 1 .. n PROVE a[k] = AddRow(a[k - 1], rows[k])
  <2>1. g[1 .. k] = AddRow(g[1 .. k - 1], rows[k])
    BY <1>1, <1>2, InitialSegments DEF IsFold
  <2>2. k \in 0 .. n /\ k - 1 \in 0 .. n BY <1>1
  <2> QED BY <2>1, <2>2
<1> QED BY <1>3, <1>4 DEF IsRun, n

(* The fold is the end of any such run.                                    *)
LEMMA AggregateOfRun ==
  ASSUME NEW S, NEW rows \in Seq(S), NEW a, IsRun(a, rows)
  PROVE  Aggregate(rows) = a[Len(rows)]
<1> DEFINE n == Len(rows)
           g == CHOOSE f : IsFold(f, rows, n)
           T == {k \in 0 .. n : g[1 .. k] # a[k]}
<1>1. n \in Nat /\ DOMAIN rows = 1 .. n OBVIOUS
<1>2. IsFold(g, rows, n) BY <1>1, FoldExists
<1>3. Aggregate(rows) = g[1 .. n] BY <1>1, AggregateUnfolds DEF IsFold
<1> HIDE DEF g, n
<1>4. T = {}
  <2>1. SUFFICES ASSUME T # {} PROVE FALSE OBVIOUS
  <2>2. PICK m \in T : \A k \in T : m <= k
    <3>1. T \in SUBSET Nat OBVIOUS
    <3> HIDE DEF T
    <3> QED BY <2>1, <3>1, Least
  <2>3. m # 0
    <3>1. 1 .. 0 = {} /\ 1 .. 0 \in SUBSET (1 .. n) BY <1>1
    <3>2. g[1 .. 0] = << >> BY <1>2, <3>1 DEF IsFold
    <3> QED BY <2>2, <3>2 DEF IsRun
  <2>4. m \in 1 .. n /\ m - 1 \in 0 .. n BY <1>1, <2>2, <2>3
  <2>5. g[1 .. m - 1] = a[m - 1] BY <1>1, <2>2, <2>4
  <2>6. g[1 .. m] = AddRow(g[1 .. m - 1], rows[m])
    BY <1>1, <1>2, <2>4, InitialSegments DEF IsFold
  <2>7. a[m] = AddRow(a[m - 1], rows[m]) BY <2>4 DEF IsRun, n
  <2> QED BY <2>2, <2>5, <2>6, <2>7
<1>5. n \in 0 .. n BY <1>1
<1> QED BY <1>3, <1>4, <1>5 DEF n

(* Reading no rows, and one row more.                                      *)
LEMMA AggregateNone == Aggregate(<< >>) = << >>
<1>1. << >> \in Seq({}) /\ Len(<< >>) = 0 OBVIOUS
<1>2. PICK a : IsRun(a, << >>) BY <1>1, RunExists
<1> QED BY <1>1, <1>2, AggregateOfRun DEF IsRun

LEMMA AggregateAppend ==
  ASSUME NEW S, NEW rows \in Seq(S), NEW row \in S
  PROVE  Aggregate(Append(rows, row)) = AddRow(Aggregate(rows), row)
<1> DEFINE n == Len(rows)
           more == Append(rows, row)
<1>1. PICK a : IsRun(a, rows) BY RunExists
<1>2. Aggregate(rows) = a[n] BY <1>1, AggregateOfRun
<1> DEFINE b == [k \in 0 .. n + 1 |-> IF k = n + 1 THEN AddRow(a[n], row) ELSE a[k]]
<1>3. /\ n \in Nat /\ more \in Seq(S) /\ Len(more) = n + 1
      /\ more[n + 1] = row /\ \A k \in 1 .. n : more[k] = rows[k]
  OBVIOUS
<1>4. IsRun(b, more)
  <2>1. b[0] = << >> BY <1>1, <1>3 DEF IsRun
  <2>2. ASSUME NEW k \in 1 .. n + 1 PROVE b[k] = AddRow(b[k - 1], more[k])
    <3>1. CASE k = n + 1 BY <1>3, <3>1
    <3>2. CASE k \in 1 .. n
      <4>1. a[k] = AddRow(a[k - 1], rows[k]) BY <1>1, <3>2 DEF IsRun
      <4>2. b[k] = a[k] /\ b[k - 1] = a[k - 1] BY <1>3, <3>2
      <4> QED BY <1>3, <3>2, <4>1, <4>2
    <3> QED BY <1>3, <3>1, <3>2
  <2> QED BY <1>3, <2>1, <2>2 DEF IsRun
<1>5. Aggregate(more) = b[n + 1] BY <1>3, <1>4, AggregateOfRun
<1> QED BY <1>2, <1>3, <1>5

(* The recursive function that FlattenSeq evaluates.                       *)
IsFlat(f, seqs, n) ==
  f = [i \in 1 .. n |-> IF i = 1 THEN seqs[i] ELSE f[i - 1] \o seqs[i]]

LEMMA FlattenUnfolds ==
  ASSUME NEW seqs
  PROVE  FlattenSeq(seqs) =
           IF Len(seqs) = 0 THEN seqs
           ELSE (CHOOSE f : IsFlat(f, seqs, Len(seqs)))[Len(seqs)]
BY DEF FlattenSeq, IsFlat

LEMMA FlatExists ==
  ASSUME NEW seqs, NEW n \in Nat
  PROVE  \E f : IsFlat(f, seqs, n)
<1> DEFINE T == {k \in 0 .. n : ~\E f : IsFlat(f, seqs, k)}
<1>1. SUFFICES ASSUME T # {} PROVE FALSE OBVIOUS
<1>2. PICK m \in T : \A k \in T : m <= k
  <2>1. T \in SUBSET Nat OBVIOUS
  <2> HIDE DEF T
  <2> QED BY <1>1, <2>1, Least
<1>3. m # 0
  <2>1. 1 .. 0 = {} OBVIOUS
  <2>2. IsFlat([i \in 1 .. 0 |-> << >>], seqs, 0) BY <2>1 DEF IsFlat
  <2> QED BY <1>2, <2>2
<1>4. m - 1 \in 0 .. n /\ m - 1 \notin T BY <1>2, <1>3
<1>5. PICK f : IsFlat(f, seqs, m - 1) BY <1>4
<1> DEFINE h == [i \in 1 .. m |-> IF i < m THEN f[i]
                                 ELSE IF i = 1 THEN seqs[i] ELSE f[i - 1] \o seqs[i]]
<1>6. IsFlat(h, seqs, m)
  <2>1. SUFFICES ASSUME NEW i \in 1 .. m
                 PROVE  h[i] = IF i = 1 THEN seqs[i] ELSE h[i - 1] \o seqs[i]
    BY DEF IsFlat
  <2>2. i # 1 => i - 1 \in 1 .. m /\ i - 1 < m BY <1>2
  <2>3. i # 1 => h[i - 1] = f[i - 1] BY <2>2
  <2>4. CASE i < m
    <3>1. i \in 1 .. m - 1 BY <1>2, <2>4
    <3> QED BY <1>5, <2>3, <2>4, <3>1 DEF IsFlat
  <2>5. CASE ~(i < m) BY <2>3, <2>5
  <2> QED BY <2>4, <2>5
<1> QED BY <1>2, <1>6

LEMMA FlatValue ==
  ASSUME NEW f, NEW seqs, NEW n \in Nat, IsFlat(f, seqs, n), NEW i \in 1 .. n
  PROVE  f[i] = IF i = 1 THEN seqs[i] ELSE f[i - 1] \o seqs[i]
BY DEF IsFlat

LEMMA FlatAgree ==
  ASSUME NEW s, NEW t, NEW m \in Nat, NEW n \in Nat, m <= n, \A i \in 1 .. m : s[i] = t[i],
         NEW f, IsFlat(f, s, m), NEW g, IsFlat(g, t, n)
  PROVE  \A i \in 1 .. m : f[i] = g[i]
<1> DEFINE T == {i \in 1 .. m : f[i] # g[i]}
<1>1. SUFFICES ASSUME T # {} PROVE FALSE OBVIOUS
<1>2. PICK l \in T : \A i \in T : l <= i
  <2>1. T \in SUBSET Nat OBVIOUS
  <2> HIDE DEF T
  <2> QED BY <1>1, <2>1, Least
<1>3. l \in 1 .. m /\ l \in 1 .. n OBVIOUS
<1>4. f[l] = (IF l = 1 THEN s[l] ELSE f[l - 1] \o s[l])
      /\ g[l] = (IF l = 1 THEN t[l] ELSE g[l - 1] \o t[l])
  BY <1>3 DEF IsFlat
<1>5. l # 1 => l - 1 \in 1 .. m /\ l - 1 \notin T BY <1>2, <1>3
<1> QED BY <1>2, <1>3, <1>4, <1>5

LEMMA FlattenIs ==
  ASSUME NEW seqs, NEW n \in Nat, n = Len(seqs)
  PROVE  \E f : IsFlat(f, seqs, n) /\ FlattenSeq(seqs) = IF n = 0 THEN seqs ELSE f[n]
<1>1. IsFlat(CHOOSE f : IsFlat(f, seqs, n), seqs, n) BY FlatExists
<1> QED BY <1>1, FlattenUnfolds

(* Flattening no sequences, and one sequence more.                         *)
LEMMA FlattenNone == FlattenSeq(<< >>) = << >>
BY FlattenUnfolds

LEMMA FlattenAppend ==
  ASSUME NEW R, NEW blocks \in Seq(Seq(R)), NEW block \in Seq(R)
  PROVE  FlattenSeq(Append(blocks, block)) = FlattenSeq(blocks) \o block
<1> DEFINE n == Len(blocks)
           more == Append(blocks, block)
<1>1. /\ n \in Nat /\ n + 1 \in Nat /\ Len(more) = n + 1 /\ n + 1 \in 1 .. n + 1
      /\ more[n + 1] = block /\ \A i \in 1 .. n : blocks[i] = more[i]
  OBVIOUS
<1>2. n = 0 => blocks = << >> OBVIOUS
<1> HIDE DEF n, more
<1>3. PICK f : IsFlat(f, blocks, n) /\ FlattenSeq(blocks) = IF n = 0 THEN blocks ELSE f[n]
  BY <1>1, FlattenIs DEF n
<1>4. PICK g : IsFlat(g, more, n + 1) /\ FlattenSeq(more) = g[n + 1]
  <2>1. n + 1 # 0 BY <1>1
  <2> QED BY <1>1, <2>1, FlattenIs
<1>5. g[n + 1] = IF n = 0 THEN block ELSE g[n] \o block
  <2>1. g[n + 1] = IF n + 1 = 1 THEN more[n + 1] ELSE g[n + 1 - 1] \o more[n + 1]
    BY <1>1, <1>4, FlatValue
  <2>2. n + 1 - 1 = n /\ (n + 1 = 1 <=> n = 0) BY <1>1
  <2> QED BY <1>1, <2>1, <2>2
<1>6. CASE n = 0
  <2>1. FlattenSeq(blocks) = << >> BY <1>2, <1>3, <1>6
  <2>2. << >> \o block = block BY ConcatEmptySeq
  <2> QED BY <1>4, <1>5, <1>6, <2>1, <2>2 DEF more
<1>7. CASE n # 0
  <2>1. n <= n + 1 /\ n \in 1 .. n BY <1>1, <1>7
  <2>2. \A i \in 1 .. n : f[i] = g[i]
    <3> DEFINE l == n + 1
    <3>1. IsFlat(f, blocks, n) /\ IsFlat(g, more, l) BY <1>3, <1>4
    <3>2. n \in Nat /\ l \in Nat /\ n <= l /\ \A i \in 1 .. n : blocks[i] = more[i] BY <1>1
    <3> HIDE DEF l
    <3> QED BY <3>1, <3>2, FlatAgree
  <2> QED BY <1>3, <1>4, <1>5, <1>7, <2>1, <2>2 DEF more
<1> QED BY <1>6, <1>7

-----------------------------------------------------------------------------
(* Reading back.  A row, a device or a session without one, and the item   *)
(* that the readers should make of it.                                     *)
Row == [id : Devices \cup {None}, name : Names \cup {None}, data : Data \cup {None}]
Read == Devices \cup {None}
Item(d) == [id |-> d, commands |-> IF d = None THEN None ELSE commands[d]]

(* A row with another id than the last item's, or none, starts an item.    *)
LEMMA RowOfNewItem ==
  ASSUME NEW items, NEW row, items = << >> \/ row.id = None \/ Last(items).id # row.id
  PROVE  LET item == [id |-> row.id, commands |-> IF row.id = None THEN None ELSE NoOffer]
         IN  AddRow(items, row) = Append(items,
               IF row.name = None THEN item
               ELSE [item EXCEPT !.commands = With(@, row.name, row.data)])
BY DEF AddRow

(* A row with the id of the last item goes to that item.                   *)
LEMMA RowOfSameItem ==
  ASSUME NEW S, NEW items \in Seq(S), NEW item, NEW row,
         item.id = row.id, row.id # None, row.name # None
  PROVE  AddRow(Append(items, item), row) =
           Append(items, [item EXCEPT !.commands = With(@, row.name, row.data)])
<1> DEFINE all == Append(items, item)
<1>1. items \in Seq(S \cup {item}) OBVIOUS
<1>2. /\ all \in Seq(S \cup {item}) /\ all # << >> /\ Len(all) = Len(items) + 1
      /\ all[Len(items) + 1] = item /\ \A i \in 1 .. Len(items) : all[i] = items[i]
  BY <1>1, AppendProperties
<1>3. Last(all) = item BY <1>2 DEF Last
<1>4. Front(all) = items
  <2> DEFINE n == Len(items)
             init == SubSeq(all, 1, n)
  <2>1. n \in Nat /\ \A i \in 1 .. n : all[i] \in S \cup {item} BY <1>1, <1>2
  <2>2. Front(all) = init BY <1>2, <2>1 DEF Front
  <2>3. /\ init \in Seq(S \cup {item}) /\ Len(init) = n
        /\ \A i \in 1 .. n : init[i] = items[i]
    <3> HIDE DEF all
    <3>1. /\ init \in Seq(S \cup {item}) /\ Len(init) = IF 1 <= n THEN n - 1 + 1 ELSE 0
          /\ \A i \in 1 .. n - 1 + 1 : init[i] = all[1 + i - 1]
      BY <2>1, SubSeqProperties
    <3> QED BY <1>2, <2>1, <3>1
  <2> HIDE DEF init
  <2>4. init = items BY <1>1, <2>3
  <2> QED BY <2>2, <2>4
<1> HIDE DEF all
<1> QED BY <1>2, <1>3, <1>4 DEF AddRow, all

(* The order of the names of a command-bearing device: every name once.    *)
LEMMA NamesInOrder ==
  ASSUME NEW N, IsFiniteSet(N), NEW ns \in SetToSeqs(N)
  PROVE  /\ Cardinality(N) \in Nat /\ ns \in [1 .. Cardinality(N) -> N]
         /\ \A i, j \in 1 .. Cardinality(N) : ns[i] = ns[j] => i = j
         /\ N = {ns[i] : i \in 1 .. Cardinality(N)}
<1> DEFINE c == Cardinality(N)
<1>1. c \in Nat BY FS_CardinalityType
<1>2. ns \in [1 .. c -> N] /\ \A i, j \in 1 .. c : i # j => ns[i] # ns[j] BY DEF SetToSeqs
<1>3. ns \in Injection(1 .. c, N) BY <1>2 DEF Injection, IsInjective
<1>4. Cardinality(1 .. c) = c BY <1>1, FS_Interval
<1>5. ns \in Surjection(1 .. c, N) BY <1>3, <1>4, FS_Injection
<1> HIDE DEF c
<1>6. \A n \in N : \E i \in 1 .. c : ns[i] = n BY <1>5 DEF Surjection
<1> QED BY <1>1, <1>2, <1>6 DEF c

(* There is such an order.                                                 *)
LEMMA OrderExists ==
  ASSUME NEW N, IsFiniteSet(N)
  PROVE  SetToSeqs(N) # {}
<1> DEFINE c == Cardinality(N)
<1>1. c \in Nat /\ ExistsBijection(1 .. c, N) BY FS_CardinalityType
<1>2. PICK f \in [1 .. c -> N] : \A i, j \in 1 .. c : f[i] = f[j] => i = j
  BY <1>1 DEF ExistsBijection, Bijection, Injection, IsInjective
<1>3. f \in SetToSeqs(N) BY <1>2 DEF SetToSeqs
<1> QED BY <1>3

(* The rows up to one are those before it and that one.                    *)
LEMMA OneRowMore ==
  ASSUME NEW S, NEW s \in Seq(S), NEW t \in Seq(S)
  PROVE  /\ t \o SubSeq(s, 1, 0) = t
         /\ t \o SubSeq(s, 1, Len(s)) = t \o s
         /\ \A k \in 0 .. Len(s) : SubSeq(s, 1, k) \in Seq(S) /\ t \o SubSeq(s, 1, k) \in Seq(S)
         /\ \A k \in 1 .. Len(s) :
              /\ SubSeq(s, 1, k) = Append(SubSeq(s, 1, k - 1), s[k])
              /\ t \o SubSeq(s, 1, k) = Append(t \o SubSeq(s, 1, k - 1), s[k])
<1> DEFINE n == Len(s)
           init(k) == SubSeq(s, 1, k)
<1>1. n \in Nat /\ \A i \in 1 .. n : s[i] \in S OBVIOUS
<1>2. ASSUME NEW k \in 0 .. n
      PROVE  init(k) \in Seq(S) /\ Len(init(k)) = k /\ \A i \in 1 .. k : init(k)[i] = s[i]
  <2>1. k \in Int /\ \A i \in 1 .. k : s[i] \in S BY <1>1
  <2>2. /\ init(k) \in Seq(S) /\ Len(init(k)) = IF 1 <= k THEN k - 1 + 1 ELSE 0
        /\ \A i \in 1 .. k - 1 + 1 : init(k)[i] = s[1 + i - 1]
    BY <2>1, SubSeqProperties
  <2> QED BY <1>1, <2>2
<1> HIDE DEF init
<1>3. init(0) = << >> BY <1>1, <1>2
<1>4. init(n) = s BY <1>1, <1>2
<1>5. ASSUME NEW k \in 1 .. n PROVE init(k) = Append(init(k - 1), s[k])
  <2>1. k \in 0 .. n /\ k - 1 \in 0 .. n /\ s[k] \in S BY <1>1
  <2>2. /\ init(k) \in Seq(S) /\ Len(init(k)) = k /\ \A i \in 1 .. k : init(k)[i] = s[i]
        /\ init(k - 1) \in Seq(S) /\ Len(init(k - 1)) = k - 1
        /\ \A i \in 1 .. k - 1 : init(k - 1)[i] = s[i]
    BY <1>2, <2>1
  <2> DEFINE more == Append(init(k - 1), s[k])
  <2>3. /\ more \in Seq(S) /\ Len(more) = k /\ more[k] = s[k]
        /\ \A i \in 1 .. k - 1 : more[i] = s[i]
    BY <2>1, <2>2, AppendProperties
  <2> HIDE DEF more
  <2>4. ASSUME NEW i \in 1 .. k PROVE init(k)[i] = more[i]
    <3>1. i = k \/ i \in 1 .. k - 1 BY <2>1
    <3> QED BY <2>2, <2>3, <3>1
  <2>5. init(k) = more BY <2>2, <2>3, <2>4
  <2> QED BY <2>5 DEF more
<1>6. ASSUME NEW u \in Seq(S), NEW e \in S PROVE t \o Append(u, e) = Append(t \o u, e)
  <2>1. t \o u \in Seq(S) /\ << e >> \in Seq(S) BY ConcatProperties
  <2>2. Append(u, e) = u \o << e >> /\ Append(t \o u, e) = (t \o u) \o << e >>
    BY <2>1, AppendIsConcat
  <2>3. (t \o u) \o << e >> = t \o (u \o << e >>) BY <2>1, ConcatAssociative
  <2> QED BY <2>2, <2>3
<1>7. t \o init(0) = t BY <1>3, ConcatEmptySeq
<1>8. \A k \in 0 .. n : init(k) \in Seq(S) /\ t \o init(k) \in Seq(S) BY <1>2, ConcatProperties
<1>9. ASSUME NEW k \in 1 .. n PROVE t \o init(k) = Append(t \o init(k - 1), s[k])
  <2>1. k - 1 \in 0 .. n /\ s[k] \in S BY <1>1
  <2>2. init(k - 1) \in Seq(S) BY <1>2, <2>1
  <2> QED BY <1>5, <1>6, <2>1, <2>2
<1> QED BY <1>4, <1>5, <1>7, <1>8, <1>9 DEF init

(* What the first k rows of a device with commands have made of it.        *)
UpTo(d, ns, k) == [id |-> d, commands |-> [n \in {ns[i] : i \in 1 .. k} |-> commands[d][n]]]

LEMMA UpToNext ==
  ASSUME NEW d, NEW ns, NEW k \in Nat \ {0},
         NEW row, row.name = ns[k], row.data = commands[d][ns[k]]
  PROVE  [UpTo(d, ns, k - 1) EXCEPT !.commands = With(@, row.name, row.data)] = UpTo(d, ns, k)
<1> DEFINE M(j) == {ns[i] : i \in 1 .. j}
           offer(j) == [n \in M(j) |-> commands[d][n]]
<1>1. M(k) = M(k - 1) \cup {ns[k]}
  <2>1. 1 .. k = (1 .. k - 1) \cup {k} OBVIOUS
  <2> QED BY <2>1
<1>2. With(offer(k - 1), row.name, row.data) = offer(k)
  <2> HIDE DEF M
  <2> QED BY <1>1 DEF With
<1>3. UpTo(d, ns, k - 1) = [id |-> d, commands |-> offer(k - 1)]
      /\ UpTo(d, ns, k) = [id |-> d, commands |-> offer(k)]
  BY DEF UpTo
<1> HIDE DEF offer
<1> QED BY <1>2, <1>3

(* The rows of one device, or of a session without one, make one item.     *)
LEMMA BlockMakesItem ==
  ASSUME TypeOK, IsFiniteSet(Names), NEW d \in Read, NEW block \in RowsOf(d),
         NEW rows \in Seq(Row), NEW S, Aggregate(rows) \in Seq(S),
         Aggregate(rows) = << >> \/ d = None \/ Last(Aggregate(rows)).id # d
  PROVE  /\ block \in Seq(Row)
         /\ Aggregate(rows \o block) = Append(Aggregate(rows), Item(d))
<1> USE CommandsAssumption
<1> DEFINE items == Aggregate(rows)
<1>1. CASE d = None \/ commands[d] = NoOffer
  <2> DEFINE row == [id |-> d, name |-> None, data |-> None]
  <2>1. block = << row >> /\ row \in Row BY <1>1 DEF RowsOf, Row, Read
  <2>2. block \in Seq(Row) /\ rows \o block = Append(rows, row) BY <2>1, AppendIsConcat
  <2>3. Aggregate(rows \o block) = AddRow(items, row) BY <2>1, <2>2, AggregateAppend
  <2>4. row.id = d /\ row.name = None OBVIOUS
  <2> HIDE DEF row, items
  <2>5. AddRow(items, row) =
          Append(items, [id |-> d, commands |-> IF d = None THEN None ELSE NoOffer])
    BY <2>4, RowOfNewItem DEF items
  <2> QED BY <1>1, <2>2, <2>3, <2>5 DEF Item, items
<1>2. CASE ~(d = None \/ commands[d] = NoOffer)
  <2> DEFINE N == DOMAIN commands[d]
             c == Cardinality(N)
  <2>1. d \in Devices /\ d # None /\ commands[d] \in Offer /\ commands[d] # NoOffer
    BY <1>2 DEF Read, TypeOK
  <2>2. N \in SUBSET Names /\ commands[d] \in [N -> Data] BY <2>1 DEF Offer
  <2>3. N # {} BY <2>1, <2>2 DEF NoOffer
  <2>4. IsFiniteSet(N) BY <2>2, FS_Subset
  <2>5. PICK ns \in SetToSeqs(N) :
          block = [i \in DOMAIN ns |-> [id |-> d, name |-> ns[i], data |-> commands[d][ns[i]]]]
    BY <1>2 DEF RowsOf
  <2> HIDE DEF N, c
  <2>6. /\ c \in Nat /\ ns \in [1 .. c -> N]
        /\ N = {ns[i] : i \in 1 .. c}
    BY <2>4, <2>5, NamesInOrder DEF c
  <2>7. c # 0
    <3>1. 1 .. 0 = {} OBVIOUS
    <3> QED BY <2>3, <2>6, <3>1
  <2>8. /\ block \in [1 .. c -> Row]
        /\ \A i \in 1 .. c : /\ block[i].id = d /\ block[i].name = ns[i] /\ block[i].name # None
                             /\ block[i].data = commands[d][ns[i]]
    BY <2>1, <2>2, <2>5, <2>6 DEF Row
  <2>9. block \in Seq(Row) /\ Len(block) = c BY <2>6, <2>8
  <2> DEFINE First(k) == rows \o SubSeq(block, 1, k)
             T == {k \in 1 .. c : Aggregate(First(k)) # Append(items, UpTo(d, ns, k))}
  <2>10. /\ First(0) = rows /\ First(c) = rows \o block
         /\ \A k \in 0 .. c : First(k) \in Seq(Row)
         /\ \A k \in 1 .. c : First(k) = Append(First(k - 1), block[k])
    <3>1. \A k \in 0 .. Len(block) : SubSeq(block, 1, k) \in Seq(Row) /\ First(k) \in Seq(Row)
      BY <2>9, OneRowMore
    <3>2. \A k \in 1 .. Len(block) : First(k) = Append(First(k - 1), block[k])
      BY <2>9, OneRowMore
    <3>3. rows \o SubSeq(block, 1, 0) = rows BY <2>9, OneRowMore
    <3>4. rows \o SubSeq(block, 1, Len(block)) = rows \o block BY <2>9, OneRowMore
    <3>5. First(0) = rows /\ First(Len(block)) = rows \o block BY <3>3, <3>4, Zenon
    <3> HIDE DEF First
    <3> QED BY <2>9, <3>1, <3>2, <3>5
  <2> HIDE DEF First
  <2>11. ASSUME NEW k \in 1 .. c
         PROVE  Aggregate(First(k)) = AddRow(Aggregate(First(k - 1)), block[k])
    <3>1. k - 1 \in 0 .. c /\ block[k] \in Row BY <2>6, <2>8
    <3> QED BY <2>10, <3>1, AggregateAppend
  <2>12. T = {}
    <3>1. SUFFICES ASSUME T # {} PROVE FALSE OBVIOUS
    <3>2. PICK k \in T : \A j \in T : k <= j
      <4>1. T \in SUBSET Nat BY <2>6
      <4> HIDE DEF T
      <4> QED BY <3>1, <4>1, Least
    <3>3. k \in 1 .. c /\ k - 1 \in Nat BY <2>6
    <3>4. [UpTo(d, ns, k - 1) EXCEPT !.commands = With(@, block[k].name, block[k].data)]
            = UpTo(d, ns, k)
      <4>1. k \in Nat \ {0} BY <3>3
      <4>2. block[k].name = ns[k] /\ block[k].data = commands[d][ns[k]] BY <2>8, <3>3
      <4> QED BY <4>1, <4>2, UpToNext
    <3>5. CASE k = 1
      <4>1. UpTo(d, ns, 0) = [id |-> d, commands |-> NoOffer]
        <5>1. {ns[i] : i \in 1 .. 0} = {} OBVIOUS
        <5> QED BY <5>1 DEF UpTo, NoOffer
      <4>2. Aggregate(First(1)) = AddRow(items, block[1]) BY <2>10, <2>11, <3>3, <3>5
      <4>3. AddRow(items, block[1]) =
              Append(items, [UpTo(d, ns, 0) EXCEPT
                               !.commands = With(@, block[1].name, block[1].data)])
        <5>1. block[1].id = d /\ d # None /\ block[1].name # None BY <2>1, <2>8, <3>3, <3>5
        <5> QED BY <4>1, <5>1, RowOfNewItem
      <4> QED BY <3>2, <3>4, <3>5, <4>2, <4>3
    <3>6. CASE k # 1
      <4>1. k - 1 \in 1 .. c /\ k - 1 \notin T BY <2>6, <3>2, <3>3, <3>6
      <4>2. Aggregate(First(k - 1)) = Append(items, UpTo(d, ns, k - 1)) BY <4>1
      <4>3. Aggregate(First(k)) = AddRow(Append(items, UpTo(d, ns, k - 1)), block[k])
        BY <2>11, <3>3, <4>2
      <4>4. AddRow(Append(items, UpTo(d, ns, k - 1)), block[k]) =
              Append(items, [UpTo(d, ns, k - 1) EXCEPT
                               !.commands = With(@, block[k].name, block[k].data)])
        <5>1. block[k].id = d /\ d # None /\ block[k].name # None BY <2>1, <2>8, <3>3
        <5>2. UpTo(d, ns, k - 1).id = d BY DEF UpTo
        <5> QED BY <5>1, <5>2, RowOfSameItem
      <4> QED BY <3>2, <3>4, <4>3, <4>4
    <3> QED BY <3>5, <3>6
  <2>13. Aggregate(First(c)) = Append(items, UpTo(d, ns, c))
    <3>1. c \in 1 .. c BY <2>6, <2>7
    <3> QED BY <2>12, <3>1
  <2>14. UpTo(d, ns, c) = Item(d)
    <3>1. commands[d] = [n \in N |-> commands[d][n]] BY <2>2
    <3> QED BY <2>1, <2>6, <3>1 DEF UpTo, Item
  <2> QED BY <2>9, <2>10, <2>13, <2>14
<1> QED BY <1>1, <1>2

(* The items of a list of devices, one more, and the last.                 *)
LEMMA ItemsInOrder ==
  ASSUME NEW S, NEW n \in Nat, NEW h, \A i \in 1 .. n : h[i] \in S
  PROVE  /\ [i \in 1 .. n |-> h[i]] \in Seq(S)
         /\ n # 0 => Last([i \in 1 .. n |-> h[i]]) = h[n]
         /\ n # 0 => [i \in 1 .. n |-> h[i]] = Append([i \in 1 .. n - 1 |-> h[i]], h[n])
<1> DEFINE F(i) == h[i]
           f == [i \in 1 .. n |-> F(i)]
           g == [i \in 1 .. n - 1 |-> F(i)]
<1>1. f \in Seq(S) /\ Len(f) = n OBVIOUS
<1>2. ASSUME n # 0 PROVE Last(f) = F(n) /\ f = Append(g, F(n))
  <2>1. n \in 1 .. n /\ n - 1 \in Nat BY <1>2
  <2>2. Last(f) = F(n) BY <1>1, <2>1 DEF Last
  <2>3. g \in Seq(S) /\ Len(g) = n - 1 /\ F(n) \in S
    <3>1. \A i \in 1 .. n - 1 : F(i) \in S OBVIOUS
    <3> QED BY <2>1, <3>1
  <2> DEFINE more == Append(g, F(n))
  <2>4. /\ more \in Seq(S) /\ Len(more) = n /\ more[n] = F(n)
        /\ \A i \in 1 .. n - 1 : more[i] = g[i]
    BY <2>1, <2>3, AppendProperties
  <2>5. ASSUME NEW i \in 1 .. n PROVE f[i] = more[i]
    <3>1. i = n \/ i \in 1 .. n - 1 OBVIOUS
    <3> HIDE DEF more
    <3> QED BY <2>4, <3>1
  <2>6. f = more
    <3> HIDE DEF more, f
    <3> QED BY <1>1, <2>4, <2>5
  <2> QED BY <2>2, <2>6
<1> QED BY <1>1, <1>2

(* In a list of devices, none follows itself.                              *)
NoRepeat(ds) == \A i \in 1 .. Len(ds) - 1 : ds[i] = None \/ ds[i] # ds[i + 1]

(* The rows of a list of devices make an item of each.                     *)
LEMMA ResultsRead ==
  ASSUME TypeOK, IsFiniteSet(Names), NEW ds \in Seq(Read), NoRepeat(ds), NEW rows \in Results(ds)
  PROVE  Aggregate(rows) = [i \in DOMAIN ds |-> Item(ds[i])]
<1> DEFINE n == Len(ds)
           S == {Item(d) : d \in Read}
           Items(k) == [i \in 1 .. k |-> Item(ds[i])]
<1>1. n \in Nat /\ DOMAIN ds = 1 .. n /\ \A i \in 1 .. n : ds[i] \in Read OBVIOUS
<1>2. PICK blocks : /\ DOMAIN blocks = 1 .. n /\ blocks = [i \in 1 .. n |-> blocks[i]]
                    /\ \A i \in 1 .. n : blocks[i] \in RowsOf(ds[i])
                    /\ rows = FlattenSeq(blocks)
  <2>1. PICK f \in [DOMAIN ds -> UNION {RowsOf(d) : d \in Devices \cup {None}}] :
          (\A i \in DOMAIN ds : f[i] \in RowsOf(ds[i])) /\ rows = FlattenSeq(f)
    BY DEF Results
  <2> QED BY <1>1, <2>1
<1>3. \A i \in 1 .. n : blocks[i] \in Seq(Row)
  <2> TAKE i \in 1 .. n
  <2>1. << >> \in Seq(Row) /\ << >> \in Seq({}) OBVIOUS
  <2>2. Aggregate(<< >>) \in Seq({}) /\ Aggregate(<< >>) = << >>
    BY <2>1, AggregateNone, Zenon
  <2> QED BY <1>1, <1>2, <2>1, <2>2, BlockMakesItem
<1>4. blocks \in Seq(Seq(Row)) /\ Len(blocks) = n
  <2>1. blocks \in [1 .. n -> Seq(Row)] BY <1>2, <1>3
  <2> QED BY <1>1, <2>1
<1> DEFINE First(k) == SubSeq(blocks, 1, k)
<1>5. /\ First(0) = << >> /\ First(n) = blocks
      /\ \A k \in 0 .. n : First(k) \in Seq(Seq(Row))
      /\ \A k \in 1 .. n : First(k) = Append(First(k - 1), blocks[k])
  <2> DEFINE none == << >>
  <2>1. none \in Seq(Seq(Row)) OBVIOUS
  <2> HIDE DEF none
  <2>2. none \o SubSeq(blocks, 1, 0) = none BY <1>4, <2>1, OneRowMore
  <2>3. none \o SubSeq(blocks, 1, Len(blocks)) = none \o blocks BY <1>4, <2>1, OneRowMore
  <2>4. /\ \A k \in 0 .. Len(blocks) : SubSeq(blocks, 1, k) \in Seq(Seq(Row))
        /\ \A k \in 1 .. Len(blocks) : SubSeq(blocks, 1, k) = Append(SubSeq(blocks, 1, k - 1), blocks[k])
    BY <1>4, <2>1, OneRowMore
  <2>5. none \o SubSeq(blocks, 1, 0) = SubSeq(blocks, 1, 0)
        /\ none \o SubSeq(blocks, 1, Len(blocks)) = SubSeq(blocks, 1, Len(blocks))
        /\ none \o blocks = blocks
    <3>1. 0 \in 0 .. Len(blocks) /\ Len(blocks) \in 0 .. Len(blocks) BY <1>1, <1>4
    <3> QED BY <1>4, <2>4, <3>1, ConcatEmptySeq DEF none
  <2> QED BY <1>4, <2>2, <2>3, <2>4, <2>5, Zenon DEF none
<1> HIDE DEF First
<1> DEFINE Read1(k) == FlattenSeq(First(k)) \in Seq(Row) /\ Aggregate(FlattenSeq(First(k))) = Items(k)
           T == {k \in 0 .. n : ~Read1(k)}
<1> HIDE DEF Read1
<1>6. T = {}
  <2>1. SUFFICES ASSUME T # {} PROVE FALSE OBVIOUS
  <2>2. PICK k \in T : \A j \in T : k <= j
    <3>1. T \in SUBSET Nat BY <1>1
    <3> HIDE DEF T
    <3> QED BY <2>1, <3>1, Least
  <2>3. k # 0
    <3>1. Items(0) = << >>
      <4>1. 1 .. 0 = {} OBVIOUS
      <4> QED BY <4>1
    <3>2. FlattenSeq(First(0)) = << >> /\ << >> \in Seq(Row) BY <1>5, FlattenNone
    <3>3. Read1(0) BY <3>1, <3>2, AggregateNone, Zenon DEF Read1
    <3> QED BY <2>2, <3>3
  <2>4. k \in 1 .. n /\ k - 1 \in 0 .. n /\ k - 1 \in Nat /\ k - 1 \notin T BY <1>1, <2>2, <2>3
  <2>5. Read1(k - 1) BY <2>4
  <2>6. FlattenSeq(First(k)) = FlattenSeq(First(k - 1)) \o blocks[k]
    BY <1>3, <1>5, <2>4, FlattenAppend
  <2>7. /\ Items(k - 1) \in Seq(S)
        /\ k - 1 # 0 => Last(Items(k - 1)) = Item(ds[k - 1])
        /\ Items(k) = Append(Items(k - 1), Item(ds[k]))
    <3> DEFINE h == [i \in 1 .. n |-> Item(ds[i])]
    <3>1. /\ \A i \in 1 .. k - 1 : h[i] \in S /\ h[i] = Item(ds[i])
          /\ \A i \in 1 .. k : h[i] \in S /\ h[i] = Item(ds[i])
          /\ k \in Nat /\ k - 1 \in Nat
          /\ k - 1 # 0 => k - 1 \in 1 .. k - 1
          /\ k \in 1 .. k
      BY <1>1, <2>4
    <3> HIDE DEF h, S
    <3>2. [i \in 1 .. k - 1 |-> h[i]] \in Seq(S)
          /\ (k - 1 # 0 => Last([i \in 1 .. k - 1 |-> h[i]]) = h[k - 1])
      BY <3>1, ItemsInOrder
    <3>3. [i \in 1 .. k |-> h[i]] = Append([i \in 1 .. k - 1 |-> h[i]], h[k])
      BY <2>3, <3>1, ItemsInOrder
    <3>4. [i \in 1 .. k |-> h[i]] = Items(k) /\ [i \in 1 .. k - 1 |-> h[i]] = Items(k - 1)
      BY <3>1
    <3> HIDE DEF Items
    <3> QED BY <3>1, <3>2, <3>3, <3>4
  <2>8. Items(k - 1) = << >> \/ ds[k] = None \/ Last(Items(k - 1)).id # ds[k]
    <3>1. CASE k - 1 = 0
      <4>1. 1 .. k - 1 = {} BY <3>1
      <4> QED BY <4>1
    <3>2. CASE k - 1 # 0
      <4>1. k - 1 \in 1 .. n - 1 /\ k - 1 + 1 = k BY <1>1, <2>4, <3>2
      <4>2. ds[k - 1] = None \/ ds[k - 1] # ds[k] BY <4>1 DEF NoRepeat
      <4>3. Item(ds[k - 1]).id = ds[k - 1] BY DEF Item
      <4> QED BY <2>7, <3>2, <4>2, <4>3
    <3> QED BY <3>1, <3>2
  <2> DEFINE before == FlattenSeq(First(k - 1))
  <2>9. before \in Seq(Row) /\ Aggregate(before) \in Seq(S)
        /\ (Aggregate(before) = << >> \/ ds[k] = None \/ Last(Aggregate(before)).id # ds[k])
        /\ ds[k] \in Read /\ blocks[k] \in RowsOf(ds[k])
    BY <1>1, <1>2, <2>4, <2>5, <2>7, <2>8 DEF Read1
  <2> HIDE DEF before, S
  <2>10. Aggregate(before \o blocks[k]) = Append(Aggregate(before), Item(ds[k]))
    BY <2>9, BlockMakesItem
  <2>11. before \o blocks[k] \in Seq(Row) BY <1>3, <2>4, <2>9, ConcatProperties
  <2>12. Read1(k) BY <2>5, <2>6, <2>7, <2>10, <2>11 DEF before, Read1
  <2> QED BY <2>2, <2>12
<1>7. Read1(n)
  <2>1. n \in 0 .. n BY <1>1
  <2> QED BY <1>6, <2>1
<1> QED BY <1>1, <1>2, <1>5, <1>7 DEF Read1

(* There are such rows, as names and devices are finite.                   *)
LEMMA ResultsExist ==
  ASSUME TypeOK, IsFiniteSet(Names), NEW ds \in Seq(Read)
  PROVE  Results(ds) # {}
<1> DEFINE n == Len(ds)
<1>1. n \in Nat /\ DOMAIN ds = 1 .. n /\ \A i \in 1 .. n : ds[i] \in Read OBVIOUS
<1>2. ASSUME NEW d \in Read PROVE RowsOf(d) # {}
  <2>1. CASE d = None \/ commands[d] = NoOffer BY <2>1 DEF RowsOf
  <2>2. CASE ~(d = None \/ commands[d] = NoOffer)
    <3>1. d \in Devices /\ commands[d] \in Offer BY <2>2 DEF Read, TypeOK
    <3>2. DOMAIN commands[d] \in SUBSET Names BY <3>1 DEF Offer
    <3>3. SetToSeqs(DOMAIN commands[d]) # {} BY <3>2, FS_Subset, OrderExists
    <3> QED BY <2>2, <3>3 DEF RowsOf
  <2> QED BY <2>1, <2>2
<1> DEFINE blocks == [i \in 1 .. n |-> CHOOSE block \in RowsOf(ds[i]) : TRUE]
<1>3. \A i \in 1 .. n : blocks[i] \in RowsOf(ds[i]) BY <1>1, <1>2
<1>4. blocks \in [DOMAIN ds -> UNION {RowsOf(d) : d \in Devices \cup {None}}]
  BY <1>1, <1>3 DEF Read
<1> HIDE DEF blocks
<1>5. FlattenSeq(blocks) \in Results(ds) BY <1>1, <1>3, <1>4 DEF Results
<1> QED BY <1>5

(* The list of sessions of an account, with two that have no device.       *)
LEMMA SessionsInOrder ==
  ASSUME TypeOK, IsFiniteSet(Devices), NEW order \in SetToSeqs(devices),
         NEW k \in 0 .. Len(order)
  PROVE  LET sessions == SubSeq(order, 1, k) \o <<None, None>> \o SubSeq(order, k + 1, Len(order))
         IN  /\ order \in Seq(Read) /\ NoRepeat(order)
             /\ sessions \in Seq(Read) /\ NoRepeat(sessions)
<1> USE CommandsAssumption
<1> DEFINE c == Cardinality(devices)
<1>1. /\ c \in Nat /\ order \in [1 .. c -> devices]
      /\ \A i, j \in 1 .. c : order[i] = order[j] => i = j
  BY FS_Subset, NamesInOrder DEF TypeOK
<1> HIDE DEF c
<1>2. /\ order \in Seq(Read) /\ Len(order) = c
      /\ \A i \in 1 .. c : order[i] \in Read /\ order[i] # None
  BY <1>1 DEF TypeOK, Read
<1>3. NoRepeat(order)
  <2>1. ASSUME NEW i \in 1 .. c - 1 PROVE order[i] # order[i + 1]
    <3>1. i \in 1 .. c /\ i + 1 \in 1 .. c /\ i # i + 1 BY <1>1
    <3> QED BY <1>1, <3>1
  <2> QED BY <1>2, <2>1 DEF NoRepeat
<1>4. k \in Nat /\ k <= c /\ k + 1 \in Nat BY <1>1, <1>2
<1> DEFINE low == SubSeq(order, 1, k)
           nulls == <<None, None>>
           high == SubSeq(order, k + 1, c)
           sessions == low \o nulls \o high
<1>5. low \in Seq(Read) /\ Len(low) = k /\ \A i \in 1 .. k : low[i] = order[i]
  <2>1. /\ low \in Seq(Read) /\ Len(low) = IF 1 <= k THEN k - 1 + 1 ELSE 0
        /\ \A i \in 1 .. k - 1 + 1 : low[i] = order[1 + i - 1]
    <3>1. \A i \in 1 .. k : order[i] \in Read BY <1>2, <1>4
    <3> QED BY <1>2, <1>4, <3>1, SubSeqProperties
  <2> QED BY <1>4, <2>1
<1>6. high \in Seq(Read) /\ Len(high) = c - k /\ \A i \in 1 .. c - k : high[i] = order[k + i]
  <2>1. /\ high \in Seq(Read) /\ Len(high) = IF k + 1 <= c THEN c - (k + 1) + 1 ELSE 0
        /\ \A i \in 1 .. c - (k + 1) + 1 : high[i] = order[k + 1 + i - 1]
    <3>1. \A i \in k + 1 .. c : order[i] \in Read BY <1>2, <1>4
    <3> QED BY <1>1, <1>2, <1>4, <3>1, SubSeqProperties
  <2> QED BY <1>1, <1>4, <2>1
<1>7. nulls \in Seq(Read) /\ Len(nulls) = 2 /\ nulls[1] = None /\ nulls[2] = None BY DEF Read
<1> HIDE DEF low, high, nulls
<1>8. /\ sessions \in Seq(Read) /\ Len(sessions) = c + 2
      /\ \A i \in 1 .. k : sessions[i] = order[i]
      /\ sessions[k + 1] = None /\ sessions[k + 2] = None
      /\ \A i \in 1 .. c - k : sessions[k + 2 + i] = order[k + i]
  <2> DEFINE both == low \o nulls
  <2>1. /\ both \in Seq(Read) /\ Len(both) = k + 2
        /\ \A i \in 1 .. k : both[i] = order[i]
        /\ both[k + 1] = None /\ both[k + 2] = None
    <3>1. both \in Seq(Read) /\ Len(both) = Len(low) + Len(nulls)
          /\ \A i \in 1 .. Len(low) + Len(nulls) :
               both[i] = IF i <= Len(low) THEN low[i] ELSE nulls[i - Len(low)]
      BY <1>5, <1>7, ConcatProperties
    <3> HIDE DEF both
    <3>2. ASSUME NEW i \in 1 .. k PROVE both[i] = order[i]
      <4>1. i \in 1 .. k + 2 /\ i <= k BY <1>4
      <4> QED BY <1>5, <1>7, <3>1, <4>1
    <3>3. both[k + 1] = nulls[1] /\ both[k + 2] = nulls[2]
      <4>1. k + 1 \in 1 .. k + 2 /\ k + 2 \in 1 .. k + 2 /\ ~(k + 1 <= k) /\ ~(k + 2 <= k)
            /\ k + 1 - k = 1 /\ k + 2 - k = 2
        BY <1>4
      <4> QED BY <1>5, <1>7, <3>1, <4>1
    <3> QED BY <1>4, <1>5, <1>7, <3>1, <3>2, <3>3
  <2> HIDE DEF both
  <2>2. /\ both \o high \in Seq(Read) /\ Len(both \o high) = c + 2
        /\ \A i \in 1 .. k + 2 : (both \o high)[i] = both[i]
        /\ \A i \in 1 .. c - k : (both \o high)[k + 2 + i] = high[i]
    <3> DEFINE all == both \o high
    <3>1. all \in Seq(Read) /\ Len(all) = Len(both) + Len(high)
          /\ \A i \in 1 .. Len(both) + Len(high) :
               all[i] = IF i <= Len(both) THEN both[i] ELSE high[i - Len(both)]
      <4>1. both \in Seq(Read) /\ high \in Seq(Read) BY <1>6, <2>1
      <4> QED BY <4>1, ConcatProperties
    <3> HIDE DEF all
    <3>2. k + 2 + (c - k) = c + 2 BY <1>1, <1>4
    <3>3. ASSUME NEW i \in 1 .. k + 2 PROVE all[i] = both[i]
      <4>1. i \in 1 .. c + 2 /\ i <= k + 2 BY <1>1, <1>4
      <4> QED BY <1>6, <2>1, <3>1, <3>2, <4>1
    <3>4. ASSUME NEW i \in 1 .. c - k PROVE all[k + 2 + i] = high[i]
      <4>1. k + 2 + i \in 1 .. c + 2 /\ ~(k + 2 + i <= k + 2) /\ k + 2 + i - (k + 2) = i
        BY <1>1, <1>4
      <4> QED BY <1>6, <2>1, <3>1, <3>2, <4>1
    <3> QED BY <1>6, <2>1, <3>1, <3>2, <3>3, <3>4 DEF all
  <2> DEFINE all == both \o high
  <2> HIDE DEF all
  <2>3. /\ all \in Seq(Read) /\ Len(all) = c + 2
        /\ \A i \in 1 .. k : all[i] = order[i]
        /\ all[k + 1] = None /\ all[k + 2] = None
        /\ \A i \in 1 .. c - k : all[k + 2 + i] = order[k + i]
    BY <1>4, <1>6, <2>1, <2>2 DEF all
  <2> QED BY <2>3 DEF all, both
<1> HIDE DEF sessions
<1>9. NoRepeat(sessions)
  <2>1. ASSUME NEW i \in 1 .. c + 2 - 1 PROVE sessions[i] = None \/ sessions[i] # sessions[i + 1]
    <3>1. CASE i < k
      <4>1. i \in 1 .. k /\ i + 1 \in 1 .. k /\ i \in 1 .. c /\ i + 1 \in 1 .. c /\ i # i + 1
        BY <1>1, <1>4, <3>1
      <4> QED BY <1>1, <1>8, <4>1
    <3>2. CASE i = k
      <4>1. i \in 1 .. k /\ i \in 1 .. c BY <1>1, <1>4, <3>2
      <4> QED BY <1>2, <1>8, <3>2, <4>1
    <3>3. CASE i = k + 1 \/ i = k + 2 BY <1>8, <3>3
    <3>4. CASE i > k + 2
      <4> DEFINE j == i - (k + 2)
      <4>1. /\ j \in 1 .. c - k /\ j + 1 \in 1 .. c - k
            /\ k + 2 + j = i /\ k + 2 + (j + 1) = i + 1
            /\ k + j \in 1 .. c /\ k + (j + 1) \in 1 .. c /\ k + j # k + (j + 1)
        BY <1>1, <1>4, <3>4
      <4> HIDE DEF j
      <4>2. sessions[i] = order[k + j] /\ sessions[i + 1] = order[k + (j + 1)] BY <1>8, <4>1
      <4> QED BY <1>1, <4>1, <4>2
    <3> QED BY <1>4, <3>1, <3>2, <3>3, <3>4
  <2> QED BY <1>1, <1>8, <2>1 DEF NoRepeat
<1> QED BY <1>2, <1>3, <1>8, <1>9 DEF sessions, low, high, nulls

(* What ReadsAgree says of one order of the devices.                       *)
ReadsAgreeFor(order) ==
  /\ AccountDevices(order) = {[i \in DOMAIN order |-> Item(order[i])]}
  /\ \A k \in 0 .. Len(order) :
       LET sessions == SubSeq(order, 1, k) \o <<None, None>> \o SubSeq(order, k + 1, Len(order))
       IN \A rows \in Results(sessions) :
            Aggregate(rows) = [i \in DOMAIN sessions |-> Item(sessions[i])]

LEMMA ReadsAgreeHere ==
  ASSUME TypeOK, IsFiniteSet(Names), IsFiniteSet(Devices)
  PROVE  ReadsAgree
<1> SUFFICES ASSUME NEW order \in SetToSeqs(devices) PROVE ReadsAgreeFor(order)
  BY DEF ReadsAgree, ReadsAgreeFor, Item
<1>1. order \in Seq(Read) /\ NoRepeat(order)
  <2>1. IsFiniteSet(devices) BY FS_Subset DEF TypeOK
  <2>2. Cardinality(devices) \in Nat /\ order \in [1 .. Cardinality(devices) -> devices]
    BY <2>1, NamesInOrder
  <2>3. 0 \in 0 .. Len(order) BY <2>2
  <2> QED BY <2>3, SessionsInOrder
<1>2. AccountDevices(order) = {[i \in DOMAIN order |-> Item(order[i])]}
  <2> DEFINE all == [i \in DOMAIN order |-> Item(order[i])]
  <2>1. \A rows \in Results(order) : Aggregate(rows) = all BY <1>1, ResultsRead
  <2>2. Results(order) # {} BY <1>1, ResultsExist
  <2> HIDE DEF all
  <2> QED BY <2>1, <2>2 DEF AccountDevices, all
<1>3. ASSUME NEW k \in 0 .. Len(order)
      PROVE  LET sessions == SubSeq(order, 1, k) \o <<None, None>> \o SubSeq(order, k + 1, Len(order))
             IN \A rows \in Results(sessions) :
                  Aggregate(rows) = [i \in DOMAIN sessions |-> Item(sessions[i])]
  <2> DEFINE sessions == SubSeq(order, 1, k) \o <<None, None>> \o SubSeq(order, k + 1, Len(order))
  <2>1. sessions \in Seq(Read) /\ NoRepeat(sessions) BY SessionsInOrder
  <2> HIDE DEF sessions
  <2>2. \A rows \in Results(sessions) :
          Aggregate(rows) = [i \in DOMAIN sessions |-> Item(sessions[i])]
    BY <2>1, ResultsRead
  <2> QED BY <2>2 DEF sessions
<1> QED BY <1>2, <1>3 DEF ReadsAgreeFor

(* For any requests, and finitely many devices and names: however the rows *)
(* of a device are ordered, accountDevices and sessions make one item of   *)
(* it, with the commands stored, and one of each session without a device. *)
THEOREM ReadsAlwaysAgree ==
  ASSUME IsFiniteSet(Names), IsFiniteSet(Devices)
  PROVE  Spec => []ReadsAgree
<1>1. TypeOK => ReadsAgree BY ReadsAgreeHere
<1> QED BY <1>1, TypeCorrect, PTL
=============================================================================
