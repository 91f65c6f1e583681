---------------------------- MODULE DeviceCommands ----------------------------
(***************************************************************************)
(* createDevice and updateDevice of lib/db/postgres.js with the commands   *)
(* that a device offers, and how a device's commands are read back.        *)
(*                                                                         *)
(* A request is a list of statements that writeMultiple sends inside a     *)
(* transaction, which is tried once more after a lock error.  Yet the list *)
(* is not atomic: upsertAvailableCommand_1 starts a transaction of its own,*)
(* which commits what came before, and commits that again.                 *)
(*                                                                         *)
(* A device stands for its uid and id.  The columns of devices are left    *)
(* out, and so is the index on the session (see SessionTokens): a device   *)
(* is there or not.  Only the SELECT in upsertAvailableCommand_1 takes no  *)
(* lock.  The row of a device is locked from the first statement to its    *)
(* commit, a new name from its INSERT to the commit of that procedure.     *)
(***************************************************************************)
EXTENDS Naturals, SequencesExt

CONSTANTS
  Calls,      \* requests
  Devices,    \* pairs of a uid and a device id
  Names,      \* names of commands
  Data,       \* what a device tells about a command
  None        \* NULL, or "not given"

ASSUME CommandsAssumption == None \notin Devices \cup Names \cup Data

VARIABLES
  devices,      \* the rows of devices
  identifiers,  \* the rows of deviceCommandIdentifiers: names, each with one commandId
  commands,     \* [Devices -> Offer]: the rows of deviceCommands
  calls         \* [Calls -> Call]

vars == <<devices, identifiers, commands, calls>>

(* The availableCommands of a device: an object with some of the names.    *)
Offer == UNION {[N -> Data] : N \in SUBSET Names}
NoOffer == [n \in {} |-> None]

With(offer, n, data) == [m \in DOMAIN offer \cup {n} |-> IF m = n THEN data ELSE offer[m]]

New == [at |-> "new"]

(* at is the statement that is sent next.  wanted is None when the request *)
(* has no availableCommands.  named says that the name was inserted by this*)
(* request and is not committed yet.  before and alone are history: what   *)
(* the device offered at first (None: there was no device), and whether no *)
(* other request has touched the device since just before this one.        *)
Request ==
  [at : {"first", "begun", "look", "name", "store", "done"},
   kind : {"create", "update"}, device : Devices, wanted : Offer \cup {None},
   left : SUBSET Names, name : Names \cup {None}, named : BOOLEAN, retried : BOOLEAN,
   answer : {"none", "ok", "duplicate", "notFound", "error"},
   before : Offer \cup {None}, alone : BOOLEAN]

Call == {New} \cup Request

(* With the foreign keys of deviceCommands.                                *)
TypeOK ==
  /\ devices \subseteq Devices
  /\ identifiers \subseteq Names
  /\ commands \in [Devices -> Offer]
  /\ calls \in [Calls -> Call]
  /\ \A d \in Devices : DOMAIN commands[d] \subseteq IF d \in devices THEN identifiers ELSE {}

Init ==
  /\ devices = {}
  /\ identifiers = {}
  /\ commands = [d \in Devices |-> NoOffer]
  /\ calls = [c \in Calls |-> New]

On(d) == {c \in Calls : calls[c] # New /\ calls[c].device = d}

Given(wanted) == IF wanted = None THEN {} ELSE DOMAIN wanted

(* Faulty: a request ends without COMMIT or ROLLBACK and keeps its locks.  *)
Locked_AfterEnd(c, d) == \E b \in On(d) \ {c} : calls[b].at \in {"begun", "done"}

(* Someone else's uncommitted statement holds the device's row.            *)
Locked(c, d) == \E b \in On(d) \ {c} : calls[b].at = "begun"

-----------------------------------------------------------------------------
(* A request arrives.                                                      *)
Start(c, kind, d, wanted) ==
  /\ calls[c] = New
  /\ calls' = [b \in Calls |->
       IF b = c
       THEN [at |-> "first", kind |-> kind, device |-> d, wanted |-> wanted,
             left |-> Given(wanted), name |-> None, named |-> FALSE, retried |-> FALSE,
             answer |-> "none", before |-> IF d \in devices THEN commands[d] ELSE None,
             alone |-> \A o \in On(d) : calls[o].at = "done"]
       ELSE IF b \in On(d) THEN [calls[b] EXCEPT !.alone = FALSE] ELSE calls[b]]
  /\ UNCHANGED <<devices, identifiers, commands>>

Move(c, at) == calls' = [calls EXCEPT ![c].at = at]

(* Faulty: the transaction is not ended, and keeps the name it inserted.   *)
Finish_KeepsName(c, answer) ==
  calls' = [calls EXCEPT ![c].at = "done", ![c].answer = answer]

(* The answer; nothing is left uncommitted.                                *)
Finish(c, answer) ==
  calls' = [calls EXCEPT ![c].at = "done", ![c].answer = answer, ![c].named = FALSE]

(* The next upsert, or the last COMMIT, whose answer may get lost.         *)
Continue(c, left) ==
  IF left # {}
  THEN calls' = [calls EXCEPT ![c].at = "look", ![c].left = left, ![c].named = FALSE]
  ELSE \E answer \in {"ok", "error"} : Finish(c, answer)

(* createDevice_4 or updateDevice_5.  An INSERT of a device that exists is *)
(* a duplicate; an UPDATE of one that does not changes no row, which the   *)
(* resultHandler makes notFound.                                           *)
FirstStatement(c) ==
  LET d == calls[c].device IN
  /\ calls[c].at = "first"
  /\ ~Locked(c, d)
  /\ \/ calls[c].kind = "create" /\ d \notin devices /\ Move(c, "begun")
     \/ calls[c].kind = "create" /\ d \in devices /\ Finish(c, "duplicate")
     \/ calls[c].kind = "update" /\ d \in devices /\ Move(c, "begun")
     \/ calls[c].kind = "update" /\ d \notin devices /\ Finish(c, "notFound")
  /\ UNCHANGED <<devices, identifiers, commands>>

(* Faulty: updateDevice without the purge.                                 *)
CommitFirst_NoPurge(c) ==
  LET d == calls[c].device IN
  /\ calls[c].at = "begun"
  /\ devices' = devices \cup {d}
  /\ commands' = IF calls[c].kind = "create" THEN [commands EXCEPT ![d] = NoOffer] ELSE commands
  /\ Continue(c, calls[c].left)
  /\ UNCHANGED identifiers

(* Faulty: the purge is sent for every update.                             *)
CommitFirst_AlwaysPurge(c) ==
  LET d == calls[c].device IN
  /\ calls[c].at = "begun"
  /\ devices' = devices \cup {d}
  /\ commands' = [commands EXCEPT ![d] = NoOffer]
  /\ Continue(c, calls[c].left)
  /\ UNCHANGED identifiers

(* The first statement and, if an update gives availableCommands,          *)
(* purgeAvailableCommands_1, are committed: by START TRANSACTION in the    *)
(* first upsert or, without one, by the COMMIT of transaction.             *)
CommitFirst(c) ==
  LET d == calls[c].device IN
  /\ calls[c].at = "begun"
  /\ devices' = devices \cup {d}
  /\ commands' = IF calls[c].kind = "update" /\ calls[c].wanted = None
                 THEN commands ELSE [commands EXCEPT ![d] = NoOffer]
  /\ Continue(c, calls[c].left)
  /\ UNCHANGED identifiers

(* upsertAvailableCommand_1 for the next name (the order of the object's   *)
(* keys is left open): the SELECT of its identifier.                       *)
Look(c, n) ==
  /\ calls[c].at = "look"
  /\ n \in calls[c].left
  /\ calls' = [calls EXCEPT ![c].name = n,
                            ![c].at = IF n \in identifiers THEN "store" ELSE "name"]
  /\ UNCHANGED <<devices, identifiers, commands>>

(* The INSERT of a name that was not found.  It waits for a request that   *)
(* is inserting the same name, and is a duplicate once that has committed. *)
InsertName(c) ==
  LET n == calls[c].name IN
  /\ calls[c].at = "name"
  /\ ~\E b \in Calls \ {c} : calls[b] # New /\ calls[b].named /\ calls[b].name = n
  /\ IF n \in identifiers THEN Finish(c, "duplicate")
     ELSE calls' = [calls EXCEPT ![c].at = "store", ![c].named = TRUE]
  /\ UNCHANGED <<devices, identifiers, commands>>

(* Faulty: no foreign key on devices.                                      *)
StoreCommand_NoForeignKey(c) ==
  LET d == calls[c].device  n == calls[c].name IN
  /\ calls[c].at = "store"
  /\ ~Locked(c, d)
  /\ commands' = [commands EXCEPT ![d] = With(@, n, calls[c].wanted[n])]
  /\ identifiers' = identifiers \cup {n}
  /\ Continue(c, calls[c].left \ {n})
  /\ UNCHANGED devices

(* The INSERT ... ON DUPLICATE KEY UPDATE of the command and the COMMIT.   *)
(* The foreign key on devices refuses a device that is gone.               *)
StoreCommand(c) ==
  LET d == calls[c].device  n == calls[c].name IN
  /\ calls[c].at = "store"
  /\ ~Locked(c, d)
  /\ IF d \in devices
     THEN /\ commands' = [commands EXCEPT ![d] = With(@, n, calls[c].wanted[n])]
          /\ identifiers' = identifiers \cup {n}
          /\ Continue(c, calls[c].left \ {n})
     ELSE Finish(c, "error") /\ UNCHANGED <<commands, identifiers>>
  /\ UNCHANGED devices

(* A statement ends with a lock error: what is not committed is rolled     *)
(* back and, once, the whole list is sent again.                           *)
LockError(c) ==
  /\ calls[c].at \in {"first", "begun", "look", "name", "store"}
  /\ IF calls[c].retried THEN Finish(c, "error")
     ELSE calls' = [calls EXCEPT ![c].at = "first", ![c].left = Given(calls[c].wanted),
                                 ![c].name = None, ![c].named = FALSE, ![c].retried = TRUE]
  /\ UNCHANGED <<devices, identifiers, commands>>

(* Any other error, and a lost connection: rolled back, not tried again.   *)
OtherError(c) ==
  /\ calls[c].at \in {"first", "begun", "look", "name", "store"}
  /\ Finish(c, "error")
  /\ UNCHANGED <<devices, identifiers, commands>>

(* deleteDevice: the commands go with the device (ON DELETE CASCADE).      *)
DeleteDevice(d) ==
  /\ d \in devices
  /\ \A c \in On(d) : calls[c].at # "begun"
  /\ devices' = devices \ {d}
  /\ commands' = [commands EXCEPT ![d] = NoOffer]
  /\ calls' = [c \in Calls |-> IF c \in On(d) THEN [calls[c] EXCEPT !.alone = FALSE] ELSE calls[c]]
  /\ UNCHANGED identifiers

-----------------------------------------------------------------------------
CreateStep ==
  \E c \in Calls, d \in Devices, wanted \in Offer \cup {None} : Start(c, "create", d, wanted)

UpdateStep ==
  \E c \in Calls, d \in Devices, wanted \in Offer \cup {None} : Start(c, "update", d, wanted)

Proceed(c) ==
  \/ FirstStatement(c) \/ CommitFirst(c)
  \/ \E n \in Names : Look(c, n)
  \/ InsertName(c) \/ StoreCommand(c)

Next ==
  \/ CreateStep \/ UpdateStep
  \/ \E c \in Calls : Proceed(c) \/ LockError(c) \/ OtherError(c)
  \/ \E d \in Devices : DeleteDevice(d)

Spec == Init /\ [][Next]_vars

(* The database carries out a statement that waits for no lock, or fails.  *)
(* Nothing is assumed of failures: no lock wait needs a timeout to end.    *)
FairSpec == Spec /\ \A c \in Calls : WF_vars(Proceed(c))

-----------------------------------------------------------------------------
(* Reading back.  The SELECTs join devices, commands and names: a row for  *)
(* each command of a device, one with NULLs for a device without commands. *)
(* They are ordered by device (accountDevices_15) or by session            *)
(* (sessions_11, which has a row of NULLs for a session without device),   *)
(* not by name.                                                            *)
RowsOf(d) ==
  IF d = None \/ commands[d] = NoOffer
  THEN {<<[id |-> d, name |-> None, data |-> None]>>}
  ELSE {[i \in DOMAIN ns |-> [id |-> d, name |-> ns[i], data |-> commands[d][ns[i]]]] :
          ns \in SetToSeqs(DOMAIN commands[d])}

(* The results there can be for a list of devices (None: no device).       *)
Results(ds) ==
  {FlattenSeq(blocks) :
     blocks \in {f \in [DOMAIN ds -> UNION {RowsOf(d) : d \in Devices \cup {None}}] :
                   \A i \in DOMAIN ds : f[i] \in RowsOf(ds[i])}}

(* Faulty: rows with the id NULL are merged as well.                       *)
AddRow_MergeNulls(items, row) ==
  LET fresh == items = << >> \/ Last(items).id # row.id
      item  == IF fresh THEN [id |-> row.id, commands |-> IF row.id = None THEN None ELSE NoOffer]
                        ELSE Last(items)
      more  == IF row.name = None THEN item
               ELSE [item EXCEPT !.commands = With(@, row.name, row.data)]
  IN Append(IF fresh THEN items ELSE Front(items), more)

(* One step of aggregateNameValuePairs: a row goes to the last item, if    *)
(* that has the same id, and not NULL.                                     *)
AddRow(items, row) ==
  LET fresh == items = << >> \/ row.id = None \/ Last(items).id # row.id
      item  == IF fresh THEN [id |-> row.id, commands |-> IF row.id = None THEN None ELSE NoOffer]
                        ELSE Last(items)
      more  == IF row.name = None THEN item
               ELSE [item EXCEPT !.commands = With(@, row.name, row.data)]
  IN Append(IF fresh THEN items ELSE Front(items), more)

Aggregate(rows) == FoldLeft(AddRow, << >>, rows)

(* accountDevices: the devices of the account, in the order of their ids.  *)
AccountDevices(order) == {Aggregate(rows) : rows \in Results(order)}

(* device: the first item, or notFound (None) without any.                 *)
Device(d) == {Aggregate(rows)[1] : rows \in Results(<<d>>)}

-----------------------------------------------------------------------------
Done(c) == calls[c] # New /\ calls[c].at = "done"

(* A request that was answered without an error, and that no other request *)
(* for the device overlapped, leaves the device with the commands it gave, *)
(* neither more nor less, although its statements are committed one by one *)
(* and may have been sent twice; given none, an update leaves them alone.  *)
OkMeansExactly ==
  \A c \in Calls : Done(c) /\ calls[c].alone /\ calls[c].answer = "ok" =>
    /\ calls[c].device \in devices
    /\ commands[calls[c].device] =
         IF calls[c].wanted # None THEN calls[c].wanted
         ELSE IF calls[c].kind = "create" THEN NoOffer
         ELSE calls[c].before

(* What a request did that was answered with an error: nothing, or a part  *)
(* of what it was asked, never a mix with what the device offered before.  *)
(* "duplicate" may come from the request's own first try, or from a name   *)
(* that another request has just inserted, so it does not say that the     *)
(* device existed; but the device is there afterwards.                     *)
ErrorMeansPart ==
  \A c \in Calls : Done(c) /\ calls[c].alone /\ calls[c].answer # "ok" =>
    LET d == calls[c].device IN
    /\ \/ d \notin devices /\ calls[c].before = None
       \/ d \in devices /\ commands[d] = calls[c].before
       \/ /\ d \in devices
          /\ calls[c].kind = "update" => calls[c].wanted # None
          /\ \E N \in SUBSET Given(calls[c].wanted) :
               commands[d] = [n \in N |-> calls[c].wanted[n]]
    /\ calls[c].answer = "duplicate" => d \in devices
    /\ calls[c].answer = "notFound" => d \notin devices

(* However the names are ordered, reading back gives each device once with *)
(* the commands stored for it, and each session without a device apart.    *)
ReadsAgree ==
  LET Item(d) == [id |-> d, commands |-> IF d = None THEN None ELSE commands[d]] IN
  \A order \in SetToSeqs(devices) :
    /\ AccountDevices(order) = {[i \in DOMAIN order |-> Item(order[i])]}
    /\ \A k \in 0 .. Len(order) :
         LET sessions == SubSeq(order, 1, k) \o <<None, None>> \o SubSeq(order, k + 1, Len(order))
         IN \A rows \in Results(sessions) :
              Aggregate(rows) = [i \in DOMAIN sessions |-> Item(sessions[i])]

(* The next statement of a waits for b: for the device's row, or for the   *)
(* name that b has inserted.                                               *)
WaitsFor(a, b) ==
  /\ a # b /\ calls[a] # New /\ calls[b] # New
  /\ \/ /\ calls[a].at \in {"first", "store"} /\ calls[b].at = "begun"
        /\ calls[a].device = calls[b].device
     \/ calls[a].at = "name" /\ calls[b].named /\ calls[a].name = calls[b].name

(* There is no deadlock, between however many requests: who is waited for  *)
(* is still at work, and waits for at most one more, who waits for nobody. *)
(* The row of a device is given up before a name is waited for, and with a *)
(* name inserted a request waits at most for its row.                      *)
WaitsEnd ==
  \A a, b \in Calls : WaitsFor(a, b) =>
    /\ ~Done(b)
    /\ \A c \in Calls : WaitsFor(b, c) => ~Done(c) /\ \A d \in Calls : ~WaitsFor(c, d)

(* A request has got further: to its second try, past one of the commands  *)
(* that it has to store, or to a later statement for the same one.         *)
Order == [first |-> 1, begun |-> 2, look |-> 3, name |-> 4, store |-> 5, done |-> 6]

Further(old, new) ==
  \/ old = New
  \/ ~old.retried /\ new.retried
  \/ /\ new.retried = old.retried
     /\ \/ new.left \subseteq old.left /\ new.left # old.left
        \/ new.left = old.left /\ Order[old.at] < Order[new.at]

(* Each step of a request takes it further, whatever fails, and steps of   *)
(* others never set it back.  As it gives finitely many commands, it comes *)
(* to an end, although it goes from look to store again and again and may  *)
(* start over.                                                             *)
OnlyForward ==
  [][\A c \in Calls :
       \/ calls'[c] = calls[c]
       \/ Further(calls[c], calls'[c])
       \/ calls'[c] = [calls[c] EXCEPT !.alone = FALSE]]_calls

(* No request waits for ever: the locks that requests take, on devices and *)
(* on names, are released, and no two requests wait for each other.        *)
EveryCallAnswered == \A c \in Calls : calls[c] # New ~> Done(c)

-----------------------------------------------------------------------------
(* The inductive invariant behind OkMeansExactly and ErrorMeansPart.       *)

(* A row whose INSERT or UPDATE waits for its commit is another request's  *)
(* to write only afterwards, and is as the statement found it.             *)
RowLocks ==
  \A c \in Calls : calls[c].at = "begun" =>
    /\ calls[c].kind = "create" <=> calls[c].device \notin devices
    /\ ~Locked(c, calls[c].device)

(* A request that stores a command has found the name of the command, or   *)
(* is the only one that is inserting it.                                   *)
NameLocks ==
  \A c \in Calls : calls[c].at = "store" =>
    /\ calls[c].named <=> calls[c].name \notin identifiers
    /\ \A b \in Calls \ {c} : calls[b].at = "store" /\ calls[b].named /\ calls[c].named =>
         calls[b].name # calls[c].name

(* What a request has left to send.                                        *)
Sent(c) ==
  LET call == calls[c] IN
  /\ call.left \subseteq Given(call.wanted)
  /\ call.at \in {"first", "begun"} => call.left = Given(call.wanted)
  /\ call.at \in {"look", "name", "store"} => call.left # {}
  /\ call.at \in {"name", "store"} => call.name \in call.left
  /\ call.named => call.at = "store"

(* What a request has made of its device: nothing; the commands of N and no*)
(* others; one of these; or all that it was asked for.                     *)
Untouched(c) ==
  calls[c].before = IF calls[c].device \in devices THEN commands[calls[c].device] ELSE None

Stored(c, N) ==
  /\ calls[c].device \in devices
  /\ calls[c].kind = "update" => calls[c].wanted # None
  /\ N \subseteq Given(calls[c].wanted)
  /\ commands[calls[c].device] = [n \in N |-> calls[c].wanted[n]]

Part(c) == Untouched(c) \/ \E N \in SUBSET Names : Stored(c, N)

Whole(c) ==
  IF calls[c].kind = "update" /\ calls[c].wanted = None
  THEN calls[c].device \in devices /\ Untouched(c)
  ELSE Stored(c, Given(calls[c].wanted))

(* A request that is alone finds what it left when it is sent again, and   *)
(* has stored exactly the names it has not left once it has begun.         *)
AloneWork(c) ==
  LET call == calls[c] IN
  /\ call.at \in {"first", "begun"} => Part(c)
  /\ call.at \in {"look", "name", "store"} => Stored(c, Given(call.wanted) \ call.left)
  /\ call.at = "done" =>
       /\ IF call.answer = "ok" THEN Whole(c) ELSE Part(c)
       /\ call.answer = "duplicate" => call.device \in devices
       /\ call.answer = "notFound" => call.device \notin devices

OthersDone(c) == \A b \in On(calls[c].device) \ {c} : calls[b].at = "done"

IInv ==
  /\ TypeOK /\ RowLocks /\ NameLocks
  /\ \A c \in Calls : calls[c] # New =>
       Sent(c) /\ (calls[c].alone => OthersDone(c) /\ AloneWork(c))
=============================================================================
