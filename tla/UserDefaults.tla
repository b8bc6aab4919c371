---------------------------- MODULE UserDefaults ----------------------------
(***************************************************************************)
(* Addresses and payment methods of users (UserAddressesService,           *)
(* UserPaymentMethodsService), each kind with one row marked as default,   *)
(* together with the accounts they belong to.  A new default is chosen in  *)
(* two queries: the marks of the user's rows are cleared, then one row is  *)
(* saved, as it was read before.                                           *)
(***************************************************************************)
EXTENDS Accounts

CONSTANTS
  Addresses,  \* ids of rows of user_addresses
  Methods,    \* ids of rows of user_payment_methods
  OwnerOf     \* OwnerOf[e]: the user whose row e is

Entries == Addresses \cup Methods

ASSUME DefaultsAssumption ==
  /\ OwnerOf \in [Entries -> Users]
  /\ None \notin Entries \cup BOOLEAN /\ Addresses \cap Methods = {}

VARIABLES
  entry,    \* the mark isDefault of each row
  job,      \* requests about entries in progress
  made,     \* history: ids that were drawn
  pick,     \* history: the entry last picked among those like e
  crossed   \* history: entries on the like of which requests overlapped

defaults == <<entry, job, made, pick, crossed>>
vars     == <<accounts, defaults>>

(* The rows of the same kind and owner.                                     *)
Alike(e) ==
  {f \in IF e \in Addresses THEN Addresses ELSE Methods : OwnerOf[f] = OwnerOf[e]}

Job == [phase : {"idle", "clear", "save"}, entry : Entries \cup {None},
        mark : BOOLEAN]

Rest == [phase |-> "idle", entry |-> None, mark |-> FALSE]

TypeOK ==
  /\ AccountsTypeOK
  /\ entry \in [Entries -> BOOLEAN \cup {None}]
  /\ job \in [Requests -> Job]
  /\ made \subseteq Entries /\ crossed \subseteq Entries
  /\ pick \in [Entries -> Entries \cup {None}]

Init ==
  /\ AccountsInit
  /\ entry = [e \in Entries |-> None]
  /\ job = [j \in Requests |-> Rest]
  /\ made = {} /\ crossed = {}
  /\ pick = [e \in Entries |-> None]

------------------------------------------------------------------------------
At(j, e) == job[j].phase # "idle" /\ job[j].entry \in Alike(e)

(* A request has read row e, or will make it, and will save it with mark.   *)
Begin(j, e, mark, phase) ==
  /\ job[j].phase = "idle"
  /\ started < MaxRequests /\ started' = started + 1
  /\ job' = [job EXCEPT ![j] = [phase |-> phase, entry |-> e, mark |-> mark]]
  /\ crossed' = IF \E k \in Requests : At(k, e) THEN crossed \cup Alike(e) ELSE crossed
  /\ UNCHANGED <<rows, outside, req, faults, history, entry>>

Picked(e, p) == pick' = [f \in Entries |-> IF f \in Alike(e) THEN p ELSE pick[f]]

Unpicked(e) == IF pick[e] = e THEN Picked(e, None) ELSE UNCHANGED pick

Create(j, e, mark) ==
  /\ Exists(OwnerOf[e]) /\ e \notin made
  /\ Begin(j, e, mark, IF mark THEN "clear" ELSE "save")
  /\ made' = made \cup {e}
  /\ IF mark THEN Picked(e, e) ELSE UNCHANGED pick

(* update sets isDefault, or leaves it as it was read.                      *)
Update(j, e) ==
  /\ entry[e] # None
  /\ \/ Begin(j, e, TRUE, "clear")      /\ Picked(e, e)
     \/ Begin(j, e, FALSE, "save")      /\ Unpicked(e)
     \/ Begin(j, e, entry[e], "save")   /\ UNCHANGED pick
  /\ UNCHANGED made

SetDefault(j, e) ==
  /\ entry[e] # None
  /\ Begin(j, e, TRUE, "clear") /\ Picked(e, e)
  /\ UNCHANGED made

(* variant: the marks of every user's rows are cleared                      *)
OfAnyone(e) == IF e \in Addresses THEN Addresses ELSE Methods

(* The rows that update({ user }, { isDefault: false }) reaches.            *)
Cleared(e) == Alike(e)

ClearDefault(j) ==
  /\ job[j].phase = "clear"
  /\ entry' = [e \in Entries |->
       IF e \in Cleared(job[j].entry) /\ entry[e] # None THEN FALSE ELSE entry[e]]
  /\ job' = [job EXCEPT ![j].phase = "save"]
  /\ UNCHANGED <<accounts, made, pick, crossed>>

(* A row removed meanwhile is inserted again, if its user is still there.   *)
SaveEntry(j) ==
  LET e == job[j].entry IN
  /\ job[j].phase = "save"
  /\ entry' = IF Exists(OwnerOf[e]) THEN [entry EXCEPT ![e] = job[j].mark] ELSE entry
  /\ job' = [job EXCEPT ![j] = Rest]
  /\ UNCHANGED <<accounts, made, pick, crossed>>

Remove(e) ==
  /\ entry[e] # None
  /\ started < MaxRequests /\ started' = started + 1
  /\ entry' = [entry EXCEPT ![e] = None]
  /\ crossed' = IF \E k \in Requests : At(k, e) THEN crossed \cup Alike(e) ELSE crossed
  /\ Unpicked(e)
  /\ UNCHANGED <<rows, outside, req, faults, history, job, made>>

BreakOffJob(j) ==
  /\ job[j].phase # "idle"
  /\ faults < MaxFaults /\ faults' = faults + 1
  /\ crossed' = crossed \cup Alike(job[j].entry)
  /\ job' = [job EXCEPT ![j] = Rest]
  /\ UNCHANGED <<rows, outside, req, started, history, entry, made, pick>>

(* What a step of the accounts does to the rows of a removed user (CASCADE). *)
Cascade ==
  /\ entry' = [e \in Entries |-> IF user'[OwnerOf[e]] = None THEN None ELSE entry[e]]
  /\ pick' = [e \in Entries |-> IF user'[OwnerOf[e]] = None THEN None ELSE pick[e]]
  /\ crossed' = crossed \cup {e \in Entries :
       user'[OwnerOf[e]] = None /\ \E k \in Requests : At(k, e)}
  /\ UNCHANGED <<job, made>>

AddressStep(j) ==
  \E e \in Addresses : \/ \E mark \in BOOLEAN : Create(j, e, mark)
                       \/ Update(j, e) \/ SetDefault(j, e)

PaymentMethodStep(j) ==
  \E e \in Methods : \/ \E mark \in BOOLEAN : Create(j, e, mark)
                     \/ Update(j, e) \/ SetDefault(j, e)

Next ==
  \/ AccountsNext /\ Cascade
  \/ \E j \in Requests : \/ AddressStep(j) \/ PaymentMethodStep(j)
                         \/ ClearDefault(j) \/ SaveEntry(j) \/ BreakOffJob(j)
  \/ \E e \in Entries : Remove(e)

Spec == Init /\ [][Next]_vars

------------------------------------------------------------------------------
(* Where requests did not overlap, the marked row of a user is the one last *)
(* picked, and there is no other: not another kind's, another user's, nor   *)
(* one that came back (user-address.service.ts:36, 89).                     *)
QuietDefaultIsPicked ==
  \A e \in Entries :
    (e \notin crossed /\ \A k \in Requests : ~At(k, e)) =>
      (entry[e] = TRUE <=> pick[e] = e)
==============================================================================
