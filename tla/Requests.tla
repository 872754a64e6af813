------------------------------ MODULE Requests ------------------------------
(***************************************************************************)
(* What every HTTP request of the service shares: the table, the clock and *)
(* the handler's own state between two awaits.                             *)
(*                                                                         *)
(* The service keeps nothing in memory from one request to the next, so a  *)
(* request is all there is to a handler: the place it awaits (pc), the     *)
(* user it works for (who), the entity it read (entity), the columns a     *)
(* save found changed (dirty) and whether its credential was right (ok).   *)
(* Requests on one instance and on several interleave alike: every await   *)
(* on the database yields.  Slots bounds how many are in progress at once; *)
(* one slot is a service used by one client at a time.                     *)
(***************************************************************************)
EXTENDS Users

CONSTANTS
    Accounts,           \* the users that exist (rows are never deleted)
    NoUser,             \* who a free slot works for
    Slots,              \* requests that may be in progress at once
    MaxNow              \* bound: the last tick of the clock

ASSUME RequestAssumption ==
    /\ NoUser \notin Accounts
    /\ MaxNow \in Nat

VARIABLES
    now,                \* the clock
    users,              \* the table: [Accounts -> Row]
    pc, who, entity, dirty, ok

slotVars == <<pc, who, entity, dirty, ok>>

RequestsInit ==
    /\ now = 1
    /\ users \in [Accounts -> {NewRow, Assign(NewRow, [mfaEnabled |-> TRUE,
                                                       mfaSecret |-> 1,
                                                       mfaBackupCodes |-> 1])}]
    /\ pc = [s \in Slots |-> "idle"]
    /\ who = [s \in Slots |-> NoUser]
    /\ entity = [s \in Slots |-> NewRow]
    /\ dirty = [s \in Slots |-> {}]
    /\ ok = [s \in Slots |-> FALSE]

RequestsTypeOK(places) ==
    /\ now \in Nat
    /\ users \in [Accounts -> Row]
    /\ pc \in [Slots -> places]
    /\ who \in [Slots -> Accounts \cup {NoUser}]
    /\ entity \in [Slots -> Row]
    /\ dirty \in [Slots -> SUBSET Columns]
    /\ ok \in [Slots -> BOOLEAN]
    /\ \A s \in Slots : pc[s] # "idle" => who[s] \in Accounts

-----------------------------------------------------------------------------
At(s, place) == pc[s] = place

\* Nobody works for u: no entity of u's row is in anybody's hands.
Quiet(u) == \A s \in Slots : who[s] # u

GoTo(s, place) == pc' = [pc EXCEPT ![s] = place]

\* The handler returns or throws: its locals are gone.
Finish(s) ==
    /\ pc' = [pc EXCEPT ![s] = "idle"]
    /\ who' = [who EXCEPT ![s] = NoUser]
    /\ entity' = [entity EXCEPT ![s] = NewRow]
    /\ dirty' = [dirty EXCEPT ![s] = {}]
    /\ ok' = [ok EXCEPT ![s] = FALSE]

\* Faulty: reads the row and forgets whose it is.
FindNobody(s, u, place) ==
    /\ GoTo(s, place)
    /\ entity' = [entity EXCEPT ![s] = users[u]]
    /\ UNCHANGED who

\* findByEmail, findById, findByMfaTempToken: one SELECT of u's row.
Find(s, u, place) ==
    /\ GoTo(s, place)
    /\ who' = [who EXCEPT ![s] = u]
    /\ entity' = [entity EXCEPT ![s] = users[u]]

\* save(entity), first half: the SELECT and the comparison.
SaveSelect(s, from, place) ==
    /\ At(s, from)
    /\ dirty' = [dirty EXCEPT ![s] = Changed(entity[s], users[who[s]])]
    /\ GoTo(s, place)
    /\ UNCHANGED <<now, users, who, entity, ok>>

\* save(entity), second half: the UPDATE of the columns found changed.
SaveUpdate(s) ==
    users' = [users EXCEPT ![who[s]] = Merge(@, entity[s], dirty[s])]

\* update(id, ...): one UPDATE of the row of the user s works for.
UpdateRow(s, row) == users' = [users EXCEPT ![who[s]] = row]

\* Any statement may fail and a process may die: the request is answered
\* with an error, or not at all, and what it has written stays written.
Fail(s) ==
    /\ ~ At(s, "idle")
    /\ Finish(s)
    /\ UNCHANGED <<now, users>>

Tick ==
    /\ now < MaxNow
    /\ now' = now + 1
    /\ UNCHANGED <<users, slotVars>>

AdminUnlock(u) ==
    /\ users' = [users EXCEPT ![u] = UnlockUser(@)]
    /\ UNCHANGED <<now, slotVars>>

AdminReset(u) ==
    /\ users' = [users EXCEPT ![u] = ResetUser(@)]
    /\ UNCHANGED <<now, slotVars>>

=============================================================================
