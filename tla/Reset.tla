------------------------------- MODULE Reset -------------------------------
(***************************************************************************)
(* database/seed/reset-users.ts, run by hand against the database of a     *)
(* service that goes on answering logins.                                  *)
(*                                                                         *)
(*   off -> cleared -> hashing <-> saving -> over                          *)
(*                                                                         *)
(* One UPDATE clears every user, one SELECT reads them all, and then one   *)
(* user after the other gets a new hash and is saved, whole, from what     *)
(* that SELECT returned.  bcrypt takes its time before each save.  The     *)
(* test users the script creates when they are missing all exist here.     *)
(***************************************************************************)
EXTENDS Login

VARIABLES
    stage,              \* where the script is
    held,               \* the entities its SELECT returned
    todo,               \* the users it has not saved yet
    current,            \* the user it is saving
    altered,            \* the columns this save found changed
    secured             \* users whose save met no login at work      (ghost)

scriptVars == <<stage, held, todo, current, altered, secured>>
resetVars == <<vars, scriptVars>>

\* Both passwords of the script: nobody has them before, and bcrypt salts them,
\* so that no stored hash is equal to a new one.
NewHash == 2

Stages == {"off", "cleared", "hashing", "saving", "over"}

ResetInit ==
    /\ Init
    /\ stage = "off"
    /\ held = [u \in Accounts |-> NewRow]
    /\ todo = {}
    /\ current = NoUser
    /\ altered = {}
    /\ secured = {}

-----------------------------------------------------------------------------
\* The script changes nothing but the table.
ServiceUnchanged ==
    UNCHANGED <<now, slotVars, issued, sessions, audit, started, failed>>

\* update({}, ...): every user, whoever works for them.
ResetClear ==
    /\ stage = "off"
    /\ stage' = "cleared"
    /\ users' = [u \in Accounts |-> ClearUser(users[u])]
    /\ streak' = [u \in Accounts |-> 0]
    /\ wrongs' = [u \in Accounts |-> IF Quiet(u) THEN 0 ELSE wrongs[u]]
    /\ ServiceUnchanged
    /\ UNCHANGED <<held, todo, current, altered, secured>>

ResetFind ==
    /\ stage = "cleared"
    /\ stage' = "hashing"
    /\ held' = users
    /\ todo' = Accounts
    /\ ServiceUnchanged
    /\ UNCHANGED <<users, wrongs, streak, current, altered, secured>>

\* Faulty: does not await the hash before it saves.
ResetSelectUnhashed(u) ==
    /\ stage = "hashing"
    /\ u \in todo
    /\ stage' = "saving"
    /\ current' = u
    /\ altered' = Changed(held[u], users[u])
    /\ ServiceUnchanged
    /\ UNCHANGED <<users, wrongs, streak, held, todo, secured>>

\* The hash, then the first half of save(user).
ResetSelect(u) ==
    /\ stage = "hashing"
    /\ u \in todo
    /\ stage' = "saving"
    /\ current' = u
    /\ held' = [held EXCEPT ![u].passwordHash = NewHash]
    /\ altered' = Changed(held'[u], users[u])
    /\ ServiceUnchanged
    /\ UNCHANGED <<users, wrongs, streak, todo, secured>>

ResetUpdate ==
    /\ stage = "saving"
    /\ users' = [users EXCEPT ![current] = Merge(@, held[current], altered)]
    /\ todo' = todo \ {current}
    /\ stage' = IF todo' = {} THEN "over" ELSE "hashing"
    /\ secured' = IF Quiet(current) THEN secured \cup {current} ELSE secured
    /\ held' = [held EXCEPT ![current] = NewRow]
    /\ current' = NoUser
    /\ altered' = {}
    /\ ServiceUnchanged
    /\ UNCHANGED <<wrongs, streak>>

\* An error, or the operator's patience, ends the script where it is.
ResetDie ==
    /\ stage \in {"cleared", "hashing", "saving"}
    /\ stage' = "over"
    /\ held' = [u \in Accounts |-> NewRow]
    /\ todo' = {}
    /\ current' = NoUser
    /\ altered' = {}
    /\ ServiceUnchanged
    /\ UNCHANGED <<users, wrongs, streak, secured>>

ScriptStep ==
    \/ ResetClear \/ ResetFind
    \/ \E u \in Accounts : ResetSelect(u)
    \/ ResetUpdate \/ ResetDie

ServiceStep ==
    \/ LoginNext
    \/ \E u \in Accounts : Unlock(u, Quiet(u) /\ u \notin todo)
    \/ Tick /\ UNCHANGED loginVars

ResetNext ==
    \/ ScriptStep
    \/ ServiceStep /\ UNCHANGED scriptVars

ResetSpec == ResetInit /\ [][ResetNext]_resetVars

-----------------------------------------------------------------------------
ResetTypeOK ==
    /\ TypeOK
    /\ stage \in Stages
    /\ held \in [Accounts -> Row]
    /\ todo \subseteq Accounts
    /\ current \in Accounts \cup {NoUser}
    /\ altered \subseteq Columns
    /\ secured \subseteq Accounts
    /\ stage = "saving" => current \in todo
    /\ todo # {} => stage \in {"hashing", "saving"}

\* What the script still holds is written back later, so it must be as sound as
\* what the handlers hold.
HeldBacked == \A u \in todo : Backed(u, held[u])

HeldBounded == \A u \in todo : held[u].lockedUntil <= now + LockTicks

\* "Password reset" is final for a user nobody was working for when the script
\* saved it: no login that begins later, before or after the script ends or
\* dies, can bring the old hash back, although every login saves whole entities.
\* A login that read the user before that save does bring it back.
ResetHolds == \A u \in secured : users[u].passwordHash = NewHash

\* The same of every entity a handler holds: what makes ResetHolds inductive.
EntitiesReset ==
    \A s \in Slots : who[s] \in secured => entity[s].passwordHash = NewHash

=============================================================================
