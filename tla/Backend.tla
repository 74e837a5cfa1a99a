------------------------------ MODULE Backend ------------------------------
(***************************************************************************)
(* The backend's REST handlers that change the database, as they run side  *)
(* by side on the threads of the HTTP server: listing, adding and removing *)
(* vehicles, creating a session and taking its control lock.               *)
(*                                                                         *)
(* No handler opens a transaction: every SQL statement commits by itself,  *)
(* so each is a step of its own, any other request may come between two of *)
(* them, and any of them may fail after the earlier ones have committed.   *)
(* Token checks and malformed requests change nothing and are left out.    *)
(***************************************************************************)
EXTENDS Naturals, FiniteSets

CONSTANTS
  Subs,        \* the operators, as their tokens name them (keycloak_sub)
  Accounts,
  AccountOf,   \* an operator's account: the seeded one, or Auto-<sub>
  Seeded,      \* the operators with a row in users from the start
  Vins,
  SessionIds,  \* bound: the sessions that may be created
  Asks,        \* bound: the kinds of request each operator makes
  Threads,     \* the threads of the HTTP server
  None

VARIABLES
  users,      \* rows of users, by keycloak_sub
  owned,      \* rows of account_vehicles with status active
  granted,    \* rows of vin_grants
  leftover,   \* those of them that a removal of the vehicle failed to delete
  sessions,   \* rows of sessions
  present,    \* the sessions with a row in session_participants
  req,        \* the request each thread is handling
  told        \* what an account was last told about a vehicle, as long as no
              \* statement of an opposite request has been executed

tables == <<users, owned, granted, leftover>>
vars == <<users, owned, granted, leftover, sessions, present, req, told>>

Ops == {"list", "add", "remove", "create", "lock"}
Places == {"idle", "vins", "jit", "vins_again", "account", "account_again",
           "user", "vehicle", "own", "grant", "disown", "revoke", "session",
           "participant", "select", "update", "created", "removed", "made"}

(* owner: lock_owner_user_id, as long as lock_expires_at is not reached.   *)
SessionRows == [vin : Vins, controller : Subs, expired : BOOLEAN,
                owner : Subs \cup {None}]

(* clean: no statement of an opposite request since this one began; for a  *)
(* lock request, no UPDATE of the session's lock since its own SELECT.     *)
Requests == [at : Places, op : Ops \cup {None}, sub : Subs \cup {None},
             vin : Vins \cup {None}, session : SessionIds \cup {None},
             clean : BOOLEAN]

ASSUME BackendAssumption ==
  /\ AccountOf \in [Subs -> Accounts]
  /\ Seeded \subseteq Subs
  /\ Asks \in [Subs -> SUBSET Ops]
  /\ None \notin Ops /\ None \notin SessionRows
  /\ None \notin Subs \cup Vins \cup SessionIds

BackendTypeOK ==
  /\ users \subseteq Subs
  /\ owned \subseteq Accounts \X Vins
  /\ granted \subseteq Subs \X Vins
  /\ leftover \subseteq granted
  /\ sessions \in [SessionIds -> SessionRows \cup {None}]
  /\ present \subseteq SessionIds
  /\ req \in [Threads -> Requests]
  /\ told \in [Accounts \X Vins -> {"nothing", "added", "removed"}]

Idle == [at |-> "idle", op |-> None, sub |-> None, vin |-> None,
         session |-> None, clean |-> TRUE]

BackendInit ==
  /\ users = Seeded
  /\ owned = {} /\ granted = {} /\ leftover = {}
  /\ sessions = [s \in SessionIds |-> None]
  /\ present = {}
  /\ req = [t \in Threads |-> Idle]
  /\ told = [car \in Accounts \X Vins |-> "nothing"]

-----------------------------------------------------------------------------
(* The vehicles an operator sees: those of the account and those granted.  *)
Sees(u, v) ==
  u \in users /\ (<<AccountOf[u], v>> \in owned \/ <<u, v>> \in granted)

Request(op, u, place) ==
  [Idle EXCEPT !.at = place, !.op = op, !.sub = u]

Begin(t) ==
  /\ req[t].at = "idle"
  /\ \E u \in Subs : \E op \in Asks[u] :
       \/ op = "list" /\ req' = [req EXCEPT ![t] = Request(op, u, "vins")]
       \/ /\ op \in {"add", "remove"}
          /\ \E v \in Vins :
               req' = [req EXCEPT ![t] =
                         [Request(op, u, "account") EXCEPT !.vin = v]]
       \/ /\ op = "create"
          /\ \E v \in Vins, s \in SessionIds :
               /\ sessions[s] = None
               /\ \A other \in Threads :
                    ~(req[other].op = "create" /\ req[other].session = s)
               /\ req' = [req EXCEPT ![t] =
                    [Request(op, u, "vins") EXCEPT !.vin = v, !.session = s]]
       \/ /\ op = "lock"
          /\ \E s \in SessionIds :
               req' = [req EXCEPT ![t] =
                         [Request(op, u, "vins") EXCEPT !.session = s]]
  /\ UNCHANGED <<tables, sessions, present, told>>

Goto(t, place) == req' = [req EXCEPT ![t].at = place]
Answer(t) == req' = [req EXCEPT ![t] = Idle]

(* A statement or a connection fails: the handler answers 503 or 403, and  *)
(* what it has committed stays.                                            *)
Fail(t) ==
  /\ req[t].at \notin {"idle", "vins", "account", "revoke", "created",
                       "removed", "made"}
  /\ Answer(t)
  /\ UNCHANGED <<tables, sessions, present, told>>

(* get_vins_for_sub: an operator without a row gets an empty list, only a  *)
(* failed query counts as a failure.                                       *)
ReadVins(t) ==
  LET r == req[t] IN
  /\ r.at \in {"vins", "vins_again"}
  /\ \/ r.op = "list" /\ Answer(t)
     \/ r.op = "create" /\ ~Sees(r.sub, r.vin) /\ Answer(t)
     \/ r.op = "create" /\ Sees(r.sub, r.vin) /\ Goto(t, "session")
     \/ r.op = "lock" /\ r.sub \notin users /\ Answer(t)
     \/ r.op = "lock" /\ r.sub \in users /\ Goto(t, "select")
  /\ UNCHANGED <<tables, sessions, present, told>>

ReadVinsFails(t) ==
  /\ req[t].at = "vins"
  /\ IF req[t].op = "list" THEN Goto(t, "jit") ELSE Answer(t)
  /\ UNCHANGED <<tables, sessions, present, told>>

(* get_account_id_for_sub does not tell a failed query from a missing row. *)
ReadAccount(t) ==
  LET r == req[t] IN
  /\ r.at \in {"account", "account_again"}
  /\ r.sub \in users
  /\ Goto(t, IF r.op = "add" THEN "user" ELSE "disown")
  /\ UNCHANGED <<tables, sessions, present, told>>

ReadAccountFails(t) ==
  /\ req[t].at = "account"
  /\ Goto(t, "jit")
  /\ UNCHANGED <<tables, sessions, present, told>>

(* ensure_user_for_sub: the account Auto-<sub> and the user, each inserted *)
(* on conflict do nothing.                                                 *)
EnsureUser(t) ==
  LET r == req[t] IN
  /\ r.at = "jit"
  /\ users' = users \cup {r.sub}
  /\ Goto(t, IF r.op = "list" THEN "vins_again" ELSE "account_again")
  /\ UNCHANGED <<owned, granted, leftover, sessions, present, told>>

ReadUser(t) ==
  /\ req[t].at = "user"
  /\ Goto(t, "vehicle")
  /\ UNCHANGED <<tables, sessions, present, told>>

-----------------------------------------------------------------------------
(* POST /vehicles and DELETE /vehicles/{vin}.                              *)

(* Thread t has executed a statement about its vehicle: it spoils what the *)
(* account was told by an opposite request, and the answer of every one    *)
(* still under way.                                                        *)
Executed(t, place, opposite, spoilt) ==
  LET car == <<AccountOf[req[t].sub], req[t].vin>> IN
  /\ req' = [other \in Threads |->
       IF other = t THEN [req[t] EXCEPT !.at = place]
       ELSE IF req[other].op = opposite
                 /\ <<AccountOf[req[other].sub], req[other].vin>> = car
         THEN [req[other] EXCEPT !.clean = FALSE]
         ELSE req[other]]
  /\ told' = [told EXCEPT ![car] = IF @ = spoilt THEN "nothing" ELSE @]

(* No statement but the foreign keys reads the table vehicles.             *)
InsertVehicle(t) ==
  /\ req[t].at = "vehicle"
  /\ Goto(t, "own")
  /\ UNCHANGED <<tables, sessions, present, told>>

(* Mutant: the row is written under the operator's id.                     *)
InsertOwned_ByUser(t) ==
  LET r == req[t] IN
  /\ r.at = "own"
  /\ owned' = owned \cup {<<r.sub, r.vin>>}
  /\ Executed(t, "grant", "remove", "removed")
  /\ UNCHANGED <<users, granted, leftover, sessions, present>>

InsertOwned(t) ==
  LET r == req[t] IN
  /\ r.at = "own"
  /\ owned' = owned \cup {<<AccountOf[r.sub], r.vin>>}
  /\ Executed(t, "grant", "remove", "removed")
  /\ UNCHANGED <<users, granted, leftover, sessions, present>>

InsertGrant(t) ==
  LET r == req[t] IN
  /\ r.at = "grant"
  /\ granted' = granted \cup {<<r.sub, r.vin>>}
  /\ leftover' = leftover \ {<<r.sub, r.vin>>}
  /\ Executed(t, "created", "remove", "removed")
  /\ UNCHANGED <<users, owned, sessions, present>>

DeleteOwned(t) ==
  LET r == req[t] IN
  /\ r.at = "disown"
  /\ owned' = owned \ {<<AccountOf[r.sub], r.vin>>}
  /\ Executed(t, "revoke", "add", "added")
  /\ UNCHANGED <<users, granted, leftover, sessions, present>>

(* Mutant: only the grant of the operator who asks is withdrawn.           *)
DeleteGrants_Own(t) ==
  LET r == req[t] IN
  /\ r.at = "revoke"
  /\ granted' = granted \ {<<r.sub, r.vin>>}
  /\ leftover' = leftover \ {<<r.sub, r.vin>>}
  /\ Executed(t, "removed", "add", "added")
  /\ UNCHANGED <<users, owned, sessions, present>>

(* The grants of every operator of the account, as users stands now.       *)
GrantsOf(r) ==
  granted \cap ({u \in users : AccountOf[u] = AccountOf[r.sub]} \X {r.vin})

DeleteGrants(t) ==
  LET r == req[t] IN
  /\ r.at = "revoke"
  /\ granted' = granted \ GrantsOf(r)
  /\ leftover' = leftover \ GrantsOf(r)
  /\ Executed(t, "removed", "add", "added")
  /\ UNCHANGED <<users, owned, sessions, present>>

(* The result of this statement is only logged: with the grants still      *)
(* there the removal is answered as if it was done.                        *)
DeleteGrantsFails(t) ==
  /\ req[t].at = "revoke"
  /\ leftover' = leftover \cup GrantsOf(req[t])
  /\ Goto(t, "removed")
  /\ UNCHANGED <<users, owned, granted, sessions, present, told>>

(* 201, or 204 (404 if the account had no row, with the grants gone too).  *)
AnswerVehicle(t) ==
  LET r == req[t]
      car == <<AccountOf[r.sub], r.vin>> IN
  /\ r.at \in {"created", "removed"}
  /\ told' = [told EXCEPT ![car] =
       IF ~r.clean THEN @
       ELSE IF r.at = "created" THEN "added" ELSE "removed"]
  /\ Answer(t)
  /\ UNCHANGED <<tables, sessions, present>>

-----------------------------------------------------------------------------
(* POST /vins/{vin}/sessions: no other session of the vehicle is looked at.*)

InsertSession(t) ==
  LET r == req[t] IN
  /\ r.at = "session"
  /\ sessions' = [sessions EXCEPT ![r.session] =
       [vin |-> r.vin, controller |-> r.sub, expired |-> FALSE,
        owner |-> None]]
  /\ Goto(t, "participant")
  /\ UNCHANGED <<tables, present, told>>

(* Mutant: a failed insert is overlooked.                                  *)
InsertParticipant_Overlooked(t) ==
  /\ req[t].at = "participant"
  /\ present' \in {present, present \cup {req[t].session}}
  /\ Goto(t, "made")
  /\ UNCHANGED <<tables, sessions, told>>

InsertParticipant(t) ==
  LET r == req[t] IN
  /\ r.at = "participant"
  /\ present' = present \cup {r.session}
  /\ Goto(t, "made")
  /\ UNCHANGED <<tables, sessions, told>>

AnswerSession(t) ==
  /\ req[t].at = "made"
  /\ Answer(t)
  /\ UNCHANGED <<tables, sessions, present, told>>

-----------------------------------------------------------------------------
(* POST /sessions/{id}/lock: a SELECT decides, an UPDATE without condition *)
(* takes.  Any operator with a row in users may ask.                       *)

Conflict(row, u) == row.owner \notin {None, u}

(* Mutant: the conflict is not looked for.                                 *)
SelectSession_AnyOwner(t) ==
  LET r == req[t]
      row == sessions[r.session] IN
  /\ r.at = "select"
  /\ IF row = None \/ row.expired
       THEN Answer(t)
       ELSE req' = [req EXCEPT ![t].at = "update", ![t].clean = TRUE]
  /\ UNCHANGED <<tables, sessions, present, told>>

SelectSession(t) ==
  LET r == req[t]
      row == sessions[r.session] IN
  /\ r.at = "select"
  /\ IF row = None \/ row.expired \/ Conflict(row, r.sub)
       THEN Answer(t)
       ELSE req' = [req EXCEPT ![t].at = "update", ![t].clean = TRUE]
  /\ UNCHANGED <<tables, sessions, present, told>>

(* lock_id, a new UUID each time, is only handed out: no statement reads it. *)
UpdateLock(t) ==
  LET s == req[t].session IN
  /\ req[t].at = "update"
  /\ sessions' = [sessions EXCEPT ![s].owner = req[t].sub]
  /\ req' = [other \in Threads |->
       IF other = t THEN Idle
       ELSE IF req[other].op = "lock" /\ req[other].session = s
         THEN [req[other] EXCEPT !.clean = FALSE]
         ELSE req[other]]
  /\ UNCHANGED <<tables, present, told>>

-----------------------------------------------------------------------------
(* The database's clock: lock_expires_at and the session's TTL pass.       *)

LockExpires(s) ==
  /\ sessions[s] # None /\ sessions[s].owner # None
  /\ sessions' = [sessions EXCEPT ![s].owner = None]
  /\ UNCHANGED <<tables, present, req, told>>

SessionExpires(s) ==
  /\ sessions[s] # None /\ ~sessions[s].expired
  /\ sessions' = [sessions EXCEPT ![s].expired = TRUE]
  /\ UNCHANGED <<tables, present, req, told>>

Handle(t) ==
  \/ Begin(t) \/ Fail(t)
  \/ ReadVins(t) \/ ReadVinsFails(t)
  \/ ReadAccount(t) \/ ReadAccountFails(t) \/ EnsureUser(t) \/ ReadUser(t)
  \/ InsertVehicle(t) \/ InsertOwned(t) \/ InsertGrant(t)
  \/ DeleteOwned(t) \/ DeleteGrants(t) \/ DeleteGrantsFails(t)
  \/ AnswerVehicle(t)
  \/ InsertSession(t) \/ InsertParticipant(t) \/ AnswerSession(t)
  \/ SelectSession(t) \/ UpdateLock(t)

BackendNext ==
  \/ \E t \in Threads : Handle(t)
  \/ \E s \in SessionIds : LockExpires(s) \/ SessionExpires(s)

BackendSpec == BackendInit /\ [][BackendNext]_vars

-----------------------------------------------------------------------------
(* What an operator was told about a vehicle is what its account sees: a   *)
(* vehicle answered 201 is seen by every operator of the account, and one  *)
(* answered 204 by none of them, whatever other requests did, as long as   *)
(* none of them asked for the opposite at the same time or since.  The one *)
(* exception is the answer the code does not make depend on its last       *)
(* statement (main.cpp:746-766): after a 204 an operator may still see the *)
(* vehicle by the very grant whose DELETE has failed, and by nothing else. *)
ToldTheTruth ==
  \A u \in users, v \in Vins :
    /\ told[<<AccountOf[u], v>>] = "added" => Sees(u, v)
    /\ told[<<AccountOf[u], v>>] = "removed" =>
         /\ <<AccountOf[u], v>> \notin owned
         /\ <<u, v>> \in granted => <<u, v>> \in leftover

(* A session is handed out only with its participant, although a failure   *)
(* between the two inserts leaves sessions without one.                    *)
AnsweredSessionHasParticipant ==
  \A t \in Threads :
    req[t].at = "made" =>
      /\ req[t].session \in present
      /\ sessions[req[t].session] # None
      /\ sessions[req[t].session].controller = req[t].sub

(* A live lock goes to another operator only by a request whose SELECT     *)
(* came before the UPDATE that gave the lock: the conflict it did not find *)
(* was not there to be found.                                              *)
TakenOnlyOnStaleRead ==
  [][\A t \in Threads :
       UpdateLock(t) /\ Conflict(sessions[req[t].session], req[t].sub)
         => ~req[t].clean]_vars

(* main.cpp:1293 promises one holder and a TTL: a live lock stays with its *)
(* owner until it expires.                                                 *)
SingleHolder ==
  [][\A s \in SessionIds :
       sessions[s] # None /\ sessions'[s] # None
         => sessions'[s].owner \in {sessions[s].owner, None}
              \/ sessions[s].owner = None]_vars
=============================================================================
