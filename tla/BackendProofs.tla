--------------------------- MODULE BackendProofs ---------------------------
(***************************************************************************)
(* Proofs about Backend, for any number of operators, accounts, vehicles,  *)
(* sessions and threads: what an operator was told about a vehicle is so,  *)
(* a session is handed out with its participant, and a live lock is taken  *)
(* only on a SELECT that an UPDATE has overtaken.                          *)
(***************************************************************************)
EXTENDS Backend, TLAPS

Car(r) == <<AccountOf[r.sub], r.vin>>

(* No operator of the account is granted the vehicle, but for the rows a   *)
(* removal failed to delete.                                               *)
NoGrant(a, v) ==
  \A u \in Subs : AccountOf[u] = a /\ <<u, v>> \in granted => <<u, v>> \in leftover

(* The places of a request, by its kind, with what it is about.            *)
OnItsWay(r) ==
  /\ r.op = None <=> r.at = "idle"
  /\ r.op # None => r.sub \in Subs
  /\ r.op \in {"add", "remove", "create"} => r.vin \in Vins
  /\ r.op \in {"create", "lock"} => r.session \in SessionIds
  /\ r.op = "list" => r.at \in {"vins", "jit", "vins_again"}
  /\ r.op = "add" => r.at \in {"account", "jit", "account_again", "user",
                               "vehicle", "own", "grant", "created"}
  /\ r.op = "remove" => r.at \in {"account", "jit", "account_again", "disown",
                                  "revoke", "removed"}
  /\ r.op = "create" => r.at \in {"vins", "session", "participant", "made"}
  /\ r.op = "lock" => r.at \in {"vins", "select", "update"}

(* What a request that no other has crossed has seen to by now.            *)
VehicleSeenTo(r) ==
  /\ r.at \in {"user", "vehicle", "own", "grant"} => r.sub \in users
  /\ r.clean /\ r.at \in {"grant", "created"} => Car(r) \in owned
  /\ r.clean /\ r.at \in {"revoke", "removed"} => Car(r) \notin owned
  /\ r.clean /\ r.at = "removed" => NoGrant(AccountOf[r.sub], r.vin)

SessionSeenTo(r) ==
  /\ r.op = "create" /\ r.at \in {"vins", "session"} => sessions[r.session] = None
  /\ r.at \in {"participant", "made"} =>
       /\ sessions[r.session] # None
       /\ sessions[r.session].controller = r.sub
  /\ r.at = "made" => r.session \in present
  /\ r.at = "update" => sessions[r.session] # None
  /\ r.at = "update" /\ r.clean => ~Conflict(sessions[r.session], r.sub)

RequestOK(r) == OnItsWay(r) /\ VehicleSeenTo(r) /\ SessionSeenTo(r)

(* No two requests create the same session. *)
SessionsApart ==
  \A t, x \in Threads :
    t # x /\ req[t].op = "create" /\ req[x].op = "create"
      => req[t].session # req[x].session

(* Only operators with a row in users have been granted anything. *)
GrantsToUsers == \A u \in Subs, v \in Vins : <<u, v>> \in granted => u \in users

(* What an account was told is so; one that was told of a removal has no   *)
(* grant left either that the removal did not fail to delete.              *)
ToldIsSo ==
  \A a \in Accounts, v \in Vins :
    /\ told[<<a, v>>] = "added" => <<a, v>> \in owned
    /\ told[<<a, v>>] = "removed" => <<a, v>> \notin owned /\ NoGrant(a, v)

BackendInv ==
  /\ BackendTypeOK
  /\ \A t \in Threads : RequestOK(req[t])
  /\ SessionsApart /\ GrantsToUsers /\ ToldIsSo

-----------------------------------------------------------------------------
LEMMA InvInit == BackendInit => BackendInv
<1> SUFFICES ASSUME BackendInit PROVE BackendInv
  OBVIOUS
<1>1. Idle \in Requests /\ Idle.at = "idle" /\ Idle.op = None
  BY DEF Idle, Requests, Places
<1>2. BackendTypeOK
  BY <1>1, BackendAssumption DEF BackendInit, BackendTypeOK
<1>3. \A t \in Threads : req[t] = Idle
  BY DEF BackendInit
<1>4. \A t \in Threads : RequestOK(req[t])
  BY <1>1, <1>3, BackendAssumption
     DEF RequestOK, OnItsWay, VehicleSeenTo, SessionSeenTo, Ops
<1>5. SessionsApart /\ GrantsToUsers
  BY <1>1, <1>3, BackendAssumption DEF SessionsApart, GrantsToUsers, BackendInit, Ops
<1>6. ToldIsSo
  BY BackendAssumption DEF ToldIsSo, BackendInit
<1> QED BY <1>2, <1>4, <1>5, <1>6 DEF BackendInv

(* What a step does to the thread it is of, and that it leaves the others. *)
Others(t) ==
  /\ req' \in [Threads -> Requests]
  /\ \A x \in Threads : x # t => req'[x] = req[x]

LEMMA GotoMeans ==
  ASSUME BackendTypeOK, NEW t \in Threads, NEW place \in Places, Goto(t, place)
  PROVE  /\ Others(t) /\ req'[t].at = place
         /\ req'[t].op = req[t].op /\ req'[t].sub = req[t].sub /\ req'[t].vin = req[t].vin
         /\ req'[t].session = req[t].session /\ req'[t].clean = req[t].clean
<1>1. req[t] \in Requests
  BY DEF BackendTypeOK
<1>2. [req[t] EXCEPT !.at = place] \in Requests
  BY <1>1 DEF Requests
<1> QED
  BY <1>1, <1>2 DEF Goto, BackendTypeOK, Others, Requests

LEMMA AnswerMeans ==
  ASSUME BackendTypeOK, NEW t \in Threads, Answer(t)
  PROVE  Others(t) /\ req'[t].at = "idle" /\ req'[t].op = None
<1>1. Idle \in Requests /\ Idle.at = "idle" /\ Idle.op = None
  BY DEF Idle, Requests, Places
<1> QED BY <1>1 DEF Answer, BackendTypeOK, Others

(* Steps that change nothing but the request of their thread.              *)
LEMMA RequestStep ==
  ASSUME BackendInv, NEW t \in Threads, Others(t),
         UNCHANGED <<tables, sessions, present, told>>,
         OnItsWay(req'[t]), VehicleSeenTo(req'[t]), SessionSeenTo(req'[t]),
         req'[t].op = "create" =>
           \A x \in Threads : x # t /\ req[x].op = "create" =>
             req[x].session # req'[t].session
  PROVE  BackendInv'
<1>1. BackendTypeOK'
  BY DEF BackendInv, BackendTypeOK, Others, tables
<1>2. \A x \in Threads : RequestOK(req[x])'
  BY DEF BackendInv, RequestOK, OnItsWay, VehicleSeenTo, SessionSeenTo, NoGrant, Others, tables
<1>3. SessionsApart'
  BY DEF BackendInv, SessionsApart, Others
<1>4. GrantsToUsers' /\ ToldIsSo'
  BY DEF BackendInv, GrantsToUsers, ToldIsSo, NoGrant, tables
<1> QED BY <1>1, <1>2, <1>3, <1>4 DEF BackendInv

LEMMA AnswerStep ==
  ASSUME BackendInv, NEW t \in Threads, Answer(t),
         UNCHANGED <<tables, sessions, present, told>>
  PROVE  BackendInv'
<1>1. Others(t) /\ req'[t].at = "idle" /\ req'[t].op = None
  BY AnswerMeans DEF BackendInv
<1>2. OnItsWay(req'[t]) /\ VehicleSeenTo(req'[t]) /\ SessionSeenTo(req'[t])
      /\ req'[t].op # "create"
  BY <1>1, BackendAssumption DEF OnItsWay, VehicleSeenTo, SessionSeenTo, Ops
<1> QED BY <1>1, <1>2, RequestStep

(* A step to a place that promises nothing the last one did not.           *)
LEMMA GotoStep ==
  ASSUME BackendInv, NEW t \in Threads, NEW place \in Places, Goto(t, place),
         UNCHANGED <<tables, sessions, present, told>>,
         OnItsWay(req'[t]),
         place \in {"jit", "vins_again", "account", "account_again", "user",
                    "vehicle", "own", "disown", "session", "select"},
         place \in {"user", "vehicle", "own"} => req[t].sub \in users,
         place = "session" => req[t].at = "vins" /\ req[t].op = "create"
  PROVE  BackendInv'
<1>1. /\ Others(t) /\ req'[t].at = place
      /\ req'[t].op = req[t].op /\ req'[t].sub = req[t].sub /\ req'[t].vin = req[t].vin
      /\ req'[t].session = req[t].session /\ req'[t].clean = req[t].clean
  BY GotoMeans DEF BackendInv
<1>2. VehicleSeenTo(req'[t])
  BY <1>1 DEF VehicleSeenTo
<1>3. SessionSeenTo(req'[t])
  BY <1>1 DEF SessionSeenTo, BackendInv, RequestOK
<1>4. req'[t].op = "create" =>
        \A x \in Threads : x # t /\ req[x].op = "create" => req[x].session # req'[t].session
  BY <1>1 DEF BackendInv, SessionsApart
<1> QED BY <1>1, <1>2, <1>3, <1>4, RequestStep

-----------------------------------------------------------------------------
(* The steps that begin, answer or carry on a request, or fail.            *)

LEMMA RequestMeans ==
  ASSUME NEW op \in Ops, NEW u \in Subs, NEW place \in Places
  PROVE  LET r == Request(op, u, place)
         IN  /\ r \in Requests
             /\ r.at = place /\ r.op = op /\ r.sub = u /\ r.vin = None /\ r.session = None
<1>1. Idle \in Requests /\ Idle.vin = None /\ Idle.session = None
  BY DEF Idle, Requests, Places
<1>2. \A i \in Requests :
        LET r == [[[i EXCEPT !.at = place] EXCEPT !.op = op] EXCEPT !.sub = u]
        IN  /\ r \in Requests
            /\ r.at = place /\ r.op = op /\ r.sub = u /\ r.vin = i.vin /\ r.session = i.session
  BY DEF Requests
<1>3. Request(op, u, place) = [[[Idle EXCEPT !.at = place] EXCEPT !.op = op] EXCEPT !.sub = u]
  BY DEF Request
<1> QED BY <1>1, <1>2, <1>3, Zenon

LEMMA BeginKeeps ==
  ASSUME BackendInv, NEW t \in Threads, Begin(t)
  PROVE  BackendInv'
<1>0. \A r \in Requests : req' = [req EXCEPT ![t] = r] => Others(t) /\ req'[t] = r
  BY DEF Others, BackendInv, BackendTypeOK
<1>1. ASSUME NEW r \in Requests, req' = [req EXCEPT ![t] = r],
             r.op \in Ops, r.sub \in Subs,
             r.op \in {"add", "remove"} => r.at = "account" /\ r.vin \in Vins,
             r.op \notin {"add", "remove"} => r.at = "vins",
             r.op = "create" => r.vin \in Vins,
             r.op \in {"create", "lock"} => r.session \in SessionIds,
             r.op = "create" =>
               /\ sessions[r.session] = None
               /\ \A x \in Threads : ~(req[x].op = "create" /\ req[x].session = r.session)
      PROVE  BackendInv'
  <2>1. Others(t) /\ req'[t] = r
    BY <1>0, <1>1
  <2>2. OnItsWay(r)
    BY <1>1, BackendAssumption DEF OnItsWay, Ops
  <2>3. r.at \in {"vins", "account"}
    BY <1>1
  <2>4. VehicleSeenTo(r) /\ SessionSeenTo(r)
    BY <1>1, <2>3 DEF VehicleSeenTo, SessionSeenTo
  <2>5. UNCHANGED <<tables, sessions, present, told>>
    BY DEF Begin
  <2> QED BY <1>1, <2>1, <2>2, <2>4, <2>5, RequestStep
<1>2. \A r \in Requests, v \in Vins :
        /\ [r EXCEPT !.vin = v] \in Requests
        /\ [r EXCEPT !.vin = v].at = r.at /\ [r EXCEPT !.vin = v].op = r.op
        /\ [r EXCEPT !.vin = v].sub = r.sub /\ [r EXCEPT !.vin = v].vin = v
  BY DEF Requests
<1>3. \A r \in Requests, s \in SessionIds :
        /\ [r EXCEPT !.session = s] \in Requests
        /\ [r EXCEPT !.session = s].at = r.at /\ [r EXCEPT !.session = s].op = r.op
        /\ [r EXCEPT !.session = s].sub = r.sub /\ [r EXCEPT !.session = s].vin = r.vin
        /\ [r EXCEPT !.session = s].session = s
  BY DEF Requests
<1>5. PICK u \in Subs, op \in Ops :
       \/ op = "list" /\ req' = [req EXCEPT ![t] = Request(op, u, "vins")]
       \/ /\ op \in {"add", "remove"}
          /\ \E v \in Vins :
               req' = [req EXCEPT ![t] =
                         [Request(op, u, "account") EXCEPT !.vin = v]]
       \/ /\ op = "create"
          /\ \E v \in Vins, s \in SessionIds :
               /\ sessions[s] = None
               /\ \A other \in Threads :
                    ~(req[other].op = "create" /\ req[other].session = s)
               /\ req' = [req EXCEPT ![t] =
                    [Request(op, u, "vins") EXCEPT !.vin = v, !.session = s]]
       \/ /\ op = "lock"
          /\ \E s \in SessionIds :
               req' = [req EXCEPT ![t] =
                         [Request(op, u, "vins") EXCEPT !.session = s]]
  <2>1. \A u \in Subs : Asks[u] \subseteq Ops
    BY BackendAssumption
  <2> QED BY <2>1, Zenon DEF Begin
<1>6. "vins" \in Places /\ "account" \in Places
  BY DEF Places
<1>7. CASE op = "list" /\ req' = [req EXCEPT ![t] = Request(op, u, "vins")]
  <2> DEFINE r == Request(op, u, "vins")
  <2>1. r \in Requests /\ r.at = "vins" /\ r.op = "list" /\ r.sub = u
    BY <1>6, <1>7, RequestMeans
  <2>2. req' = [req EXCEPT ![t] = r]
    BY <1>7
  <2> HIDE DEF r
  <2>3. r.op \in Ops /\ r.op \notin {"add", "remove", "create", "lock"}
    BY <2>1 DEF Ops
  <2> QED BY <1>1, <2>1, <2>2, <2>3
<1>8. ASSUME op \in {"add", "remove"}, NEW v \in Vins,
             req' = [req EXCEPT ![t] = [Request(op, u, "account") EXCEPT !.vin = v]]
      PROVE  BackendInv'
  <2> DEFINE q == Request(op, u, "account")
             r == [q EXCEPT !.vin = v]
  <2>1. q \in Requests /\ q.at = "account" /\ q.op = op /\ q.sub = u
    BY <1>6, RequestMeans
  <2> HIDE DEF q
  <2>2. r \in Requests /\ r.at = "account" /\ r.op = op /\ r.sub = u /\ r.vin = v
    BY <1>2, <2>1
  <2>3. req' = [req EXCEPT ![t] = r]
    BY <1>8 DEF q
  <2> HIDE DEF r
  <2>4. r.op \in {"add", "remove"} /\ r.op \in Ops /\ r.op \notin {"create", "lock"}
    BY <1>8, <2>2 DEF Ops
  <2> QED BY <1>1, <2>2, <2>3, <2>4
<1>9. ASSUME op = "create", NEW v \in Vins, NEW s \in SessionIds,
             sessions[s] = None,
             \A other \in Threads : ~(req[other].op = "create" /\ req[other].session = s),
             req' = [req EXCEPT ![t] =
                       [Request(op, u, "vins") EXCEPT !.vin = v, !.session = s]]
      PROVE  BackendInv'
  <2> DEFINE q == Request(op, u, "vins")
             r == [[q EXCEPT !.vin = v] EXCEPT !.session = s]
  <2>1. q \in Requests /\ q.at = "vins" /\ q.op = op /\ q.sub = u
    BY <1>6, RequestMeans
  <2>2. [q EXCEPT !.vin = v, !.session = s] = r
    BY <2>1
  <2>4. req' = [req EXCEPT ![t] = r]
    BY <1>9, <2>2
  <2> HIDE DEF q
  <2>3. /\ r \in Requests /\ r.at = "vins" /\ r.op = op /\ r.sub = u /\ r.vin = v
        /\ r.session = s
    <3> DEFINE w == [q EXCEPT !.vin = v]
    <3>1. w \in Requests /\ w.at = "vins" /\ w.op = op /\ w.sub = u /\ w.vin = v
      BY <1>2, <2>1
    <3>2. r = [w EXCEPT !.session = s]
      OBVIOUS
    <3> HIDE DEF r, w
    <3> QED BY <1>3, <3>1, <3>2
  <2> HIDE DEF r
  <2>5. r.op = "create" /\ r.op \in Ops /\ r.op \notin {"add", "remove"}
    BY <1>9, <2>3 DEF Ops
  <2>6. r.op = "create" =>
          /\ sessions[r.session] = None
          /\ \A x \in Threads : ~(req[x].op = "create" /\ req[x].session = r.session)
    BY <1>9, <2>3
  <2> QED BY <1>1, <2>3, <2>4, <2>5, <2>6
<1>10. ASSUME op = "lock", NEW s \in SessionIds,
              req' = [req EXCEPT ![t] = [Request(op, u, "vins") EXCEPT !.session = s]]
       PROVE  BackendInv'
  <2> DEFINE q == Request(op, u, "vins")
             r == [q EXCEPT !.session = s]
  <2>1. q \in Requests /\ q.at = "vins" /\ q.op = op /\ q.sub = u
    BY <1>6, RequestMeans
  <2> HIDE DEF q
  <2>2. r \in Requests /\ r.at = "vins" /\ r.op = op /\ r.sub = u /\ r.session = s
    BY <1>3, <2>1
  <2>3. req' = [req EXCEPT ![t] = r]
    BY <1>10 DEF q
  <2> HIDE DEF r
  <2>4. r.op = "lock" /\ r.op \in Ops /\ r.op \notin {"add", "remove", "create"}
    BY <1>10, <2>2 DEF Ops
  <2> QED BY <1>1, <2>2, <2>3, <2>4
<1> QED BY <1>5, <1>7, <1>8, <1>9, <1>10

LEMMA ReadsKeep ==
  ASSUME BackendInv, NEW t \in Threads,
         \/ Fail(t) \/ ReadVins(t) \/ ReadVinsFails(t) \/ ReadAccount(t)
         \/ ReadAccountFails(t) \/ ReadUser(t) \/ InsertVehicle(t) \/ AnswerSession(t)
  PROVE  BackendInv'
<1>0. UNCHANGED <<tables, sessions, present, told>>
  BY DEF Fail, ReadVins, ReadVinsFails, ReadAccount, ReadAccountFails, ReadUser,
         InsertVehicle, AnswerSession
<1>1. CASE Answer(t)
  BY <1>0, <1>1, AnswerStep
<1>2. ASSUME NEW place \in {"jit", "vins_again", "account", "account_again", "user",
                            "vehicle", "own", "disown", "session", "select"},
             Goto(t, place),
             place \in {"user", "vehicle", "own"} => req[t].sub \in users,
             place = "session" => req[t].at = "vins" /\ req[t].op = "create",
             place = "jit" => req[t].op \in {"list", "add", "remove"},
             place \in {"user", "vehicle", "own"} => req[t].op = "add",
             place = "disown" => req[t].op = "remove",
             place = "select" => req[t].op = "lock",
             place \notin {"vins_again", "account", "account_again"}
      PROVE  BackendInv'
  <2>1. place \in Places
    BY <1>2 DEF Places
  <2>2. /\ Others(t) /\ req'[t].at = place
        /\ req'[t].op = req[t].op /\ req'[t].sub = req[t].sub /\ req'[t].vin = req[t].vin
        /\ req'[t].session = req[t].session
    BY <1>2, <2>1, GotoMeans DEF BackendInv
  <2>3. OnItsWay(req[t]) /\ req[t].op # None
    BY <1>2, BackendAssumption DEF BackendInv, RequestOK, Ops
  <2>4. OnItsWay(req'[t])
    BY <1>2, <2>2, <2>3 DEF OnItsWay
  <2> QED BY <1>0, <1>2, <2>1, <2>4, GotoStep
<1>3. OnItsWay(req[t]) /\ VehicleSeenTo(req[t]) /\ req[t].op \in Ops \cup {None}
  BY DEF BackendInv, RequestOK, BackendTypeOK, Requests
<1>4. CASE ReadVins(t) \/ ReadVinsFails(t)
  BY <1>1, <1>2, <1>3, <1>4 DEF ReadVins, ReadVinsFails, OnItsWay
<1>5. CASE ReadAccount(t) \/ ReadAccountFails(t)
  <2>1. req[t].op \in {"add", "remove"}
    BY <1>3, <1>5, BackendAssumption DEF ReadAccount, ReadAccountFails, OnItsWay, Ops
  <2>2. CASE ReadAccountFails(t)
    BY <1>2, <2>1, <2>2 DEF ReadAccountFails
  <2>3. CASE ReadAccount(t) /\ req[t].op = "add"
    <3>1. Goto(t, "user") /\ req[t].sub \in users
      BY <2>3 DEF ReadAccount
    <3> QED BY <1>2, <2>3, <3>1
  <2>4. CASE ReadAccount(t) /\ req[t].op = "remove"
    <3>1. Goto(t, "disown")
      BY <2>4 DEF ReadAccount
    <3> QED BY <1>2, <2>4, <3>1
  <2> QED BY <1>5, <2>1, <2>2, <2>3, <2>4
<1>6. CASE ReadUser(t) \/ InsertVehicle(t)
  <2>1. req[t].op = "add" /\ req[t].sub \in users
    BY <1>3, <1>6 DEF ReadUser, InsertVehicle, OnItsWay, VehicleSeenTo, Ops
  <2> QED BY <1>2, <1>6, <2>1 DEF ReadUser, InsertVehicle
<1>7. CASE Fail(t) \/ AnswerSession(t)
  BY <1>1, <1>7 DEF Fail, AnswerSession
<1> QED BY <1>4, <1>5, <1>6, <1>7

LEMMA EnsureUserKeeps ==
  ASSUME BackendInv, NEW t \in Threads, EnsureUser(t)
  PROVE  BackendInv'
<1> DEFINE place == IF req[t].op = "list" THEN "vins_again" ELSE "account_again"
<1>1. /\ Others(t) /\ req'[t].at = place
      /\ req'[t].op = req[t].op /\ req'[t].sub = req[t].sub /\ req'[t].vin = req[t].vin
      /\ req'[t].session = req[t].session /\ req'[t].clean = req[t].clean
  <2>1. place \in Places /\ Goto(t, place)
    BY DEF EnsureUser, Places
  <2> HIDE DEF place
  <2> QED BY <2>1, GotoMeans DEF BackendInv
<1>2. /\ req[t].op \in {"list", "add", "remove"} /\ req[t].sub \in Subs /\ OnItsWay(req[t])
      /\ place \in {"vins_again", "account_again"}
  BY BackendAssumption
     DEF EnsureUser, BackendInv, RequestOK, OnItsWay, BackendTypeOK, Requests, Ops
<1>3. OnItsWay(req'[t])
  BY <1>1, <1>2 DEF OnItsWay
<1> HIDE DEF place
<1>4. users' = users \cup {req[t].sub} /\ UNCHANGED <<owned, granted, leftover, sessions, present, told>>
  BY DEF EnsureUser
<1>5. BackendTypeOK'
  BY <1>1, <1>2, <1>4 DEF BackendInv, BackendTypeOK, Others
<1>6. RequestOK(req[t])'
  BY <1>1, <1>2, <1>3, <1>4 DEF RequestOK, VehicleSeenTo, SessionSeenTo, OnItsWay
<1>7. \A x \in Threads : x # t => RequestOK(req[x])'
  BY <1>1, <1>4 DEF BackendInv, Others, RequestOK, OnItsWay, VehicleSeenTo, SessionSeenTo, NoGrant
<1>8. SessionsApart' /\ GrantsToUsers' /\ ToldIsSo'
  BY <1>1, <1>2, <1>4 DEF BackendInv, Others, SessionsApart, GrantsToUsers, ToldIsSo, NoGrant
<1> QED BY <1>5, <1>6, <1>7, <1>8 DEF BackendInv

-----------------------------------------------------------------------------
(* The statements about a vehicle.                                         *)

LEMMA ExecutedMeans ==
  ASSUME BackendInv, NEW t \in Threads, NEW place \in Places, req[t].op \in {"add", "remove"},
         NEW opposite, NEW spoilt \in {"added", "removed"},
         Executed(t, place, opposite, spoilt)
  PROVE  /\ Car(req[t]) \in Accounts \X Vins
         /\ req' \in [Threads -> Requests]
         /\ \A x \in Threads :
              /\ req'[x].at = IF x = t THEN place ELSE req[x].at
              /\ req'[x].op = req[x].op /\ req'[x].sub = req[x].sub
              /\ req'[x].vin = req[x].vin /\ req'[x].session = req[x].session
              /\ req'[x].clean => req[x].clean
              /\ x # t /\ req[x].op = opposite /\ Car(req[x]) = Car(req[t]) => ~req'[x].clean
         /\ told' \in [Accounts \X Vins -> {"nothing", "added", "removed"}]
         /\ told'[Car(req[t])] # spoilt
         /\ \A car \in Accounts \X Vins : told'[car] \in {told[car], "nothing"}
<1>1. Car(req[t]) \in Accounts \X Vins
  BY BackendAssumption DEF Car, BackendInv, RequestOK, OnItsWay, BackendTypeOK, Requests, Ops
<1>2. \A r \in Requests :
        /\ [r EXCEPT !.at = place] \in Requests /\ [r EXCEPT !.clean = FALSE] \in Requests
        /\ [r EXCEPT !.at = place].at = place
        /\ [r EXCEPT !.at = place].op = r.op /\ [r EXCEPT !.at = place].sub = r.sub
        /\ [r EXCEPT !.at = place].vin = r.vin
        /\ [r EXCEPT !.at = place].session = r.session
        /\ [r EXCEPT !.at = place].clean = r.clean
        /\ [r EXCEPT !.clean = FALSE].at = r.at
        /\ [r EXCEPT !.clean = FALSE].op = r.op /\ [r EXCEPT !.clean = FALSE].sub = r.sub
        /\ [r EXCEPT !.clean = FALSE].vin = r.vin
        /\ [r EXCEPT !.clean = FALSE].session = r.session
        /\ [r EXCEPT !.clean = FALSE].clean = FALSE
  BY DEF Requests
<1>3. req \in [Threads -> Requests]
      /\ told \in [Accounts \X Vins -> {"nothing", "added", "removed"}]
  BY DEF BackendInv, BackendTypeOK
<1>4. req' = [other \in Threads |->
       IF other = t THEN [req[t] EXCEPT !.at = place]
       ELSE IF req[other].op = opposite /\ Car(req[other]) = Car(req[t])
         THEN [req[other] EXCEPT !.clean = FALSE]
         ELSE req[other]]
  BY DEF Executed, Car
<1>5. told' = [told EXCEPT ![Car(req[t])] = IF @ = spoilt THEN "nothing" ELSE @]
  BY DEF Executed, Car
<1>6. /\ told' \in [Accounts \X Vins -> {"nothing", "added", "removed"}]
      /\ told'[Car(req[t])] # spoilt
      /\ \A car \in Accounts \X Vins : told'[car] \in {told[car], "nothing"}
  BY <1>1, <1>3, <1>5
<1>7. req' \in [Threads -> Requests]
  BY <1>2, <1>3, <1>4
<1>8. ASSUME NEW x \in Threads
      PROVE  /\ req'[x].at = IF x = t THEN place ELSE req[x].at
             /\ req'[x].op = req[x].op /\ req'[x].sub = req[x].sub
             /\ req'[x].vin = req[x].vin /\ req'[x].session = req[x].session
             /\ req'[x].clean => req[x].clean
             /\ x # t /\ req[x].op = opposite /\ Car(req[x]) = Car(req[t]) => ~req'[x].clean
  <2>1. req[x] \in Requests /\ req[t] \in Requests
    BY <1>3
  <2>2. CASE x = t
    <3>1. req'[x] = [req[t] EXCEPT !.at = place]
      BY <1>4, <2>2
    <3> QED BY <1>2, <2>1, <2>2, <3>1
  <2>3. CASE x # t /\ req[x].op = opposite /\ Car(req[x]) = Car(req[t])
    <3>1. req'[x] = [req[x] EXCEPT !.clean = FALSE]
      BY <1>4, <2>3
    <3> QED BY <1>2, <2>1, <2>3, <3>1
  <2>4. CASE x # t /\ ~(req[x].op = opposite /\ Car(req[x]) = Car(req[t]))
    <3>1. req'[x] = req[x]
      BY <1>4, <2>4
    <3> QED BY <2>4, <3>1
  <2> QED BY <2>2, <2>3, <2>4
<1> QED BY <1>1, <1>6, <1>7, <1>8

(* What remains to be shown of a statement: that what the tables hold now  *)
(* agrees with what requests and accounts take for granted.                *)
LEMMA StatementStep ==
  ASSUME BackendInv, NEW t \in Threads, NEW place \in Places,
         UNCHANGED <<users, sessions, present>>,
         owned' \subseteq Accounts \X Vins, granted' \subseteq Subs \X Vins,
         leftover' \subseteq granted',
         req' \in [Threads -> Requests],
         told' \in [Accounts \X Vins -> {"nothing", "added", "removed"}],
         \A x \in Threads :
              /\ req'[x].at = IF x = t THEN place ELSE req[x].at
              /\ req'[x].op = req[x].op /\ req'[x].sub = req[x].sub
              /\ req'[x].vin = req[x].vin /\ req'[x].session = req[x].session
              /\ req'[x].clean => req[x].clean,
         place \in {"grant", "created", "revoke", "removed"},
         place \in {"grant", "created"} <=> req[t].op = "add",
         place \in {"revoke", "removed"} <=> req[t].op = "remove",
         \A x \in Threads : VehicleSeenTo(req[x])', GrantsToUsers', ToldIsSo'
  PROVE  BackendInv'
<1>1. BackendTypeOK'
  BY DEF BackendInv, BackendTypeOK
<1>2. ASSUME NEW x \in Threads PROVE OnItsWay(req[x])' /\ SessionSeenTo(req[x])'
  <2>0. OnItsWay(req[x]) /\ SessionSeenTo(req[x]) /\ req[x].op \in Ops \cup {None}
    BY DEF BackendInv, RequestOK, BackendTypeOK, Requests
  <2>1. CASE x = t
    BY <2>0, <2>1, BackendAssumption DEF OnItsWay, SessionSeenTo, Ops
  <2>2. CASE x # t
    BY <2>0, <2>2 DEF OnItsWay, SessionSeenTo
  <2> QED BY <2>1, <2>2
<1>3. SessionsApart'
  BY DEF BackendInv, SessionsApart
<1> QED BY <1>1, <1>2, <1>3 DEF BackendInv, RequestOK

LEMMA InsertOwnedKeeps ==
  ASSUME BackendInv, NEW t \in Threads, InsertOwned(t)
  PROVE  BackendInv'
<1>1. /\ req[t].at = "own" /\ Executed(t, "grant", "remove", "removed")
      /\ owned' = owned \cup {Car(req[t])}
      /\ UNCHANGED <<users, granted, leftover, sessions, present>>
  BY DEF InsertOwned, Car
<1>2. req[t].op = "add" /\ req[t].sub \in users
  BY <1>1 DEF BackendInv, RequestOK, OnItsWay, VehicleSeenTo, BackendTypeOK, Requests, Ops
<1>3. "grant" \in Places
  BY DEF Places
<1>4. /\ Car(req[t]) \in Accounts \X Vins
      /\ req' \in [Threads -> Requests]
      /\ \A x \in Threads :
           /\ req'[x].at = IF x = t THEN "grant" ELSE req[x].at
           /\ req'[x].op = req[x].op /\ req'[x].sub = req[x].sub
           /\ req'[x].vin = req[x].vin /\ req'[x].session = req[x].session
           /\ req'[x].clean => req[x].clean
           /\ x # t /\ req[x].op = "remove" /\ Car(req[x]) = Car(req[t]) => ~req'[x].clean
      /\ told' \in [Accounts \X Vins -> {"nothing", "added", "removed"}]
      /\ told'[Car(req[t])] # "removed"
      /\ \A car \in Accounts \X Vins : told'[car] \in {told[car], "nothing"}
  BY <1>1, <1>2, <1>3, ExecutedMeans
<1>5. owned' \subseteq Accounts \X Vins /\ granted' \subseteq Subs \X Vins
      /\ leftover' \subseteq granted'
  BY <1>1, <1>4 DEF BackendInv, BackendTypeOK
<1>6. ASSUME NEW x \in Threads PROVE VehicleSeenTo(req[x])'
  <2>1. OnItsWay(req[x]) /\ VehicleSeenTo(req[x]) /\ req[x].op \in Ops \cup {None}
    BY DEF BackendInv, RequestOK, BackendTypeOK, Requests
  <2>2. CASE x = t
    BY <1>1, <1>2, <1>4, <2>2 DEF VehicleSeenTo, Car
  <2>3. CASE x # t
    <3>1. req'[x].clean /\ req[x].at \in {"revoke", "removed"} => Car(req[x]) # Car(req[t])
      BY <1>4, <2>1, <2>3, BackendAssumption DEF OnItsWay, Ops
    <3>2. Car(req'[x]) = Car(req[x])
      BY <1>4 DEF Car
    <3> QED BY <1>1, <1>4, <2>1, <2>3, <3>1, <3>2 DEF VehicleSeenTo, NoGrant, Car
  <2> QED BY <2>2, <2>3
<1>7. GrantsToUsers'
  BY <1>1 DEF BackendInv, GrantsToUsers
<1>8. ToldIsSo'
  <2>1. ASSUME NEW a \in Accounts, NEW v \in Vins
        PROVE  /\ told'[<<a, v>>] = "added" => <<a, v>> \in owned'
               /\ told'[<<a, v>>] = "removed" => <<a, v>> \notin owned' /\ NoGrant(a, v)
    <3>1. told'[<<a, v>>] = "removed" => <<a, v>> # Car(req[t])
      BY <1>4
    <3>2. told'[<<a, v>>] \in {told[<<a, v>>], "nothing"}
      BY <1>4
    <3> QED BY <1>1, <3>1, <3>2 DEF BackendInv, ToldIsSo
  <2> QED BY <1>1, <2>1 DEF ToldIsSo, NoGrant
<1> QED BY <1>1, <1>2, <1>3, <1>4, <1>5, <1>6, <1>7, <1>8, StatementStep

LEMMA InsertGrantKeeps ==
  ASSUME BackendInv, NEW t \in Threads, InsertGrant(t)
  PROVE  BackendInv'
<1>1. /\ req[t].at = "grant" /\ Executed(t, "created", "remove", "removed")
      /\ granted' = granted \cup {<<req[t].sub, req[t].vin>>}
      /\ leftover' = leftover \ {<<req[t].sub, req[t].vin>>}
      /\ UNCHANGED <<users, owned, sessions, present>>
  BY DEF InsertGrant
<1>2. req[t].op = "add" /\ req[t].sub \in users /\ req[t].sub \in Subs /\ req[t].vin \in Vins
  BY <1>1, BackendAssumption
     DEF BackendInv, RequestOK, OnItsWay, VehicleSeenTo, BackendTypeOK, Requests, Ops
<1>3. "created" \in Places
  BY DEF Places
<1>4. /\ Car(req[t]) \in Accounts \X Vins
      /\ req' \in [Threads -> Requests]
      /\ \A x \in Threads :
           /\ req'[x].at = IF x = t THEN "created" ELSE req[x].at
           /\ req'[x].op = req[x].op /\ req'[x].sub = req[x].sub
           /\ req'[x].vin = req[x].vin /\ req'[x].session = req[x].session
           /\ req'[x].clean => req[x].clean
           /\ x # t /\ req[x].op = "remove" /\ Car(req[x]) = Car(req[t]) => ~req'[x].clean
      /\ told' \in [Accounts \X Vins -> {"nothing", "added", "removed"}]
      /\ told'[Car(req[t])] # "removed"
      /\ \A car \in Accounts \X Vins : told'[car] \in {told[car], "nothing"}
  BY <1>1, <1>2, <1>3, ExecutedMeans
<1>5. owned' \subseteq Accounts \X Vins /\ granted' \subseteq Subs \X Vins
      /\ leftover' \subseteq granted'
  BY <1>1, <1>2 DEF BackendInv, BackendTypeOK
<1>6. \A a, v : NoGrant(a, v) /\ <<a, v>> # Car(req[t]) => NoGrant(a, v)'
  BY <1>1 DEF NoGrant, Car
<1>7. ASSUME NEW x \in Threads PROVE VehicleSeenTo(req[x])'
  <2>1. OnItsWay(req[x]) /\ VehicleSeenTo(req[x]) /\ req[x].op \in Ops \cup {None}
    BY DEF BackendInv, RequestOK, BackendTypeOK, Requests
  <2>2. CASE x = t
    BY <1>1, <1>2, <1>4, <2>1, <2>2 DEF VehicleSeenTo, Car
  <2>3. CASE x # t
    <3>1. req'[x].clean /\ req[x].at = "removed" => Car(req[x]) # Car(req[t])
      BY <1>4, <2>1, <2>3, BackendAssumption DEF OnItsWay, Ops
    <3>2. req'[x].clean /\ req'[x].at = "removed" => NoGrant(AccountOf[req[x].sub], req[x].vin)'
      BY <1>4, <1>6, <2>1, <2>3, <3>1 DEF VehicleSeenTo, Car
    <3>3. Car(req'[x]) = Car(req[x])
      BY <1>4 DEF Car
    <3>4. req'[x].clean /\ req'[x].at = "removed" => NoGrant(AccountOf[req[x].sub], req[x].vin)'
      BY <3>2
    <3> QED BY <1>1, <1>4, <2>1, <2>3, <3>3, <3>4 DEF VehicleSeenTo, NoGrant
  <2> QED BY <2>2, <2>3
<1>8. GrantsToUsers'
  BY <1>1, <1>2 DEF BackendInv, GrantsToUsers
<1>9. ToldIsSo'
  <2>1. ASSUME NEW a \in Accounts, NEW v \in Vins
        PROVE  /\ told'[<<a, v>>] = "added" => <<a, v>> \in owned
               /\ told'[<<a, v>>] = "removed" => <<a, v>> \notin owned /\ NoGrant(a, v)'
    <3>1. told'[<<a, v>>] = "removed" => <<a, v>> # Car(req[t])
      BY <1>4
    <3>2. told'[<<a, v>>] \in {told[<<a, v>>], "nothing"}
      BY <1>4
    <3>3. /\ told[<<a, v>>] = "added" => <<a, v>> \in owned
          /\ told[<<a, v>>] = "removed" => <<a, v>> \notin owned /\ NoGrant(a, v)
      BY DEF BackendInv, ToldIsSo
    <3> QED BY <1>6, <3>1, <3>2, <3>3
  <2> QED BY <1>1, <2>1 DEF ToldIsSo
<1> QED BY <1>1, <1>2, <1>3, <1>4, <1>5, <1>7, <1>8, <1>9, StatementStep

LEMMA DeleteOwnedKeeps ==
  ASSUME BackendInv, NEW t \in Threads, DeleteOwned(t)
  PROVE  BackendInv'
<1>1. /\ req[t].at = "disown" /\ Executed(t, "revoke", "add", "added")
      /\ owned' = owned \ {Car(req[t])}
      /\ UNCHANGED <<users, granted, leftover, sessions, present>>
  BY DEF DeleteOwned, Car
<1>2. req[t].op = "remove"
  BY <1>1 DEF BackendInv, RequestOK, OnItsWay, BackendTypeOK, Requests, Ops
<1>3. "revoke" \in Places
  BY DEF Places
<1>4. /\ Car(req[t]) \in Accounts \X Vins
      /\ req' \in [Threads -> Requests]
      /\ \A x \in Threads :
           /\ req'[x].at = IF x = t THEN "revoke" ELSE req[x].at
           /\ req'[x].op = req[x].op /\ req'[x].sub = req[x].sub
           /\ req'[x].vin = req[x].vin /\ req'[x].session = req[x].session
           /\ req'[x].clean => req[x].clean
           /\ x # t /\ req[x].op = "add" /\ Car(req[x]) = Car(req[t]) => ~req'[x].clean
      /\ told' \in [Accounts \X Vins -> {"nothing", "added", "removed"}]
      /\ told'[Car(req[t])] # "added"
      /\ \A car \in Accounts \X Vins : told'[car] \in {told[car], "nothing"}
  BY <1>1, <1>2, <1>3, ExecutedMeans
<1>5. owned' \subseteq Accounts \X Vins /\ granted' \subseteq Subs \X Vins
      /\ leftover' \subseteq granted'
  BY <1>1, <1>4 DEF BackendInv, BackendTypeOK
<1>6. ASSUME NEW x \in Threads PROVE VehicleSeenTo(req[x])'
  <2>1. OnItsWay(req[x]) /\ VehicleSeenTo(req[x]) /\ req[x].op \in Ops \cup {None}
    BY DEF BackendInv, RequestOK, BackendTypeOK, Requests
  <2>2. CASE x = t
    BY <1>1, <1>2, <1>4, <2>2 DEF VehicleSeenTo, Car
  <2>3. CASE x # t
    <3>1. req'[x].clean /\ req[x].at \in {"grant", "created"} => Car(req[x]) # Car(req[t])
      BY <1>4, <2>1, <2>3, BackendAssumption DEF OnItsWay, Ops
    <3>2. Car(req'[x]) = Car(req[x])
      BY <1>4 DEF Car
    <3> QED BY <1>1, <1>4, <2>1, <2>3, <3>1, <3>2 DEF VehicleSeenTo, NoGrant, Car
  <2> QED BY <2>2, <2>3
<1>7. GrantsToUsers'
  BY <1>1 DEF BackendInv, GrantsToUsers
<1>8. ToldIsSo'
  <2>1. ASSUME NEW a \in Accounts, NEW v \in Vins
        PROVE  /\ told'[<<a, v>>] = "added" => <<a, v>> \in owned'
               /\ told'[<<a, v>>] = "removed" => <<a, v>> \notin owned' /\ NoGrant(a, v)
    <3>1. told'[<<a, v>>] = "added" => <<a, v>> # Car(req[t])
      BY <1>4
    <3>2. told'[<<a, v>>] \in {told[<<a, v>>], "nothing"}
      BY <1>4
    <3> QED BY <1>1, <3>1, <3>2 DEF BackendInv, ToldIsSo
  <2> QED BY <1>1, <2>1 DEF ToldIsSo, NoGrant
<1> QED BY <1>1, <1>2, <1>3, <1>4, <1>5, <1>6, <1>7, <1>8, StatementStep

LEMMA DeleteGrantsKeeps ==
  ASSUME BackendInv, NEW t \in Threads, DeleteGrants(t)
  PROVE  BackendInv'
<1>1. /\ req[t].at = "revoke" /\ Executed(t, "removed", "add", "added")
      /\ granted' = granted \ GrantsOf(req[t])
      /\ leftover' = leftover \ GrantsOf(req[t])
      /\ UNCHANGED <<users, owned, sessions, present>>
  BY DEF DeleteGrants
<1>2. req[t].op = "remove" /\ req[t].vin \in Vins
  BY <1>1 DEF BackendInv, RequestOK, OnItsWay, BackendTypeOK, Requests, Ops
<1>3. "removed" \in Places
  BY DEF Places
<1>4. /\ Car(req[t]) \in Accounts \X Vins
      /\ req' \in [Threads -> Requests]
      /\ \A x \in Threads :
           /\ req'[x].at = IF x = t THEN "removed" ELSE req[x].at
           /\ req'[x].op = req[x].op /\ req'[x].sub = req[x].sub
           /\ req'[x].vin = req[x].vin /\ req'[x].session = req[x].session
           /\ req'[x].clean => req[x].clean
           /\ x # t /\ req[x].op = "add" /\ Car(req[x]) = Car(req[t]) => ~req'[x].clean
      /\ told' \in [Accounts \X Vins -> {"nothing", "added", "removed"}]
      /\ told'[Car(req[t])] # "added"
      /\ \A car \in Accounts \X Vins : told'[car] \in {told[car], "nothing"}
  BY <1>1, <1>2, <1>3, ExecutedMeans
<1>5. owned' \subseteq Accounts \X Vins /\ granted' \subseteq Subs \X Vins
      /\ leftover' \subseteq granted'
      /\ granted' \subseteq granted
  BY <1>1 DEF BackendInv, BackendTypeOK
<1>6. NoGrant(AccountOf[req[t].sub], req[t].vin)'
  <2>1. ASSUME NEW u \in Subs, AccountOf[u] = AccountOf[req[t].sub]
        PROVE  <<u, req[t].vin>> \notin granted'
    <3>1. CASE u \in users
      BY <1>1, <2>1, <3>1 DEF GrantsOf
    <3>2. CASE u \notin users
      BY <1>1, <1>2, <3>2 DEF BackendInv, GrantsToUsers
    <3> QED BY <3>1, <3>2
  <2> QED BY <1>4, <2>1 DEF NoGrant
<1>7. \A a, v : NoGrant(a, v) => NoGrant(a, v)'
  BY <1>1 DEF NoGrant
<1>8. ASSUME NEW x \in Threads PROVE VehicleSeenTo(req[x])'
  <2>1. OnItsWay(req[x]) /\ VehicleSeenTo(req[x]) /\ req[x].op \in Ops \cup {None}
    BY DEF BackendInv, RequestOK, BackendTypeOK, Requests
  <2>2. CASE x = t
    <3>1. req'[t].clean => Car(req'[t]) \notin owned'
      BY <1>1, <1>4, <2>1, <2>2 DEF VehicleSeenTo, Car
    <3> QED BY <1>1, <1>2, <1>4, <1>6, <2>2, <3>1 DEF VehicleSeenTo
  <2>3. CASE x # t
    <3>1. Car(req'[x]) = Car(req[x])
      BY <1>4 DEF Car
    <3>2. req'[x].clean /\ req'[x].at = "removed" => NoGrant(AccountOf[req[x].sub], req[x].vin)'
      BY <1>4, <1>7, <2>1, <2>3 DEF VehicleSeenTo
    <3> QED BY <1>1, <1>4, <2>1, <2>3, <3>1, <3>2 DEF VehicleSeenTo, NoGrant
  <2> QED BY <2>2, <2>3
<1>9. GrantsToUsers' /\ ToldIsSo'
  BY <1>1, <1>4, <1>5, <1>7 DEF BackendInv, BackendTypeOK, GrantsToUsers, ToldIsSo
<1> QED BY <1>1, <1>2, <1>3, <1>4, <1>5, <1>8, <1>9, StatementStep

LEMMA GotoMarkedMeans ==
  ASSUME BackendTypeOK, NEW t \in Threads, NEW place \in Places, NEW mark \in BOOLEAN,
         req' = [req EXCEPT ![t].at = place, ![t].clean = mark]
  PROVE  /\ Others(t) /\ req'[t].at = place /\ req'[t].clean = mark
         /\ req'[t].op = req[t].op /\ req'[t].sub = req[t].sub /\ req'[t].vin = req[t].vin
         /\ req'[t].session = req[t].session
<1> DEFINE w == [req[t] EXCEPT !.at = place]
           r == [w EXCEPT !.clean = mark]
<1>1. req' = [req EXCEPT ![t] = r]
  BY DEF BackendTypeOK
<1>2. req[t] \in Requests
  BY DEF BackendTypeOK
<1>3. /\ w \in Requests /\ w.at = place /\ w.op = req[t].op /\ w.sub = req[t].sub
      /\ w.vin = req[t].vin /\ w.session = req[t].session
  BY <1>2 DEF Requests
<1> HIDE DEF w
<1>4. /\ r \in Requests /\ r.at = w.at /\ r.clean = mark /\ r.op = w.op /\ r.sub = w.sub
      /\ r.vin = w.vin /\ r.session = w.session
  BY <1>3 DEF Requests
<1> HIDE DEF r
<1>5. req' \in [Threads -> Requests] /\ req'[t] = r /\ \A x \in Threads : x # t => req'[x] = req[x]
  BY <1>1, <1>4 DEF BackendTypeOK
<1> QED BY <1>3, <1>4, <1>5 DEF Others

LEMMA DeleteGrantsFailsKeeps ==
  ASSUME BackendInv, NEW t \in Threads, DeleteGrantsFails(t)
  PROVE  BackendInv'
<1>1. /\ req[t].at = "revoke" /\ Goto(t, "removed")
      /\ leftover' = leftover \cup GrantsOf(req[t])
      /\ UNCHANGED <<users, owned, granted, sessions, present, told>>
  BY DEF DeleteGrantsFails
<1>2. req[t].op = "remove" /\ req[t].vin \in Vins /\ VehicleSeenTo(req[t])
  BY <1>1 DEF BackendInv, RequestOK, OnItsWay, BackendTypeOK, Requests, Ops
<1>3. "removed" \in Places
  BY DEF Places
<1>4. /\ Others(t) /\ req'[t].at = "removed"
      /\ req'[t].op = req[t].op /\ req'[t].sub = req[t].sub /\ req'[t].vin = req[t].vin
      /\ req'[t].session = req[t].session /\ req'[t].clean = req[t].clean
  BY <1>1, <1>3, GotoMeans DEF BackendInv
<1>5. /\ owned' \subseteq Accounts \X Vins /\ granted' \subseteq Subs \X Vins
      /\ leftover' \subseteq granted'
      /\ told' \in [Accounts \X Vins -> {"nothing", "added", "removed"}]
  BY <1>1 DEF BackendInv, BackendTypeOK, GrantsOf
<1>6. \A x \in Threads :
        /\ req'[x].at = IF x = t THEN "removed" ELSE req[x].at
        /\ req'[x].op = req[x].op /\ req'[x].sub = req[x].sub
        /\ req'[x].vin = req[x].vin /\ req'[x].session = req[x].session
        /\ req'[x].clean => req[x].clean
  BY <1>4 DEF Others
<1>7. NoGrant(AccountOf[req[t].sub], req[t].vin)'
  BY <1>1, <1>2, <1>4 DEF NoGrant, GrantsOf, BackendInv, GrantsToUsers
<1>8. \A a, v : NoGrant(a, v) => NoGrant(a, v)'
  BY <1>1 DEF NoGrant
<1>9. ASSUME NEW x \in Threads PROVE VehicleSeenTo(req[x])'
  <2>1. CASE x = t
    BY <1>1, <1>2, <1>4, <1>7, <2>1 DEF VehicleSeenTo, Car
  <2>2. CASE x # t
    <3>1. VehicleSeenTo(req[x]) /\ req'[x] = req[x]
      BY <1>4, <2>2 DEF BackendInv, RequestOK, Others
    <3>2. \A r : VehicleSeenTo(r) => VehicleSeenTo(r)'
      BY <1>1, <1>8 DEF VehicleSeenTo, Car
    <3> QED BY <3>1, <3>2 DEF VehicleSeenTo
  <2> QED BY <2>1, <2>2
<1>10. GrantsToUsers' /\ ToldIsSo'
  BY <1>1, <1>8 DEF BackendInv, GrantsToUsers, ToldIsSo
<1> QED BY <1>1, <1>2, <1>3, <1>4, <1>5, <1>6, <1>9, <1>10, StatementStep DEF Others

LEMMA AnswerVehicleKeeps ==
  ASSUME BackendInv, NEW t \in Threads, AnswerVehicle(t)
  PROVE  BackendInv'
<1> DEFINE car == Car(req[t])
<1>1. /\ req[t].at \in {"created", "removed"} /\ Answer(t)
      /\ told' = [told EXCEPT ![car] =
           IF ~req[t].clean THEN @
           ELSE IF req[t].at = "created" THEN "added" ELSE "removed"]
      /\ UNCHANGED <<tables, sessions, present>>
  BY DEF AnswerVehicle, Car
<1>2. Others(t) /\ req'[t].at = "idle" /\ req'[t].op = None
  BY <1>1, AnswerMeans DEF BackendInv
<1>3. OnItsWay(req'[t]) /\ VehicleSeenTo(req'[t]) /\ SessionSeenTo(req'[t])
  BY <1>2, BackendAssumption DEF OnItsWay, VehicleSeenTo, SessionSeenTo, Ops
<1>4. \A x \in Threads : RequestOK(req[x])'
  BY <1>1, <1>2, <1>3
     DEF BackendInv, RequestOK, OnItsWay, VehicleSeenTo, SessionSeenTo, NoGrant, Others, tables
<1>5. told' \in [Accounts \X Vins -> {"nothing", "added", "removed"}]
  BY <1>1 DEF BackendInv, BackendTypeOK
<1>6. BackendTypeOK'
  BY <1>1, <1>2, <1>5 DEF BackendInv, BackendTypeOK, Others, tables
<1>7. SessionsApart' /\ GrantsToUsers'
  BY <1>1, <1>2, BackendAssumption
     DEF BackendInv, SessionsApart, GrantsToUsers, Others, tables, Ops
<1>8. ToldIsSo'
  <2>1. VehicleSeenTo(req[t])
    BY DEF BackendInv, RequestOK
  <2>2. ASSUME NEW a \in Accounts, NEW v \in Vins
        PROVE  /\ told'[<<a, v>>] = "added" => <<a, v>> \in owned
               /\ told'[<<a, v>>] = "removed" => <<a, v>> \notin owned /\ NoGrant(a, v)
    <3>1. CASE <<a, v>> = car /\ req[t].clean
      <4>1. told'[<<a, v>>] = IF req[t].at = "created" THEN "added" ELSE "removed"
        BY <1>1, <3>1 DEF BackendInv, BackendTypeOK
      <4>2. a = AccountOf[req[t].sub] /\ v = req[t].vin
        BY <3>1 DEF Car
      <4> QED BY <1>1, <2>1, <3>1, <4>1, <4>2 DEF VehicleSeenTo
    <3>2. CASE ~(<<a, v>> = car /\ req[t].clean)
      <4>1. told'[<<a, v>>] = told[<<a, v>>]
        BY <1>1, <3>2 DEF BackendInv, BackendTypeOK
      <4> QED BY <4>1 DEF BackendInv, ToldIsSo
    <3> QED BY <3>1, <3>2
  <2> QED BY <1>1, <2>2 DEF ToldIsSo, NoGrant, tables
<1> QED BY <1>4, <1>6, <1>7, <1>8 DEF BackendInv

-----------------------------------------------------------------------------
(* The statements about a session.                                         *)

(* What remains to be shown of them: that what the rows hold now agrees    *)
(* with what requests take for granted.                                    *)
LEMMA SessionStep ==
  ASSUME BackendInv, UNCHANGED <<tables, told>>,
         sessions' \in [SessionIds -> SessionRows \cup {None}], present' \subseteq SessionIds,
         req' \in [Threads -> Requests],
         \A x \in Threads : (OnItsWay(req[x]) /\ SessionSeenTo(req[x]))',
         \A x \in Threads :
           \/ req'[x].at \in {"idle", "participant", "made", "update"}
           \/ /\ req'[x].at = req[x].at /\ req'[x].sub = req[x].sub /\ req'[x].vin = req[x].vin
              /\ req'[x].clean => req[x].clean,
         \A x \in Threads : req'[x].op = "create" =>
           req[x].op = "create" /\ req'[x].session = req[x].session
  PROVE  BackendInv'
<1>1. BackendTypeOK'
  BY DEF BackendInv, BackendTypeOK, tables
<1>2. ASSUME NEW x \in Threads PROVE VehicleSeenTo(req[x])'
  BY DEF BackendInv, RequestOK, VehicleSeenTo, NoGrant, Car, tables
<1>3. SessionsApart'
  BY DEF BackendInv, SessionsApart
<1>4. GrantsToUsers' /\ ToldIsSo'
  BY DEF BackendInv, GrantsToUsers, ToldIsSo, NoGrant, tables
<1> QED BY <1>1, <1>2, <1>3, <1>4 DEF BackendInv, RequestOK

LEMMA InsertSessionKeeps ==
  ASSUME BackendInv, NEW t \in Threads, InsertSession(t)
  PROVE  BackendInv'
<1> DEFINE s == req[t].session
           row == [vin |-> req[t].vin, controller |-> req[t].sub, expired |-> FALSE,
                   owner |-> None]
<1>1. /\ req[t].at = "session" /\ Goto(t, "participant")
      /\ sessions' = [sessions EXCEPT ![s] = row]
      /\ UNCHANGED <<tables, present, told>>
  BY DEF InsertSession
<1>2. /\ req[t].op = "create" /\ s \in SessionIds /\ req[t].sub \in Subs /\ req[t].vin \in Vins
      /\ OnItsWay(req[t])
  BY <1>1, BackendAssumption
     DEF BackendInv, RequestOK, OnItsWay, BackendTypeOK, Requests, Ops
<1>3. row \in SessionRows /\ row # None /\ row.controller = req[t].sub
  <2>1. row \in SessionRows
    BY <1>2 DEF SessionRows
  <2>2. row # None
    BY <2>1, BackendAssumption
  <2> QED BY <2>1, <2>2
<1> HIDE DEF row
<1>4. /\ sessions' \in [SessionIds -> SessionRows \cup {None}] /\ sessions'[s] = row
      /\ \A z \in SessionIds : z # s => sessions'[z] = sessions[z]
  BY <1>1, <1>2, <1>3 DEF BackendInv, BackendTypeOK
<1>5. /\ Others(t) /\ req'[t].at = "participant"
      /\ req'[t].op = req[t].op /\ req'[t].sub = req[t].sub /\ req'[t].vin = req[t].vin
      /\ req'[t].session = req[t].session
  <2>1. "participant" \in Places
    BY DEF Places
  <2> QED BY <1>1, <2>1, GotoMeans DEF BackendInv
<1>6. OnItsWay(req'[t]) /\ SessionSeenTo(req[t])'
  BY <1>2, <1>3, <1>4, <1>5 DEF OnItsWay, SessionSeenTo
<1>7. ASSUME NEW x \in Threads, x # t PROVE OnItsWay(req'[x]) /\ SessionSeenTo(req[x])'
  <2>1. OnItsWay(req[x]) /\ SessionSeenTo(req[x]) /\ req'[x] = req[x]
        /\ req[x].op \in Ops \cup {None}
    BY <1>5, <1>7 DEF BackendInv, RequestOK, Others, BackendTypeOK, Requests
  <2>2. sessions[s] = None
    BY <1>1, <1>2 DEF BackendInv, RequestOK, SessionSeenTo
  <2>3. req[x].op = "create" => req[x].session # s
    BY <1>2, <1>7 DEF BackendInv, SessionsApart
  <2>4. req[x].at \in {"participant", "made", "update"} => req[x].session # s
    BY <2>1, <2>2 DEF SessionSeenTo
  <2>5. req[x].at \in {"participant", "made", "update"} => req[x].op \in {"create", "lock"}
    BY <2>1, BackendAssumption DEF OnItsWay, Ops
  <2>6. req[x].op \in {"create", "lock"} => req[x].session \in SessionIds
    BY <2>1 DEF OnItsWay
  <2> QED BY <1>1, <1>4, <2>1, <2>3, <2>4, <2>5, <2>6 DEF SessionSeenTo
<1>8. \A x \in Threads : (OnItsWay(req[x]) /\ SessionSeenTo(req[x]))'
  BY <1>6, <1>7 DEF OnItsWay
<1>9. present' \subseteq SessionIds
  BY <1>1 DEF BackendInv, BackendTypeOK
<1> QED BY <1>1, <1>4, <1>5, <1>8, <1>9, SessionStep DEF Others

LEMMA InsertParticipantKeeps ==
  ASSUME BackendInv, NEW t \in Threads, InsertParticipant(t)
  PROVE  BackendInv'
<1>1. /\ req[t].at = "participant" /\ Goto(t, "made")
      /\ present' = present \cup {req[t].session}
      /\ UNCHANGED <<tables, sessions, told>>
  BY DEF InsertParticipant
<1>2. /\ OnItsWay(req[t]) /\ SessionSeenTo(req[t]) /\ req[t].op = "create"
      /\ req[t].session \in SessionIds
  BY <1>1, BackendAssumption
     DEF BackendInv, RequestOK, OnItsWay, BackendTypeOK, Requests, Ops
<1>3. /\ Others(t) /\ req'[t].at = "made"
      /\ req'[t].op = req[t].op /\ req'[t].sub = req[t].sub /\ req'[t].vin = req[t].vin
      /\ req'[t].session = req[t].session
  <2>1. "made" \in Places
    BY DEF Places
  <2> QED BY <1>1, <2>1, GotoMeans DEF BackendInv
<1>4. (OnItsWay(req[t]) /\ SessionSeenTo(req[t]))'
  BY <1>1, <1>2, <1>3 DEF OnItsWay, SessionSeenTo
<1>5. ASSUME NEW x \in Threads, x # t PROVE (OnItsWay(req[x]) /\ SessionSeenTo(req[x]))'
  BY <1>1, <1>3, <1>5 DEF BackendInv, RequestOK, OnItsWay, SessionSeenTo, Others
<1>6. present' \subseteq SessionIds
      /\ sessions' \in [SessionIds -> SessionRows \cup {None}]
  BY <1>1, <1>2 DEF BackendInv, BackendTypeOK
<1> QED BY <1>1, <1>3, <1>4, <1>5, <1>6, SessionStep DEF Others

LEMMA SelectSessionKeeps ==
  ASSUME BackendInv, NEW t \in Threads, SelectSession(t)
  PROVE  BackendInv'
<1> DEFINE row == sessions[req[t].session]
<1>1. req[t].at = "select" /\ UNCHANGED <<tables, sessions, present, told>>
  BY DEF SelectSession
<1>2. CASE Answer(t)
  BY <1>1, <1>2, AnswerStep
<1>3. CASE /\ row # None /\ ~Conflict(row, req[t].sub)
           /\ req' = [req EXCEPT ![t].at = "update", ![t].clean = TRUE]
  <2>1. /\ Others(t) /\ req'[t].at = "update" /\ req'[t].clean = TRUE
        /\ req'[t].op = req[t].op /\ req'[t].sub = req[t].sub /\ req'[t].vin = req[t].vin
        /\ req'[t].session = req[t].session
    <3>1. "update" \in Places /\ TRUE \in BOOLEAN
      BY DEF Places
    <3> QED BY <1>3, <3>1, GotoMarkedMeans DEF BackendInv
  <2>2. OnItsWay(req[t]) /\ req[t].op = "lock"
    BY <1>1 DEF BackendInv, RequestOK, OnItsWay, BackendTypeOK, Requests, Ops
  <2>3. OnItsWay(req'[t]) /\ VehicleSeenTo(req'[t])
    BY <2>1, <2>2, BackendAssumption DEF OnItsWay, VehicleSeenTo, Ops
  <2>4. SessionSeenTo(req'[t])
    BY <1>3, <2>1 DEF SessionSeenTo
  <2> QED BY <1>1, <2>1, <2>2, <2>3, <2>4, RequestStep
<1> QED BY <1>2, <1>3 DEF SelectSession

(* A row whose lock or TTL changes is still there, with its controller.    *)
LEMMA RowKept ==
  ASSUME NEW row \in SessionRows, NEW u \in Subs \cup {None}
  PROVE  /\ [row EXCEPT !.owner = u] \in SessionRows
         /\ [row EXCEPT !.owner = u] # None
         /\ [row EXCEPT !.owner = u].controller = row.controller
         /\ [row EXCEPT !.owner = u].owner = u
         /\ [row EXCEPT !.expired = TRUE] \in SessionRows
         /\ [row EXCEPT !.expired = TRUE] # None
         /\ [row EXCEPT !.expired = TRUE].controller = row.controller
         /\ [row EXCEPT !.expired = TRUE].owner = row.owner
<1>1. /\ [row EXCEPT !.owner = u] \in SessionRows
      /\ [row EXCEPT !.owner = u].controller = row.controller
      /\ [row EXCEPT !.owner = u].owner = u
      /\ [row EXCEPT !.expired = TRUE] \in SessionRows
      /\ [row EXCEPT !.expired = TRUE].controller = row.controller
      /\ [row EXCEPT !.expired = TRUE].owner = row.owner
  BY DEF SessionRows
<1> QED BY <1>1, BackendAssumption

LEMMA UpdateLockKeeps ==
  ASSUME BackendInv, NEW t \in Threads, UpdateLock(t)
  PROVE  BackendInv'
<1> DEFINE s == req[t].session
           row == [sessions[s] EXCEPT !.owner = req[t].sub]
<1>1. /\ req[t].at = "update"
      /\ sessions' = [sessions EXCEPT ![s].owner = req[t].sub]
      /\ req' = [other \in Threads |->
           IF other = t THEN Idle
           ELSE IF req[other].op = "lock" /\ req[other].session = s
             THEN [req[other] EXCEPT !.clean = FALSE]
             ELSE req[other]]
      /\ UNCHANGED <<tables, present, told>>
  BY DEF UpdateLock
<1>2. /\ s \in SessionIds /\ req[t].sub \in Subs /\ sessions[s] \in SessionRows
      /\ sessions[s] # None
  <2>1. req[t].op = "lock" /\ OnItsWay(req[t]) /\ SessionSeenTo(req[t])
    BY <1>1 DEF BackendInv, RequestOK, OnItsWay, BackendTypeOK, Requests, Ops
  <2>2. s \in SessionIds /\ req[t].sub \in Subs /\ sessions[s] # None
    BY <1>1, <2>1, BackendAssumption DEF OnItsWay, SessionSeenTo, Ops
  <2> QED BY <2>2 DEF BackendInv, BackendTypeOK
<1>3. row \in SessionRows /\ row # None /\ row.controller = sessions[s].controller
  <2>1. \A r \in SessionRows, u \in Subs :
          /\ [r EXCEPT !.owner = u] \in SessionRows /\ [r EXCEPT !.owner = u] # None
          /\ [r EXCEPT !.owner = u].controller = r.controller
    BY RowKept
  <2> QED BY <1>2, <2>1, Zenon
<1>4. /\ sessions' \in [SessionIds -> SessionRows \cup {None}] /\ sessions'[s] = row
      /\ \A z \in SessionIds : z # s => sessions'[z] = sessions[z]
  BY <1>1, <1>2, <1>3 DEF BackendInv, BackendTypeOK
<1> HIDE DEF row
<1>5. \A r \in Requests :
        /\ [r EXCEPT !.clean = FALSE] \in Requests /\ [r EXCEPT !.clean = FALSE].clean = FALSE
        /\ [r EXCEPT !.clean = FALSE].at = r.at /\ [r EXCEPT !.clean = FALSE].op = r.op
        /\ [r EXCEPT !.clean = FALSE].sub = r.sub /\ [r EXCEPT !.clean = FALSE].vin = r.vin
        /\ [r EXCEPT !.clean = FALSE].session = r.session
  BY DEF Requests
<1>6. Idle \in Requests /\ Idle.at = "idle" /\ Idle.op = None
  BY DEF Idle, Requests, Places
<1>7. req \in [Threads -> Requests]
  BY DEF BackendInv, BackendTypeOK
<1>8. req' \in [Threads -> Requests]
  BY <1>1, <1>5, <1>6, <1>7
<1>9. req'[t].at = "idle" /\ req'[t].op = None
  BY <1>1, <1>6
<1>10. ASSUME NEW x \in Threads, x # t
       PROVE  /\ req'[x].at = req[x].at /\ req'[x].op = req[x].op
              /\ req'[x].sub = req[x].sub /\ req'[x].vin = req[x].vin
              /\ req'[x].session = req[x].session
              /\ req'[x].clean => req[x].clean
              /\ req[x].op = "lock" /\ req[x].session = s => ~req'[x].clean
  <2>1. req[x] \in Requests
    BY <1>7
  <2>2. CASE req[x].op = "lock" /\ req[x].session = s
    <3>1. req'[x] = [req[x] EXCEPT !.clean = FALSE]
      BY <1>1, <1>10, <2>2
    <3> QED BY <1>5, <2>1, <3>1
  <2>3. CASE ~(req[x].op = "lock" /\ req[x].session = s)
    <3>1. req'[x] = req[x]
      BY <1>1, <1>10, <2>3
    <3> QED BY <2>3, <3>1
  <2> QED BY <2>2, <2>3
<1>11. (OnItsWay(req[t]) /\ SessionSeenTo(req[t]))'
  BY <1>9, BackendAssumption DEF OnItsWay, SessionSeenTo, Ops
<1>12. ASSUME NEW x \in Threads, x # t PROVE (OnItsWay(req[x]) /\ SessionSeenTo(req[x]))'
  <2>1. OnItsWay(req[x]) /\ SessionSeenTo(req[x]) /\ req[x].op \in Ops \cup {None}
    BY DEF BackendInv, RequestOK, BackendTypeOK, Requests
  <2>2. OnItsWay(req[x])'
    BY <1>10, <1>12, <2>1 DEF OnItsWay
  <2>3. req[x].op = "create" /\ req[x].at \in {"vins", "session"} => req[x].session # s
    BY <1>2, <2>1 DEF SessionSeenTo
  <2>4. req[x].at = "update" /\ req'[x].clean => req[x].session # s
    BY <1>10, <1>12, <2>1, BackendAssumption DEF OnItsWay, Ops
  <2>5. req[x].at \in {"participant", "made", "update"} => req[x].op \in {"create", "lock"}
    BY <2>1, BackendAssumption DEF OnItsWay, Ops
  <2>6. req[x].op \in {"create", "lock"} => req[x].session \in SessionIds
    BY <2>1 DEF OnItsWay
  <2>7. SessionSeenTo(req[x])'
    <3>1. CASE req[x].op \in {"create", "lock"} /\ req[x].session = s
      <4>1. sessions'[req'[x].session] = row /\ row # None
            /\ row.controller = sessions[req[x].session].controller
        BY <1>3, <1>4, <1>10, <1>12, <3>1
      <4>2. /\ req'[x].at = req[x].at /\ req'[x].op = req[x].op /\ req'[x].sub = req[x].sub
            /\ req'[x].session = req[x].session
        BY <1>10, <1>12
      <4>3. ~(req[x].op = "create" /\ req[x].at \in {"vins", "session"})
            /\ ~(req[x].at = "update" /\ req'[x].clean)
        BY <2>3, <2>4, <3>1
      <4> QED BY <1>1, <2>1, <4>1, <4>2, <4>3 DEF SessionSeenTo
    <3>2. CASE req[x].op \in {"create", "lock"} /\ req[x].session # s
      BY <1>1, <1>4, <1>10, <1>12, <2>1, <2>6, <3>2 DEF SessionSeenTo
    <3>3. CASE req[x].op \notin {"create", "lock"}
      BY <1>10, <1>12, <2>1, <2>5, <3>3 DEF SessionSeenTo
    <3> QED BY <3>1, <3>2, <3>3
  <2> QED BY <2>2, <2>7
<1>13. \A x \in Threads :
         /\ (OnItsWay(req[x]) /\ SessionSeenTo(req[x]))'
         /\ req'[x].op = "create" => req[x].op = "create" /\ req'[x].session = req[x].session
         /\ \/ req'[x].at \in {"idle", "participant", "made", "update"}
            \/ /\ req'[x].at = req[x].at /\ req'[x].sub = req[x].sub /\ req'[x].vin = req[x].vin
               /\ req'[x].clean => req[x].clean
  BY <1>9, <1>10, <1>11, <1>12, BackendAssumption DEF Ops
<1>14. present' \subseteq SessionIds
  BY <1>1 DEF BackendInv, BackendTypeOK
<1> QED BY <1>1, <1>4, <1>8, <1>13, <1>14, SessionStep

LEMMA ClockKeeps ==
  ASSUME BackendInv, NEW s \in SessionIds, LockExpires(s) \/ SessionExpires(s)
  PROVE  BackendInv'
<1>1. sessions[s] \in SessionRows /\ UNCHANGED <<tables, present, req, told>>
  BY DEF LockExpires, SessionExpires, BackendInv, BackendTypeOK
<1>2. PICK row \in SessionRows :
        /\ row # None /\ row.controller = sessions[s].controller
        /\ row.owner \in {sessions[s].owner, None}
        /\ sessions' = [sessions EXCEPT ![s] = row]
  <2>1. CASE LockExpires(s)
    <3> DEFINE row == [sessions[s] EXCEPT !.owner = None]
    <3>1. row \in SessionRows /\ row # None /\ row.controller = sessions[s].controller
          /\ row.owner = None
      BY <1>1, RowKept
    <3>2. sessions' = [sessions EXCEPT ![s] = row]
      BY <2>1 DEF LockExpires
    <3> HIDE DEF row
    <3> QED BY <3>1, <3>2
  <2>2. CASE SessionExpires(s)
    <3> DEFINE row == [sessions[s] EXCEPT !.expired = TRUE]
    <3>1. row \in SessionRows /\ row # None /\ row.controller = sessions[s].controller
          /\ row.owner = sessions[s].owner
      BY <1>1, RowKept
    <3>2. sessions' = [sessions EXCEPT ![s] = row]
      BY <2>2 DEF SessionExpires
    <3> HIDE DEF row
    <3> QED BY <3>1, <3>2
  <2> QED BY <2>1, <2>2
<1>3. /\ sessions' \in [SessionIds -> SessionRows \cup {None}] /\ sessions'[s] = row
      /\ \A z \in SessionIds : z # s => sessions'[z] = sessions[z]
  BY <1>2 DEF BackendInv, BackendTypeOK
<1>4. ASSUME NEW x \in Threads PROVE (OnItsWay(req[x]) /\ SessionSeenTo(req[x]))'
  <2>1. OnItsWay(req[x]) /\ SessionSeenTo(req[x]) /\ req[x].op \in Ops \cup {None}
    BY DEF BackendInv, RequestOK, BackendTypeOK, Requests
  <2>2. sessions[s] # None
    BY <1>1, BackendAssumption
  <2>3. \A u \in Subs : ~Conflict(sessions[s], u) => ~Conflict(row, u)
    BY <1>2 DEF Conflict
  <2>4. req[x].at \in {"participant", "made", "update"} =>
          req[x].op \in {"create", "lock"} /\ req[x].sub \in Subs
    BY <2>1, BackendAssumption DEF OnItsWay, Ops
  <2>5. req[x].op \in {"create", "lock"} => req[x].session \in SessionIds
    BY <2>1 DEF OnItsWay
  <2> QED BY <1>1, <1>2, <1>3, <2>1, <2>2, <2>3, <2>4, <2>5 DEF SessionSeenTo, OnItsWay
<1>5. req' \in [Threads -> Requests] /\ present' \subseteq SessionIds
  BY <1>1 DEF BackendInv, BackendTypeOK
<1> QED BY <1>1, <1>3, <1>4, <1>5, SessionStep

-----------------------------------------------------------------------------
(* The invariant and what follows from it.                                 *)

LEMMA InvStep == BackendInv /\ [BackendNext]_vars => BackendInv'
<1> SUFFICES ASSUME BackendInv, [BackendNext]_vars PROVE BackendInv'
  OBVIOUS
<1>1. ASSUME NEW t \in Threads, Handle(t) PROVE BackendInv'
  BY <1>1, BeginKeeps, ReadsKeep, EnsureUserKeeps, InsertOwnedKeeps, InsertGrantKeeps,
     DeleteOwnedKeeps, DeleteGrantsKeeps, DeleteGrantsFailsKeeps, AnswerVehicleKeeps,
     InsertSessionKeeps, InsertParticipantKeeps, SelectSessionKeeps, UpdateLockKeeps
     DEF Handle
<1>2. ASSUME NEW s \in SessionIds, LockExpires(s) \/ SessionExpires(s) PROVE BackendInv'
  BY <1>2, ClockKeeps
<1>3. CASE UNCHANGED vars
  BY <1>3 DEF vars, tables, BackendInv, BackendTypeOK, RequestOK, OnItsWay, VehicleSeenTo,
              SessionSeenTo, SessionsApart, GrantsToUsers, ToldIsSo, NoGrant, Car, Conflict
<1> QED BY <1>1, <1>2, <1>3 DEF BackendNext

LEMMA AlwaysInv == BackendSpec => []BackendInv
<1> QED BY InvInit, InvStep, PTL DEF BackendSpec

(* The tables, sessions and requests of the backend keep their types,      *)
(* whatever the handlers (main.cpp:548-1440) commit in between.            *)
THEOREM BackendTypes == BackendSpec => []BackendTypeOK
<1>1. BackendInv => BackendTypeOK
  BY DEF BackendInv
<1> QED BY <1>1, AlwaysInv, PTL

(* What an operator was told about a vehicle (201 or 204 of POST and       *)
(* DELETE /vehicles) is what every operator of the account sees, until one *)
(* of them asks for the opposite, but for a grant whose DELETE has failed. *)
THEOREM ToldIsTrue == BackendSpec => []ToldTheTruth
<1>1. BackendInv => ToldTheTruth
  <2> SUFFICES ASSUME BackendInv, NEW u \in users, NEW v \in Vins
               PROVE  /\ told[<<AccountOf[u], v>>] = "added" => Sees(u, v)
                      /\ told[<<AccountOf[u], v>>] = "removed" =>
                           /\ <<AccountOf[u], v>> \notin owned
                           /\ <<u, v>> \in granted => <<u, v>> \in leftover
    BY DEF ToldTheTruth
  <2>1. u \in Subs /\ AccountOf[u] \in Accounts
    BY BackendAssumption DEF BackendInv, BackendTypeOK
  <2> QED BY <2>1 DEF BackendInv, ToldIsSo, NoGrant, Sees
<1> QED BY <1>1, AlwaysInv, PTL

(* A session answered 201 has its participant (POST /vins/{vin}/sessions   *)
(* inserts both, one after the other) and is the one the caller controls.  *)
THEOREM SessionHasParticipant == BackendSpec => []AnsweredSessionHasParticipant
<1>1. BackendInv => AnsweredSessionHasParticipant
  BY DEF BackendInv, RequestOK, SessionSeenTo, AnsweredSessionHasParticipant
<1> QED BY <1>1, AlwaysInv, PTL

(* POST /sessions/{id}/lock takes a live lock from another operator only   *)
(* when an UPDATE of the lock came between its SELECT and its own UPDATE.  *)
THEOREM TakenOnStaleRead == BackendSpec => TakenOnlyOnStaleRead
<1>1. BackendInv /\ [BackendNext]_vars =>
        [\A t \in Threads :
           UpdateLock(t) /\ Conflict(sessions[req[t].session], req[t].sub)
             => ~req[t].clean]_vars
  BY DEF BackendInv, RequestOK, SessionSeenTo, UpdateLock
<1> QED BY <1>1, AlwaysInv, PTL DEF BackendSpec, TakenOnlyOnStaleRead
=============================================================================
