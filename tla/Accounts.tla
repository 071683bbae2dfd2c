------------------------------ MODULE Accounts ------------------------------
(***************************************************************************)
(* Users, their permissions and their second factor                        *)
(* (src/internal/store/user_store.go, src/internal/api/users.go, mfa.go).  *)
(*                                                                         *)
(* The store is locked for the time of one call; a handler makes up to     *)
(* three calls, each a step of its own: requireAdmin looks the caller up,  *)
(* most handlers about one user read its record, and one call writes.      *)
(* Users and permissions are written to two files, in place, by every      *)
(* change; a write fails before it touches the file ("open") or after it   *)
(* has truncated it ("cut"), and nothing is loaded from such a file.       *)
(*                                                                         *)
(* Passwords, e-mail addresses other than the name of a user, and the      *)
(* three flags of a permission are data.  A secret or a token is a number, *)
(* 0 for none; new ones are new numbers.  Every user may hold a session:   *)
(* sessions are signed, kept nowhere and never revoked.                    *)
(***************************************************************************)
EXTENDS Integers, Sequences, FiniteSets

CONSTANTS
    Names,          \* the names users can have
    Admin,          \* "admin", the name of the user a start creates
    Kinds,          \* kinds of permission entries: of a task, of a project
    Clients,        \* requests that are handled at the same time
    FeishuAccounts, \* the accounts that log in with Feishu: [email, name, id]
    Ops,            \* the operations that clients ask for
    Stored,         \* the users and permissions a server may start from
    None,           \* no value
    MaxRequests, MaxFaults, MaxRestarts  \* bounds

Roles == {"admin", "user"}
User == [name: Names, role: Roles, enabled: BOOLEAN, mfa: BOOLEAN, secret: Nat, token: Nat,
         feishu: {a.id : a \in FeishuAccounts} \cup {None}]
Permissions == SUBSET (Names \X Kinds)

ASSUME AccountsAssumption ==
    /\ Admin \in Names /\ None \notin Names \cup Roles /\ None \notin BOOLEAN
    /\ \A a \in FeishuAccounts : a.email \in Names \cup {None} /\ a.name \in Names /\ a.id # None
    /\ MaxRequests \in Nat /\ MaxFaults \in Nat /\ MaxRestarts \in Nat
    /\ Stored \subseteq [users: Seq(User), perms: Permissions]

VARIABLES
    users,      \* userStore.users: the first record with a name counts
    perms,      \* userStore.permissions: who has an entry of which kind
    userFile,   \* users.json: [cut, users]
    permFile,   \* permissions.json: [cut, perms]
    at,         \* at[c]: where the handler of client c is
    fresh,      \* the secrets and tokens made so far
    demoted,    \* history: an edit took the role from the last administrator
    requests, faults, restarts

vars == <<users, perms, userFile, permFile, at, fresh, demoted, requests, faults, restarts>>

Outcomes == {"ok", "open", "cut"}
NoUser == [name |-> None, role |-> None, enabled |-> FALSE, mfa |-> FALSE, secret |-> 0,
           token |-> 0, feishu |-> None]
NewUser(n, role, on) ==
    [NoUser EXCEPT !.name = n, !.role = role, !.enabled = on]

(* What clients ask for: creating gives both role and enabled, editing any  *)
(* of them, "mfa" turns the second factor on or off.                        *)
Requests ==
    LET Asked(ops, roles, ons, kinds) ==
          [op: ops \cap Ops, name: Names, role: roles, on: ons, kind: kinds]
    IN  Asked({"create"}, Roles, BOOLEAN, {None})
        \cup Asked({"update"}, Roles \cup {None}, BOOLEAN \cup {None}, {None})
        \cup Asked({"mfa"}, {None}, BOOLEAN, {None})
        \cup Asked({"grant", "revoke"}, {None}, {None}, Kinds)
        \cup Asked({"delete", "setup", "enable", "disable", "reset", "token", "untoken"},
                   {None}, {None}, {None})
Idle == [pc |-> "idle", req |-> None, seen |-> NoUser]

(* The first record with name n, as GetUser and the writers find it. *)
Holds(us, n) == {i \in 1..Len(us) : us[i].name = n}
First(I) == CHOOSE i \in I : \A j \in I : i <= j
Lookup(us, n) == IF Holds(us, n) = {} THEN NoUser ELSE us[First(Holds(us, n))]
HasAdmin(us) == \E n \in Names : Lookup(us, n).role = "admin"
Without(us, i) == SubSeq(us, 1, i - 1) \o SubSeq(us, i + 1, Len(us))

Failures(w) == IF w = "ok" THEN 0 ELSE 1

(* saveUsers and savePermissions with outcome w. *)
SavedUsers(us, w) ==
    CASE w = "ok" -> [cut |-> FALSE, users |-> us] [] w = "open" -> userFile
      [] w = "cut" -> [cut |-> TRUE, users |-> <<>>]
SavedPerms(ps, w) ==
    CASE w = "ok" -> [cut |-> FALSE, perms |-> ps] [] w = "open" -> permFile
      [] w = "cut" -> [cut |-> TRUE, perms |-> {}]

WriteUsers(us, w) ==
    /\ faults + Failures(w) <= MaxFaults
    /\ faults' = faults + Failures(w)
    /\ users' = us
    /\ userFile' = SavedUsers(us, w)

WritePerms(ps, w) ==
    /\ faults + Failures(w) <= MaxFaults
    /\ faults' = faults + Failures(w)
    /\ perms' = ps
    /\ permFile' = SavedPerms(ps, w)

-----------------------------------------------------------------------------
(* requireAdmin, or the caller's own request: the request is let through.  *)
(* An administrator does not delete himself.                               *)
SelfOps == {"setup", "enable", "disable"}

Allowed(r) ==
    \/ r.op \in SelfOps
    \/ \E caller \in Names : /\ Lookup(users, caller).role = "admin"
                             /\ (r.op = "delete") => (caller # r.name)

Admit(c) == \E r \in Requests :
    /\ at[c] = Idle /\ requests < MaxRequests
    /\ Allowed(r)
    /\ at' = [at EXCEPT ![c] = [pc |-> "admitted", req |-> r, seen |-> NoUser]]
    /\ requests' = requests + 1
    /\ UNCHANGED <<users, perms, userFile, permFile, fresh, demoted, faults, restarts>>

Answer(c) == at' = [at EXCEPT ![c] = Idle]

(* The handlers that read the user before they write it, and what they ask *)
(* of the record.                                                          *)
ReadFirst == {"update", "setup", "enable", "disable", "reset", "mfa"}
Proceeds(r, u) ==
    /\ u # NoUser
    /\ (r.op = "setup") => ~u.mfa
    /\ (r.op = "enable" \/ (r.op = "mfa" /\ r.on = TRUE)) => (u.secret # 0)
    /\ (r.op = "disable") => u.mfa

Read(c) ==
    /\ at[c].pc = "admitted" /\ at[c].req.op \in ReadFirst
    /\ LET u == Lookup(users, at[c].req.name)
       IN  IF Proceeds(at[c].req, u)
           THEN at' = [at EXCEPT ![c].pc = "read", ![c].seen = u]
           ELSE Answer(c)
    /\ UNCHANGED <<users, perms, userFile, permFile, fresh, demoted, requests, faults, restarts>>

(* UpdateUser: the record u becomes what the handler built from the request *)
(* and from the record it has seen; the second factor, the token and the    *)
(* Feishu identity stay.                                                    *)
(* MUTANT of Edited: the second factor is copied from the record seen. *)
EditedWithSeenMFA(u, r, seen) ==
    [u EXCEPT !.role = IF r.role = None THEN seen.role ELSE r.role,
              !.enabled = IF r.on = None THEN seen.enabled ELSE r.on,
              !.mfa = seen.mfa, !.secret = seen.secret]
(* MUTANT of Edited: a user is enabled unless the request says otherwise. *)
EditedEnabled(u, r, seen) ==
    [u EXCEPT !.role = IF r.role = None THEN seen.role ELSE r.role,
              !.enabled = IF r.on = None THEN TRUE ELSE r.on]
(* MUTANT of Edited: a role that the request leaves out is written as it is. *)
EditedAsAsked(u, r, seen) ==
    [u EXCEPT !.role = r.role, !.enabled = IF r.on = None THEN seen.enabled ELSE r.on]
Edited(u, r, seen) ==
    [u EXCEPT !.role = IF r.role = None THEN seen.role ELSE r.role,
              !.enabled = IF r.on = None THEN seen.enabled ELSE r.on]

(* SetUserMFA replaces both fields by what the handler built. *)
(* MUTANT of Factor: enabling sets the flag and leaves the stored secret. *)
FactorFlagOnly(u, r, seen) ==
    CASE r.op = "setup"              -> [u EXCEPT !.mfa = FALSE, !.secret = fresh + 1]
      [] r.op = "enable"             -> [u EXCEPT !.mfa = TRUE]
      [] r.op \in {"disable", "reset"} -> [u EXCEPT !.mfa = FALSE, !.secret = 0]
      [] r.op = "mfa"                -> [u EXCEPT !.mfa = r.on, !.secret = seen.secret]
Factor(u, r, seen) ==
    CASE r.op = "setup"              -> [u EXCEPT !.mfa = FALSE, !.secret = fresh + 1]
      [] r.op = "enable"             -> [u EXCEPT !.mfa = TRUE, !.secret = seen.secret]
      [] r.op \in {"disable", "reset"} -> [u EXCEPT !.mfa = FALSE, !.secret = 0]
      [] r.op = "mfa"                -> [u EXCEPT !.mfa = r.on, !.secret = seen.secret]

(* The record after a request that changes one record. *)
Changed(u, r, seen) ==
    CASE r.op = "update"  -> Edited(u, r, seen)
      [] r.op = "token"   -> [u EXCEPT !.token = fresh + 1]
      [] r.op = "untoken" -> [u EXCEPT !.token = 0]
      [] OTHER            -> Factor(u, r, seen)

(* UpdateUser, SetUserMFA, GenerateAPIToken, DeleteAPIToken. *)
ChangeUser(c, w) ==
    LET r  == at[c].req
        I  == Holds(users, r.name)
        us == [users EXCEPT ![First(I)] = Changed(@, r, at[c].seen)]
    IN  /\ \/ at[c].pc = "read"
           \/ at[c].pc = "admitted" /\ r.op \in {"token", "untoken"}
        /\ Answer(c)
        /\ IF I = {}
           THEN w = "ok" /\ UNCHANGED <<users, userFile, fresh, demoted, faults>>
           ELSE /\ WriteUsers(us, w)
                /\ fresh' = IF r.op \in {"setup", "token"} THEN fresh + 1 ELSE fresh
                /\ demoted' = (demoted \/ (HasAdmin(users) /\ ~HasAdmin(us)))
        /\ UNCHANGED <<perms, permFile, requests, restarts>>

CreateUser(c, w) ==
    LET r == at[c].req
    IN  /\ at[c].pc = "admitted" /\ r.op = "create"
        /\ Answer(c)
        /\ IF Holds(users, r.name) # {}
           THEN w = "ok" /\ UNCHANGED <<users, userFile, faults>>
           ELSE WriteUsers(Append(users, NewUser(r.name, r.role, r.on)), w)
        /\ UNCHANGED <<perms, permFile, fresh, demoted, requests, restarts>>

(* DeleteUser: the last administrator stays; both errors are dropped. *)
(* MUTANT of MayDelete: any user keeps the administrator company. *)
MayDeleteIfOthers(us, i) == us[i].role = "admin" => Len(us) > 1
MayDelete(us, i) ==
    us[i].role = "admin" => Cardinality({j \in 1..Len(us) : us[j].role = "admin"}) > 1

DeleteUser(c, w1, w2) ==
    LET n == at[c].req.name
        I == Holds(users, n)
    IN  /\ at[c].pc = "admitted" /\ at[c].req.op = "delete"
        /\ Answer(c)
        /\ IF I = {} \/ ~MayDelete(users, First(I))
           THEN w1 = "ok" /\ w2 = "ok" /\ UNCHANGED <<users, userFile, perms, permFile, faults>>
           ELSE LET ps == {e \in perms : e[1] # n}
                IN  /\ users' = Without(users, First(I)) /\ perms' = ps
                    /\ userFile' = SavedUsers(Without(users, First(I)), w1)
                    /\ permFile' = SavedPerms(ps, w2)
                    /\ faults + Failures(w1) + Failures(w2) <= MaxFaults
                    /\ faults' = faults + Failures(w1) + Failures(w2)
        /\ UNCHANGED <<fresh, demoted, requests, restarts>>

(* Set and RemoveTaskPermission, Set and RemoveProjectPermission.  A user   *)
(* without entries may have an empty list of them: removing one is then     *)
(* saved as well.                                                           *)
(* MUTANT of Known: a permission may be given to anyone. *)
KnownOrNot(n) == TRUE
Known(n) == Holds(users, n) # {}

Permit(c, w) ==
    LET r == at[c].req
        e == <<r.name, r.kind>>
    IN  /\ at[c].pc = "admitted" /\ r.op \in {"grant", "revoke"}
        /\ Answer(c)
        /\ \/ r.op = "grant" /\ Known(r.name) /\ WritePerms(perms \cup {e}, w)
           \/ r.op = "revoke" /\ WritePerms(perms \ {e}, w)
           \/ /\ r.op = "grant" => ~Known(r.name)
              /\ r.op = "revoke" => \A k \in Kinds : <<r.name, k>> \notin perms
              /\ w = "ok" /\ UNCHANGED <<perms, permFile, faults>>
        /\ UNCHANGED <<users, userFile, fresh, demoted, requests, restarts>>

(* UpsertFeishuUser: the first record that has the e-mail for its name or   *)
(* the Feishu identity is bound, else a user without permissions is added.  *)
FeishuLogin(a, w) ==
    LET I == {i \in 1..Len(users) : users[i].name = a.email \/ users[i].feishu = a.id}
        n == IF a.email # None THEN a.email ELSE a.name
    IN  /\ requests < MaxRequests /\ requests' = requests + 1
        /\ WriteUsers(IF I # {} THEN [users EXCEPT ![First(I)].feishu = a.id]
                      ELSE Append(users, [NewUser(n, "user", TRUE) EXCEPT !.feishu = a.id]), w)
        /\ UNCHANGED <<perms, permFile, at, fresh, demoted, restarts>>

-----------------------------------------------------------------------------
(* load: without an administrator in the file, "admin" is added, beside a  *)
(* user of that name if there is one.                                      *)
Loaded(us) ==
    IF \E i \in 1..Len(us) : us[i].role = "admin" THEN us
    ELSE Append(us, NewUser(Admin, "admin", TRUE))

(* What the end of the process leaves: it may come while a request or a    *)
(* login with Feishu writes a file.                                        *)
Busy == \E c \in Clients : at[c] # Idle
LeftUsers ==
    {userFile} \cup IF Busy \/ FeishuAccounts # {} THEN {[cut |-> TRUE, users |-> <<>>]} ELSE {}
LeftPerms == {permFile} \cup IF Busy THEN {[cut |-> TRUE, perms |-> {}]} ELSE {}

Restart == \E uf \in LeftUsers, pf \in LeftPerms, w \in Outcomes :
    LET damaged == uf # userFile \/ pf # permFile
        harm == Failures(w) + (IF damaged THEN 1 ELSE 0)
    IN  /\ restarts < MaxRestarts /\ restarts' = restarts + 1
        /\ faults + harm <= MaxFaults /\ faults' = faults + harm
        /\ (Loaded(uf.users) = uf.users) => (w = "ok")
        /\ users' = Loaded(uf.users)
        /\ userFile' = IF users' = uf.users THEN uf
                       ELSE CASE w = "ok" -> [cut |-> FALSE, users |-> users'] [] w = "open" -> uf
                              [] w = "cut" -> [cut |-> TRUE, users |-> <<>>]
        /\ perms' = pf.perms /\ permFile' = pf
        /\ at' = [c \in Clients |-> Idle]
        /\ demoted' = (demoted /\ ~HasAdmin(users'))
        /\ UNCHANGED <<fresh, requests>>

Init == \E s \in Stored :
    /\ users = Loaded(s.users) /\ perms = s.perms
    /\ userFile = [cut |-> FALSE, users |-> users]
    /\ permFile = [cut |-> FALSE, perms |-> perms]
    /\ at = [c \in Clients |-> Idle]
    /\ fresh = 0 /\ demoted = FALSE
    /\ requests = 0 /\ faults = 0 /\ restarts = 0

Handle(c) ==
    \/ Admit(c)
    \/ Read(c)
    \/ \E w \in Outcomes : ChangeUser(c, w) \/ CreateUser(c, w) \/ Permit(c, w)
    \/ \E w1, w2 \in Outcomes : DeleteUser(c, w1, w2)

Next ==
    \/ \E c \in Clients : Handle(c)
    \/ \E a \in FeishuAccounts, w \in Outcomes : FeishuLogin(a, w)
    \/ Restart

Spec == Init /\ [][Next]_vars

-----------------------------------------------------------------------------
(* The types of the variables. *)
TypeOK ==
    /\ users \in Seq(User) /\ perms \in Permissions
    /\ userFile \in [cut: BOOLEAN, users: Seq(User)]
    /\ permFile \in [cut: BOOLEAN, perms: Permissions]
    /\ at \in [Clients -> [pc: {"idle", "admitted", "read"}, req: Requests \cup {None},
                           seen: User \cup {NoUser}]]
    /\ \A c \in Clients : at[c].pc # "idle" => at[c].req \in Requests
    /\ fresh \in Nat /\ demoted \in BOOLEAN
    /\ requests \in 0..MaxRequests /\ faults \in 0..MaxFaults /\ restarts \in 0..MaxRestarts

(* There is always an administrator whom requireAdmin lets through, also    *)
(* when administrators delete each other at the same time, when files are   *)
(* lost, and after a restart - unless an edit took the role from the last   *)
(* one, which UpdateUser does not refuse.                                   *)
AdminRemains == HasAdmin(users) \/ demoted

(* A user whose second factor is on has the secret to log in with, however  *)
(* enabling, disabling and an administrator's reset overlap.                *)
EnabledHasSecret == \A i \in 1..Len(users) : users[i].mfa => users[i].secret # 0

(* No permission outlives its user, so that a user who gets the name later  *)
(* starts without any - as long as no write fails (DeleteUser drops the     *)
(* errors of its two).                                                      *)
PermissionsHaveOwner == faults = 0 => \A e \in perms : Holds(users, e[1]) # {}

(* Client c answers a request about user n in this step. *)
Answers(c, n) == at[c] # Idle /\ at'[c] = Idle /\ at[c].req.name = n
Overtaken(c, n) == at[c].pc = "read" /\ at[c].seen # Lookup(users, n)
SameUsers == restarts' = restarts /\ Len(users') = Len(users)

(* A user becomes an administrator, or is enabled again, only because a     *)
(* request asks for it, or because the record was changed between the two   *)
(* calls of an edit that writes back what it has seen.                      *)
RightsAreAskedFor ==
    [][SameUsers => \A n \in Names :
         LET old == Lookup(users, n)  new == Lookup(users', n)
         IN  /\ new.role = "admin" /\ old.role # "admin" =>
                  \E c \in Clients : Answers(c, n) /\ (at[c].req.role = "admin" \/ Overtaken(c, n))
             /\ new.enabled /\ ~old.enabled =>
                  \E c \in Clients : Answers(c, n) /\ (at[c].req.on = TRUE \/ Overtaken(c, n))]_vars

(* A second factor that is on stays as it is until its owner disables it or *)
(* an administrator resets it or turns it off, or until a request about it  *)
(* that had read the record before; edits of the user never touch it.       *)
SecondFactorStays ==
    [][SameUsers => \A n \in Names :
         LET old == Lookup(users, n)  new == Lookup(users', n)
         IN  old.mfa /\ ~(new.mfa /\ new.secret = old.secret) =>
               \E c \in Clients : Answers(c, n) /\
                 \/ at[c].req.op \in {"disable", "reset"}
                 \/ at[c].req.op = "mfa" /\ at[c].req.on = FALSE
                 \/ at[c].req.op \in {"setup", "enable", "mfa"} /\ Overtaken(c, n)]_vars
=============================================================================
