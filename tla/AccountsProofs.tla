--------------------------- MODULE AccountsProofs ---------------------------
(* Proofs about Accounts for every value of its constants: any number of     *)
(* users, clients, Feishu accounts, requests, failing writes and restarts.   *)
EXTENDS Accounts, FiniteSetTheorems, WellFoundedInduction, SequenceTheorems, TLAPS

-----------------------------------------------------------------------------
(* Records by name: the first one with a name counts.                         *)

LEMMA LeastIndex ==
  ASSUME NEW I, I \subseteq Nat, I # {}
  PROVE  First(I) \in I /\ \A j \in I : First(I) <= j
<1>1. PICK i \in I : \A j \in I : <<j, i>> \notin OpToRel(<, Nat)
  BY WFMin, NatLessThanWellFounded, Zenon
<1>2. ASSUME NEW j \in I, j < i PROVE FALSE
  <2>1. <<j, i>> \in Nat \X Nat
    OBVIOUS
  <2>2. <<j, i>> \in OpToRel(<, Nat)
    BY <1>2, <2>1, Zenon DEF OpToRel
  <2>3. QED
    BY <1>1, <2>2
<1>3. \A j \in I : i <= j
  BY <1>2
<1>4. QED
  BY <1>3 DEF First

LEMMA HoldsIndices ==
  ASSUME NEW S, NEW us \in Seq(S), NEW n
  PROVE  /\ Holds(us, n) \subseteq 1..Len(us) /\ Holds(us, n) \subseteq Nat
         /\ Len(us) \in Nat
BY DEF Holds

\* The first record with name n, if there is one.
LEMMA FirstHolds ==
  ASSUME NEW S, NEW us \in Seq(S), NEW n, Holds(us, n) # {}
  PROVE  /\ First(Holds(us, n)) \in 1..Len(us)
         /\ us[First(Holds(us, n))].name = n
         /\ \A j \in 1..Len(us) : us[j].name = n => First(Holds(us, n)) <= j
<1>1. First(Holds(us, n)) \in Holds(us, n) /\ \A j \in Holds(us, n) : First(Holds(us, n)) <= j
  BY HoldsIndices, LeastIndex
<1>2. QED
  BY <1>1 DEF Holds

\* A record that no earlier one hides is the first one with its name.
LEMMA FirstIs ==
  ASSUME NEW S, NEW us \in Seq(S), NEW i \in 1..Len(us),
         \A j \in 1..Len(us) : us[j].name = us[i].name => i <= j
  PROVE  Holds(us, us[i].name) # {} /\ First(Holds(us, us[i].name)) = i
<1>1. Holds(us, us[i].name) # {}
  BY DEF Holds
<1>2. QED
  BY <1>1, FirstHolds

LEMMA FirstUser ==
  ASSUME NEW us \in Seq(User), NEW n, Holds(us, n) # {}
  PROVE  /\ First(Holds(us, n)) \in 1..Len(us)
         /\ us[First(Holds(us, n))] \in User
         /\ us[First(Holds(us, n))].name = n
         /\ Lookup(us, n) = us[First(Holds(us, n))]
<1> HIDE DEF User
<1>1. First(Holds(us, n)) \in 1..Len(us) /\ us[First(Holds(us, n))].name = n
  BY FirstHolds
<1>2. QED
  BY <1>1 DEF Lookup

LEMMA WithoutElements ==
  ASSUME NEW S, NEW us \in Seq(S), NEW i \in 1..Len(us)
  PROVE  /\ Without(us, i) \in Seq(S)
         /\ Len(Without(us, i)) = Len(us) - 1
         /\ \A j \in 1..Len(us) - 1 : Without(us, i)[j] = IF j < i THEN us[j] ELSE us[j + 1]
<1> DEFINE a == SubSeq(us, 1, i - 1)
           b == SubSeq(us, i + 1, Len(us))
<1>0. /\ 1 \in 1..Len(us) + 1 /\ i - 1 \in 1 - 1..Len(us)
      /\ i + 1 \in 1..Len(us) + 1 /\ Len(us) \in i + 1 - 1..Len(us)
  OBVIOUS
<1>1. a \in Seq(S) /\ Len(a) = i - 1 /\ \A j \in 1..i - 1 : a[j] = us[j]
  BY <1>0, SubSeqProperties
<1>2. b \in Seq(S) /\ Len(b) = Len(us) - i /\ \A j \in 1..Len(us) - i : b[j] = us[j + i]
  BY <1>0, SubSeqProperties
<1> HIDE DEF a, b
<1>3. /\ a \o b \in Seq(S) /\ Len(a \o b) = Len(a) + Len(b)
      /\ \A j \in 1..Len(a) + Len(b) : (a \o b)[j] = IF j <= Len(a) THEN a[j] ELSE b[j - Len(a)]
  BY <1>1, <1>2, ConcatProperties, Zenon
<1>4. \A j \in 1..Len(us) - 1 : (a \o b)[j] = IF j < i THEN us[j] ELSE us[j + 1]
  <2> SUFFICES ASSUME NEW j \in 1..Len(us) - 1
               PROVE  (a \o b)[j] = IF j < i THEN us[j] ELSE us[j + 1]
    OBVIOUS
  <2>1. j \in 1..Len(a) + Len(b)
    BY <1>1, <1>2
  <2>2. (a \o b)[j] = IF j <= Len(a) THEN a[j] ELSE b[j - Len(a)]
    BY <1>3, <2>1
  <2>3. CASE j < i
    <3>1. j <= Len(a) /\ j \in 1..i - 1
      BY <1>1, <2>3
    <3>2. QED
      BY <1>1, <2>2, <2>3, <3>1
  <2>4. CASE ~(j < i)
    <3>1. ~(j <= Len(a)) /\ j - Len(a) \in 1..Len(us) - i /\ j - Len(a) + i = j + 1
      BY <1>1, <2>4
    <3>2. b[j - Len(a)] = us[j + 1]
      BY <1>2, <3>1
    <3>3. QED
      BY <2>2, <2>4, <3>1, <3>2
  <2>5. QED
    BY <2>3, <2>4
<1>5. Without(us, i) = a \o b
  BY DEF Without, a, b
<1>6. Len(a) + Len(b) = Len(us) - 1
  BY <1>1, <1>2
<1>7. QED
  BY <1>3, <1>4, <1>5, <1>6

-----------------------------------------------------------------------------
(* What requests are, and what they make of a record.                         *)

LEMMA NoneIsNothing ==
  /\ None \notin Names /\ None \notin Roles /\ None \notin BOOLEAN
  /\ \A a \in FeishuAccounts : a.id # None
BY AccountsAssumption DEF Roles

LEMMA NoUserIsNobody == NoUser \notin User /\ NoUser.mfa = FALSE
BY NoneIsNothing DEF NoUser, User

LEMMA RequestFields ==
  ASSUME NEW r \in Requests
  PROVE  /\ r.name \in Names
         /\ r.op \in {"create", "update", "mfa", "grant", "revoke", "delete", "setup", "enable",
                      "disable", "reset", "token", "untoken"}
         /\ r.op = "create" => r.role \in Roles /\ r.on \in BOOLEAN
         /\ r.op = "update" => r.role \in Roles \cup {None} /\ r.on \in BOOLEAN \cup {None}
         /\ r.op = "mfa" => r.on \in BOOLEAN
         /\ r.op \in {"grant", "revoke"} => r.kind \in Kinds
         /\ r.op \notin {"create", "update"} => r.role = None
         /\ r.op \notin {"create", "update", "mfa"} => r.on = None
BY DEF Requests

LEMMA NewUserType ==
  ASSUME NEW n \in Names, NEW role \in Roles, NEW on \in BOOLEAN
  PROVE  /\ NewUser(n, role, on) \in User
         /\ NewUser(n, role, on).name = n /\ NewUser(n, role, on).role = role
         /\ NewUser(n, role, on).mfa = FALSE
BY DEF NewUser, NoUser, User

\* A request that changes a record may: it is one of these, and one that has read the
\* record has found what it asks for.
Grounded(r, seen) ==
  /\ r.op \in ReadFirst \cup {"token", "untoken"}
  /\ r.op \in ReadFirst => seen \in User /\ Proceeds(r, seen)

LEMMA EditedUser ==
  ASSUME NEW u \in User, NEW r \in Requests, NEW seen \in User, r.op = "update"
  PROVE  /\ Edited(u, r, seen) \in User
         /\ Edited(u, r, seen).name = u.name
         /\ Edited(u, r, seen).mfa = u.mfa /\ Edited(u, r, seen).secret = u.secret
<1>1. r.role = None \/ r.role \in Roles
  BY RequestFields
<1>2. r.on = None \/ r.on \in BOOLEAN
  BY RequestFields
<1> DEFINE role == IF r.role = None THEN seen.role ELSE r.role
           on == IF r.on = None THEN seen.enabled ELSE r.on
<1>3. role \in Roles
  BY <1>1 DEF User
<1>4. on \in BOOLEAN
  <2>1. seen.enabled \in BOOLEAN
    BY DEF User
  <2>2. QED
    BY <1>2, <2>1
<1> HIDE DEF role, on
<1>5. [u EXCEPT !.role = role, !.enabled = on] \in User
  BY <1>3, <1>4 DEF User
<1>6. /\ [u EXCEPT !.role = role, !.enabled = on].name = u.name
      /\ [u EXCEPT !.role = role, !.enabled = on].mfa = u.mfa
      /\ [u EXCEPT !.role = role, !.enabled = on].secret = u.secret
  BY DEF User
<1>7. Edited(u, r, seen) = [u EXCEPT !.role = role, !.enabled = on]
  BY DEF Edited, role, on
<1>8. QED
  BY <1>5, <1>6, <1>7

\* A second factor that Factor leaves on has a secret.
LEMMA FactorUser ==
  ASSUME NEW u \in User, NEW r \in Requests, NEW seen, fresh \in Nat,
         Grounded(r, seen), r.op \notin {"update", "token", "untoken"}
  PROVE  /\ Factor(u, r, seen) \in User
         /\ Factor(u, r, seen).name = u.name /\ Factor(u, r, seen).role = u.role
         /\ Factor(u, r, seen).enabled = u.enabled
         /\ Factor(u, r, seen).mfa => Factor(u, r, seen).secret # 0
<1>1. seen \in User /\ Proceeds(r, seen) /\ r.op \in {"setup", "enable", "disable", "reset", "mfa"}
  BY DEF Grounded, ReadFirst
<1>2. seen.secret \in Nat /\ fresh + 1 \in Nat
  BY <1>1 DEF User
<1>3. CASE r.op = "setup"
  <2>1. Factor(u, r, seen) = [u EXCEPT !.mfa = FALSE, !.secret = fresh + 1]
    BY <1>3 DEF Factor
  <2>2. QED
    BY <1>2, <2>1 DEF User
<1>4. CASE r.op = "enable"
  <2>1. Factor(u, r, seen) = [u EXCEPT !.mfa = TRUE, !.secret = seen.secret]
    BY <1>4 DEF Factor
  <2>2. seen.secret # 0
    BY <1>1, <1>4 DEF Proceeds
  <2>3. QED
    BY <1>2, <2>1, <2>2 DEF User
<1>5. CASE r.op \in {"disable", "reset"}
  <2>1. Factor(u, r, seen) = [u EXCEPT !.mfa = FALSE, !.secret = 0]
    BY <1>5 DEF Factor
  <2>2. [u EXCEPT !.mfa = FALSE, !.secret = 0] \in User
    BY DEF User
  <2>3. /\ [u EXCEPT !.mfa = FALSE, !.secret = 0].name = u.name
        /\ [u EXCEPT !.mfa = FALSE, !.secret = 0].role = u.role
        /\ [u EXCEPT !.mfa = FALSE, !.secret = 0].enabled = u.enabled
        /\ [u EXCEPT !.mfa = FALSE, !.secret = 0].mfa = FALSE
    BY DEF User
  <2>4. QED
    BY <2>1, <2>2, <2>3
<1>6. CASE r.op = "mfa"
  <2>1. Factor(u, r, seen) = [u EXCEPT !.mfa = r.on, !.secret = seen.secret]
    BY <1>6 DEF Factor
  <2>2. r.on \in BOOLEAN
    BY <1>6, RequestFields
  <2>3. r.on = TRUE => seen.secret # 0
    BY <1>1, <1>6 DEF Proceeds
  <2>4. [u EXCEPT !.mfa = r.on, !.secret = seen.secret] \in User
    BY <1>2, <2>2 DEF User
  <2>5. /\ [u EXCEPT !.mfa = r.on, !.secret = seen.secret].name = u.name
        /\ [u EXCEPT !.mfa = r.on, !.secret = seen.secret].role = u.role
        /\ [u EXCEPT !.mfa = r.on, !.secret = seen.secret].enabled = u.enabled
        /\ [u EXCEPT !.mfa = r.on, !.secret = seen.secret].mfa = r.on
        /\ [u EXCEPT !.mfa = r.on, !.secret = seen.secret].secret = seen.secret
    BY DEF User
  <2>6. QED
    BY <2>1, <2>2, <2>3, <2>4, <2>5
<1>7. QED
  BY <1>1, <1>3, <1>4, <1>5, <1>6

\* A change keeps the name, and only an edit changes the role or whether the user may log in;
\* it leaves no second factor on without a secret.
LEMMA ChangedUser ==
  ASSUME NEW u \in User, NEW r \in Requests, NEW seen, fresh \in Nat, Grounded(r, seen)
  PROVE  /\ Changed(u, r, seen) \in User
         /\ Changed(u, r, seen).name = u.name
         /\ r.op # "update" => /\ Changed(u, r, seen).role = u.role
                               /\ Changed(u, r, seen).enabled = u.enabled
         /\ (u.mfa => u.secret # 0) => (Changed(u, r, seen).mfa => Changed(u, r, seen).secret # 0)
<1>1. CASE r.op = "update"
  <2>1. Changed(u, r, seen) = Edited(u, r, seen)
    BY <1>1 DEF Changed
  <2>2. seen \in User
    BY <1>1 DEF Grounded, ReadFirst
  <2>3. QED
    BY <1>1, <2>1, <2>2, EditedUser
<1>2. CASE r.op = "token"
  <2>1. Changed(u, r, seen) = [u EXCEPT !.token = fresh + 1]
    BY <1>2 DEF Changed
  <2>2. QED
    BY <1>2, <2>1 DEF User
<1>3. CASE r.op = "untoken"
  <2>1. Changed(u, r, seen) = [u EXCEPT !.token = 0]
    BY <1>3 DEF Changed
  <2>2. QED
    BY <1>3, <2>1 DEF User
<1>4. CASE r.op \notin {"update", "token", "untoken"}
  <2>1. Changed(u, r, seen) = Factor(u, r, seen)
    BY <1>4 DEF Changed
  <2>2. QED
    BY <1>4, <2>1, FactorUser
<1>5. QED
  BY <1>1, <1>2, <1>3, <1>4

\* What the writers make of the list of users: one record changes, one is added at the end,
\* one is taken out.
LEMMA ChangedUsers ==
  ASSUME NEW us \in Seq(User), NEW i \in 1..Len(us), NEW u \in User
  PROVE  /\ [us EXCEPT ![i] = u] \in Seq(User) /\ Len([us EXCEPT ![i] = u]) = Len(us)
         /\ \A j \in 1..Len(us) : [us EXCEPT ![i] = u][j] = IF j = i THEN u ELSE us[j]
<1> HIDE DEF User
<1>1. QED
  BY ExceptSeq

LEMMA AddedUser ==
  ASSUME NEW us \in Seq(User), NEW u \in User
  PROVE  /\ Append(us, u) \in Seq(User) /\ Len(Append(us, u)) = Len(us) + 1
         /\ \A j \in 1..Len(us) : Append(us, u)[j] = us[j]
         /\ Append(us, u)[Len(us) + 1] = u
<1> HIDE DEF User
<1>1. QED
  BY AppendProperties

LEMMA LookupType ==
  ASSUME NEW us \in Seq(User), NEW n
  PROVE  /\ Lookup(us, n) \in User \cup {NoUser}
         /\ Lookup(us, n) # NoUser => Holds(us, n) # {} /\ Lookup(us, n).name = n
<1>1. CASE Holds(us, n) = {}
  BY <1>1 DEF Lookup
<1>2. CASE Holds(us, n) # {}
  BY <1>2, FirstUser
<1>3. QED
  BY <1>1, <1>2

LEMMA LoadedType ==
  ASSUME NEW us \in Seq(User)
  PROVE  Loaded(us) \in Seq(User)
<1>1. NewUser(Admin, "admin", TRUE) \in User
  BY NewUserType, AccountsAssumption DEF Roles
<1>2. QED
  BY <1>1, AddedUser DEF Loaded

-----------------------------------------------------------------------------
(* Types.                                                                     *)

Local == [pc: {"idle", "admitted", "read"}, req: Requests \cup {None},
          seen: User \cup {NoUser}]

\* A handler is idle, or at work on a request that can be made; one that has read its user
\* has found what it needs.
HandlersOK ==
  /\ at \in [Clients -> Local]
  /\ \A c \in Clients :
       \/ at[c] = Idle
       \/ at[c].pc = "admitted" /\ at[c].req \in Requests
       \/ at[c].pc = "read" /\ at[c].req \in Requests /\ Grounded(at[c].req, at[c].seen)

UsersOK == users \in Seq(User) /\ userFile \in [cut: BOOLEAN, users: Seq(User)]

PermsOK == perms \in Permissions /\ permFile \in [cut: BOOLEAN, perms: Permissions]

CountersOK ==
  /\ fresh \in Nat /\ demoted \in BOOLEAN
  /\ requests \in 0..MaxRequests /\ faults \in 0..MaxFaults /\ restarts \in 0..MaxRestarts

TypeInv == HandlersOK /\ UsersOK /\ PermsOK /\ CountersOK

LEMMA IdleType ==
  /\ Idle \in Local /\ Idle.pc = "idle" /\ Idle.req = None
  /\ \A c \in Clients : at[c].pc \in {"admitted", "read"} => at[c] # Idle
BY DEF Idle, Local

LEMMA TypeInvTypeOK == TypeInv => TypeOK
<1> SUFFICES ASSUME TypeInv PROVE TypeOK
  OBVIOUS
<1>1. \A c \in Clients : at[c].pc # "idle" => at[c].req \in Requests
  BY IdleType DEF TypeInv, HandlersOK
<1>2. QED
  BY <1>1 DEF TypeInv, HandlersOK, UsersOK, PermsOK, CountersOK, TypeOK, Local

LEMMA AnswerType ==
  ASSUME HandlersOK, NEW c \in Clients, Answer(c)
  PROVE  HandlersOK'
<1>1. at' = [at EXCEPT ![c] = Idle]
  BY DEF Answer
<1>2. at' \in [Clients -> Local] /\ \A d \in Clients : at'[d] = IF d = c THEN Idle ELSE at[d]
  BY <1>1, IdleType DEF HandlersOK
<1>3. QED
  BY <1>2 DEF HandlersOK

\* A write leaves the list and the file with the new list, the old one, or nothing.
LEMMA SavedUsersCases ==
  ASSUME UsersOK, NEW us \in Seq(User), NEW w \in Outcomes
  PROVE  /\ SavedUsers(us, w) \in [cut: BOOLEAN, users: Seq(User)]
         /\ SavedUsers(us, w).users \in {us, userFile.users, <<>>}
         /\ w = "ok" => SavedUsers(us, w).users = us
<1> HIDE DEF User
<1>1. <<>> \in Seq(User)
  OBVIOUS
<1>2. w = "ok" \/ w = "open" \/ w = "cut"
  BY DEF Outcomes
<1>3. QED
  BY <1>1, <1>2 DEF SavedUsers, UsersOK

LEMMA SavedPermsCases ==
  ASSUME PermsOK, NEW ps \in Permissions, NEW w \in Outcomes
  PROVE  /\ SavedPerms(ps, w) \in [cut: BOOLEAN, perms: Permissions]
         /\ w = "ok" => SavedPerms(ps, w).perms = ps
<1>1. {} \in Permissions
  BY DEF Permissions
<1> HIDE DEF Permissions
<1>2. w = "ok" \/ w = "open" \/ w = "cut"
  BY DEF Outcomes
<1>3. QED
  BY <1>1, <1>2 DEF SavedPerms, PermsOK

LEMMA FailureCounts ==
  ASSUME NEW w \in Outcomes
  PROVE  Failures(w) \in {0, 1} /\ (Failures(w) = 0 => w = "ok")
BY DEF Failures, Outcomes

LEMMA WriteUsersType ==
  ASSUME UsersOK, CountersOK, NEW us \in Seq(User), NEW w \in Outcomes, WriteUsers(us, w)
  PROVE  UsersOK' /\ faults' \in 0..MaxFaults
<1> HIDE DEF User
<1>1. UsersOK'
  BY SavedUsersCases DEF WriteUsers, UsersOK
<1>2. faults' \in 0..MaxFaults
  BY FailureCounts, AccountsAssumption DEF WriteUsers, CountersOK
<1>3. QED
  BY <1>1, <1>2

LEMMA WritePermsType ==
  ASSUME PermsOK, CountersOK, NEW ps \in Permissions, NEW w \in Outcomes, WritePerms(ps, w)
  PROVE  PermsOK' /\ faults' \in 0..MaxFaults
<1>1. PermsOK'
  BY SavedPermsCases DEF WritePerms, PermsOK
<1>2. faults' \in 0..MaxFaults
  BY FailureCounts, AccountsAssumption DEF WritePerms, CountersOK
<1>3. QED
  BY <1>1, <1>2

LEMMA TypeInvInit == Init => TypeInv
<1> SUFFICES ASSUME Init PROVE TypeInv
  OBVIOUS
<1>1. PICK s \in Stored :
        /\ users = Loaded(s.users) /\ perms = s.perms
        /\ userFile = [cut |-> FALSE, users |-> users]
        /\ permFile = [cut |-> FALSE, perms |-> perms]
        /\ at = [c \in Clients |-> Idle]
        /\ fresh = 0 /\ demoted = FALSE
        /\ requests = 0 /\ faults = 0 /\ restarts = 0
  BY Zenon DEF Init
<1>2. s.users \in Seq(User) /\ s.perms \in Permissions
  BY AccountsAssumption
<1> HIDE DEF User, Permissions
<1>3. UsersOK /\ PermsOK
  BY <1>1, <1>2, LoadedType DEF UsersOK, PermsOK
<1>4. HandlersOK
  BY <1>1, IdleType DEF HandlersOK
<1>5. CountersOK
  <2>1. demoted = FALSE
    BY <1>1
  <2>2. fresh = 0 /\ requests = 0 /\ faults = 0 /\ restarts = 0
    BY <1>1
  <2>3. /\ fresh \in Nat
        /\ requests \in 0..MaxRequests /\ faults \in 0..MaxFaults /\ restarts \in 0..MaxRestarts
    BY <2>2, AccountsAssumption
  <2>4. demoted \in BOOLEAN
    BY <2>1
  <2>5. QED
    BY <2>3, <2>4 DEF CountersOK
<1>6. QED
  BY <1>3, <1>4, <1>5 DEF TypeInv

-----------------------------------------------------------------------------
(* What each writer does.                                                     *)

\* The record that the request of c is about, and the list with that record changed.
Target(c) == First(Holds(users, at[c].req.name))

NewRecord(c) == Changed(users[Target(c)], at[c].req, at[c].seen)

ChangedList(c) == [users EXCEPT ![Target(c)] = NewRecord(c)]

LEMMA WriterAt ==
  ASSUME TypeInv, NEW c \in Clients, at[c].pc \in {"admitted", "read"}
  PROVE  /\ at[c].req \in Requests /\ at[c] # Idle
         /\ at[c].pc = "read" => Grounded(at[c].req, at[c].seen)
BY IdleType DEF TypeInv, HandlersOK

LEMMA ChangeUserDoes ==
  ASSUME TypeInv, NEW c \in Clients, NEW w \in Outcomes, ChangeUser(c, w)
  PROVE  /\ at[c] # Idle /\ at[c].req \in Requests /\ Grounded(at[c].req, at[c].seen)
         /\ Answer(c) /\ UNCHANGED <<perms, permFile, requests, restarts>>
         /\ \/ w = "ok" /\ UNCHANGED <<users, userFile, fresh, demoted, faults>>
            \/ /\ Target(c) \in 1..Len(users) /\ users[Target(c)] \in User
               /\ users[Target(c)].name = at[c].req.name
               /\ Lookup(users, at[c].req.name) = users[Target(c)]
               /\ NewRecord(c) \in User /\ ChangedList(c) \in Seq(User)
               /\ WriteUsers(ChangedList(c), w) /\ fresh' \in Nat
               /\ demoted' = (demoted \/ (HasAdmin(users) /\ ~HasAdmin(ChangedList(c))))
<1> DEFINE r == at[c].req
<1>1. /\ \/ at[c].pc = "read"
         \/ at[c].pc = "admitted" /\ r.op \in {"token", "untoken"}
      /\ Answer(c) /\ UNCHANGED <<perms, permFile, requests, restarts>>
  BY DEF ChangeUser
<1>2. at[c] # Idle /\ r \in Requests /\ Grounded(r, at[c].seen)
  BY <1>1, WriterAt DEF Grounded, ReadFirst
<1>3. CASE Holds(users, r.name) = {}
  BY <1>1, <1>2, <1>3 DEF ChangeUser
<1>4. CASE Holds(users, r.name) # {}
  <2>1. users \in Seq(User) /\ fresh \in Nat
    BY DEF TypeInv, UsersOK, CountersOK
  <2>2. /\ Target(c) \in 1..Len(users) /\ users[Target(c)] \in User
        /\ users[Target(c)].name = r.name /\ Lookup(users, r.name) = users[Target(c)]
    BY <1>4, <2>1, FirstUser DEF Target
  <2>3. NewRecord(c) \in User
    BY <1>2, <2>1, <2>2, ChangedUser DEF NewRecord
  <2>4. ChangedList(c) \in Seq(User)
    BY <2>1, <2>2, <2>3, ChangedUsers DEF ChangedList
  <2>5. /\ WriteUsers(ChangedList(c), w)
        /\ fresh' = IF r.op \in {"setup", "token"} THEN fresh + 1 ELSE fresh
        /\ demoted' = (demoted \/ (HasAdmin(users) /\ ~HasAdmin(ChangedList(c))))
    BY <1>4, Zenon DEF ChangeUser, ChangedList, NewRecord, Target
  <2>6. fresh' \in Nat
    BY <2>1, <2>5
  <2>7. QED
    BY <1>1, <1>2, <2>2, <2>3, <2>4, <2>5, <2>6
<1>5. QED
  BY <1>3, <1>4

LEMMA CreateUserDoes ==
  ASSUME TypeInv, NEW c \in Clients, NEW w \in Outcomes, CreateUser(c, w)
  PROVE  /\ at[c] # Idle /\ at[c].req \in Requests /\ at[c].req.op = "create"
         /\ Answer(c) /\ UNCHANGED <<perms, permFile, fresh, demoted, requests, restarts>>
         /\ \/ w = "ok" /\ UNCHANGED <<users, userFile, faults>>
            \/ \E u \in User :
                 /\ u.mfa = FALSE /\ Holds(users, u.name) = {}
                 /\ WriteUsers(Append(users, u), w)
<1> DEFINE r == at[c].req
           u == NewUser(r.name, r.role, r.on)
<1>1. /\ at[c].pc = "admitted" /\ r.op = "create" /\ Answer(c)
      /\ UNCHANGED <<perms, permFile, fresh, demoted, requests, restarts>>
  BY DEF CreateUser
<1>2. at[c] # Idle /\ r \in Requests
  BY <1>1, WriterAt
<1>3. u \in User /\ u.name = r.name /\ u.mfa = FALSE
  <2>1. r.name \in Names /\ r.role \in Roles /\ r.on \in BOOLEAN
    BY <1>1, <1>2, RequestFields
  <2>2. NewUser(r.name, r.role, r.on) \in User /\ NewUser(r.name, r.role, r.on).name = r.name
    <3> DEFINE n == r.name
               role == r.role
               on == r.on
    <3>1. n \in Names /\ role \in Roles /\ on \in BOOLEAN
      BY <2>1
    <3> HIDE DEF User, n, role, on
    <3>2. NewUser(n, role, on) \in User /\ NewUser(n, role, on).name = n
      BY <3>1, NewUserType
    <3>3. QED
      BY <3>2 DEF n, role, on
  <2>3. NewUser(r.name, r.role, r.on).mfa = FALSE
    BY DEF NewUser, NoUser
  <2>4. QED
    BY <2>2, <2>3
<1>4. CASE Holds(users, r.name) # {}
  BY <1>1, <1>2, <1>4 DEF CreateUser
<1>5. CASE Holds(users, r.name) = {}
  <2>1. WriteUsers(Append(users, u), w)
    BY <1>5 DEF CreateUser
  <2> HIDE DEF u
  <2>2. QED
    BY <1>1, <1>2, <1>3, <1>5, <2>1
<1>6. QED
  BY <1>4, <1>5

LEMMA DeleteUserDoes ==
  ASSUME TypeInv, NEW c \in Clients, NEW w1 \in Outcomes, NEW w2 \in Outcomes,
         DeleteUser(c, w1, w2)
  PROVE  /\ at[c] # Idle /\ at[c].req \in Requests /\ at[c].req.op = "delete"
         /\ Answer(c) /\ UNCHANGED <<fresh, demoted, requests, restarts>>
         /\ \/ w1 = "ok" /\ w2 = "ok"
               /\ UNCHANGED <<users, userFile, perms, permFile, faults>>
            \/ /\ Target(c) \in 1..Len(users) /\ users[Target(c)].name = at[c].req.name
               /\ MayDelete(users, Target(c))
               /\ \A j \in 1..Len(users) : users[j].name = at[c].req.name => Target(c) <= j
               /\ Without(users, Target(c)) \in Seq(User)
               /\ users' = Without(users, Target(c))
               /\ userFile' = SavedUsers(Without(users, Target(c)), w1)
               /\ perms' = {e \in perms : e[1] # at[c].req.name}
               /\ permFile' = SavedPerms({e \in perms : e[1] # at[c].req.name}, w2)
               /\ faults' = faults + Failures(w1) + Failures(w2)
               /\ faults' <= MaxFaults
<1> DEFINE n == at[c].req.name
<1>1. /\ at[c].pc = "admitted" /\ at[c].req.op = "delete" /\ Answer(c)
      /\ UNCHANGED <<fresh, demoted, requests, restarts>>
  BY DEF DeleteUser
<1>2. at[c] # Idle /\ at[c].req \in Requests
  BY <1>1, WriterAt
<1>3. CASE Holds(users, n) = {} \/ ~MayDelete(users, Target(c))
  <2>1. w1 = "ok" /\ w2 = "ok" /\ UNCHANGED <<users, userFile, perms, permFile, faults>>
    BY <1>3, Zenon DEF DeleteUser, Target
  <2>2. QED
    BY <1>1, <1>2, <2>1
<1>4. CASE Holds(users, n) # {} /\ MayDelete(users, Target(c))
  <2>1. users \in Seq(User)
    BY DEF TypeInv, UsersOK
  <2> HIDE DEF User
  <2>2. /\ Target(c) \in 1..Len(users) /\ users[Target(c)].name = n
        /\ \A j \in 1..Len(users) : users[j].name = n => Target(c) <= j
    BY <1>4, <2>1, FirstHolds DEF Target
  <2>3. Without(users, Target(c)) \in Seq(User)
    BY <2>1, <2>2, WithoutElements
  <2>4. /\ users' = Without(users, Target(c)) /\ perms' = {e \in perms : e[1] # n}
        /\ userFile' = SavedUsers(Without(users, Target(c)), w1)
        /\ permFile' = SavedPerms({e \in perms : e[1] # n}, w2)
        /\ faults + Failures(w1) + Failures(w2) <= MaxFaults
        /\ faults' = faults + Failures(w1) + Failures(w2)
    BY <1>4, Zenon DEF DeleteUser, Target
  <2>5. faults' <= MaxFaults
    BY <2>4
  <2>6. QED
    BY <1>1, <1>2, <1>4, <2>2, <2>3, <2>4, <2>5
<1>5. QED
  BY <1>3, <1>4

LEMMA PermitDoes ==
  ASSUME TypeInv, NEW c \in Clients, NEW w \in Outcomes, Permit(c, w)
  PROVE  /\ at[c] # Idle /\ at[c].req \in Requests
         /\ at[c].req.op \in {"grant", "revoke"}
         /\ Answer(c) /\ UNCHANGED <<users, userFile, fresh, demoted, requests, restarts>>
         /\ \/ w = "ok" /\ UNCHANGED <<perms, permFile, faults>>
            \/ \E ps \in Permissions :
                 /\ WritePerms(ps, w)
                 /\ \A e \in ps : e \in perms \/ Holds(users, e[1]) # {}
<1> DEFINE r == at[c].req
           e == <<r.name, r.kind>>
<1>1. /\ at[c].pc = "admitted" /\ r.op \in {"grant", "revoke"} /\ Answer(c)
      /\ UNCHANGED <<users, userFile, fresh, demoted, requests, restarts>>
  BY DEF Permit
<1>2. at[c] # Idle /\ r \in Requests
  BY <1>1, WriterAt
<1>3. \/ Known(r.name) /\ WritePerms(perms \cup {e}, w)
      \/ WritePerms(perms \ {e}, w)
      \/ w = "ok" /\ UNCHANGED <<perms, permFile, faults>>
  BY Zenon DEF Permit
<1>4. perms \in Permissions
  BY DEF TypeInv, PermsOK
<1>5. r.name \in Names /\ r.kind \in Kinds
  BY <1>1, <1>2, RequestFields
<1>6. perms \cup {e} \in Permissions /\ perms \ {e} \in Permissions /\ e[1] = r.name
  BY <1>4, <1>5 DEF Permissions
<1> HIDE DEF e
<1>7. CASE Known(r.name) /\ WritePerms(perms \cup {e}, w)
  <2>1. \A d \in perms \cup {e} : d \in perms \/ Holds(users, d[1]) # {}
    BY <1>6, <1>7 DEF Known
  <2>2. QED
    BY <1>1, <1>2, <1>6, <1>7, <2>1
<1>8. CASE WritePerms(perms \ {e}, w)
  BY <1>1, <1>2, <1>6, <1>8
<1>9. QED
  BY <1>1, <1>2, <1>3, <1>7, <1>8

\* The list after a login with Feishu: one record is bound, or a user without rights is added.
Bound(us, i, id) == [us EXCEPT ![i].feishu = id]

LEMMA BoundUser ==
  ASSUME NEW us \in Seq(User), NEW i \in 1..Len(us), NEW a \in FeishuAccounts
  PROVE  /\ Bound(us, i, a.id) \in Seq(User) /\ Len(Bound(us, i, a.id)) = Len(us)
         /\ \A j \in 1..Len(us) :
              LET u == Bound(us, i, a.id)[j]
              IN  /\ u.name = us[j].name /\ u.role = us[j].role /\ u.enabled = us[j].enabled
                  /\ u.mfa = us[j].mfa /\ u.secret = us[j].secret
<1> DEFINE u == [us[i] EXCEPT !.feishu = a.id]
<1>1. us[i] \in User
  BY ElementOfSeq
<1>2. /\ u \in User /\ u.name = us[i].name /\ u.role = us[i].role
      /\ u.secret = us[i].secret
  BY <1>1 DEF User
<1>3. u.mfa = us[i].mfa /\ u.enabled = us[i].enabled
  BY <1>1, Zenon DEF User
<1>4. Bound(us, i, a.id) = [us EXCEPT ![i] = u]
  BY DEF Bound
<1> HIDE DEF u, User
<1>5. /\ [us EXCEPT ![i] = u] \in Seq(User) /\ Len([us EXCEPT ![i] = u]) = Len(us)
      /\ \A j \in 1..Len(us) : [us EXCEPT ![i] = u][j] = IF j = i THEN u ELSE us[j]
  BY <1>2, ChangedUsers
<1>6. QED
  BY <1>2, <1>3, <1>4, <1>5

LEMMA FeishuLoginDoes ==
  ASSUME TypeInv, NEW a \in FeishuAccounts, NEW w \in Outcomes, FeishuLogin(a, w)
  PROVE  /\ requests' \in 0..MaxRequests
         /\ UNCHANGED <<perms, permFile, at, fresh, demoted, restarts>>
         /\ \/ \E i \in 1..Len(users) : WriteUsers(Bound(users, i, a.id), w)
            \/ \E u \in User : /\ u.role = "user" /\ u.mfa = FALSE
                               /\ WriteUsers(Append(users, u), w)
<1> DEFINE I == {i \in 1..Len(users) : users[i].name = a.email \/ users[i].feishu = a.id}
           n == IF a.email # None THEN a.email ELSE a.name
           u == [NewUser(n, "user", TRUE) EXCEPT !.feishu = a.id]
<1>1. /\ requests < MaxRequests /\ requests' = requests + 1
      /\ UNCHANGED <<perms, permFile, at, fresh, demoted, restarts>>
  BY DEF FeishuLogin
<1>2. WriteUsers(IF I # {} THEN Bound(users, First(I), a.id) ELSE Append(users, u), w)
  BY Zenon DEF FeishuLogin, Bound
<1>3. requests' \in 0..MaxRequests
  BY <1>1, AccountsAssumption DEF TypeInv, CountersOK
<1>4. users \in Seq(User)
  BY DEF TypeInv, UsersOK
<1>5. CASE I # {}
  <2>1. First(I) \in 1..Len(users)
    <3>1. I \subseteq Nat
      BY <1>4
    <3>2. First(I) \in I
      BY <1>5, <3>1, LeastIndex
    <3>3. QED
      BY <3>2
  <2>2. WriteUsers(Bound(users, First(I), a.id), w)
    BY <1>2, <1>5
  <2>3. QED
    BY <1>1, <1>3, <2>1, <2>2
<1>6. CASE I = {}
  <2>1. n \in Names
    BY AccountsAssumption
  <2>2. u \in User /\ u.role = "user"
    BY <2>1 DEF NewUser, NoUser, User, Roles
  <2>3. u.mfa = FALSE
    BY DEF NewUser, NoUser
  <2>4. WriteUsers(Append(users, u), w)
    BY <1>2, <1>6
  <2> HIDE DEF u
  <2>5. QED
    BY <1>1, <1>3, <2>2, <2>3, <2>4
<1>7. QED
  BY <1>5, <1>6

\* What a start finds and leaves: the files, or nothing where a write was cut short.
NoUsers == [cut |-> TRUE, users |-> <<>>]

NoPerms == [cut |-> TRUE, perms |-> {}]

LEMMA RestartDoes ==
  ASSUME TypeInv, Restart
  PROVE  /\ restarts' \in 0..MaxRestarts /\ faults' \in 0..MaxFaults
         /\ at' = [c \in Clients |-> Idle]
         /\ demoted' = (demoted /\ ~HasAdmin(users'))
         /\ UNCHANGED <<fresh, requests>> /\ restarts' = restarts + 1
         /\ permFile' \in {permFile, NoPerms} /\ perms' = permFile'.perms
         /\ \E uf \in {userFile, NoUsers} :
              /\ uf.users \in Seq(User) /\ users' = Loaded(uf.users)
              /\ userFile' \in {uf, NoUsers, [cut |-> FALSE, users |-> users']}
              /\ faults' = 0 => /\ faults = 0 /\ uf = userFile /\ permFile' = permFile
                                /\ userFile'.users = users'
<1>1. PICK uf \in LeftUsers, pf \in LeftPerms, w \in Outcomes :
        LET damaged == uf # userFile \/ pf # permFile
            harm == Failures(w) + (IF damaged THEN 1 ELSE 0)
        IN  /\ restarts < MaxRestarts /\ restarts' = restarts + 1
            /\ faults + harm <= MaxFaults /\ faults' = faults + harm
            /\ (Loaded(uf.users) = uf.users) => (w = "ok")
            /\ users' = Loaded(uf.users)
            /\ userFile' = IF users' = uf.users THEN uf
                           ELSE CASE w = "ok" -> [cut |-> FALSE, users |-> users']
                                  [] w = "open" -> uf
                                  [] w = "cut" -> [cut |-> TRUE, users |-> <<>>]
            /\ perms' = pf.perms /\ permFile' = pf
            /\ at' = [c \in Clients |-> Idle]
            /\ demoted' = (demoted /\ ~HasAdmin(users'))
            /\ UNCHANGED <<fresh, requests>>
  BY Zenon DEF Restart
<1>2. uf \in {userFile, NoUsers} /\ pf \in {permFile, NoPerms}
  BY DEF LeftUsers, LeftPerms, NoUsers, NoPerms
<1>3. uf.users \in Seq(User)
  <2> HIDE DEF User
  <2>1. userFile.users \in Seq(User) /\ NoUsers.users = <<>> /\ <<>> \in Seq(User)
    BY DEF TypeInv, UsersOK, NoUsers
  <2>2. QED
    BY <1>2, <2>1
<1> DEFINE damage == IF uf # userFile \/ pf # permFile THEN 1 ELSE 0
<1>4. Failures(w) \in {0, 1} /\ (Failures(w) = 0 => w = "ok")
  BY FailureCounts
<1>5. damage \in {0, 1} /\ (damage = 0 => uf = userFile /\ pf = permFile)
  OBVIOUS
<1>6. /\ restarts < MaxRestarts /\ restarts' = restarts + 1
      /\ faults + (Failures(w) + damage) <= MaxFaults
      /\ faults' = faults + (Failures(w) + damage)
  BY <1>1
<1>7. /\ users' = Loaded(uf.users) /\ perms' = pf.perms /\ permFile' = pf
      /\ at' = [c \in Clients |-> Idle] /\ UNCHANGED <<fresh, requests>>
      /\ demoted' = (demoted /\ ~HasAdmin(users'))
  BY <1>1
<1>8. userFile' = IF users' = uf.users THEN uf
                  ELSE CASE w = "ok" -> [cut |-> FALSE, users |-> users'] [] w = "open" -> uf
                         [] w = "cut" -> [cut |-> TRUE, users |-> <<>>]
  BY <1>1
<1>9. faults \in Nat /\ restarts \in Nat
  BY AccountsAssumption DEF TypeInv, CountersOK
<1> HIDE DEF damage
<1>10. /\ restarts' \in 0..MaxRestarts /\ faults' \in 0..MaxFaults
       /\ faults' = 0 => faults = 0 /\ Failures(w) = 0 /\ damage = 0
  BY <1>4, <1>5, <1>6, <1>9, AccountsAssumption
<1>11. w = "ok" \/ w = "open" \/ w = "cut"
  BY DEF Outcomes
<1>12. /\ userFile' \in {uf, NoUsers, [cut |-> FALSE, users |-> users']}
       /\ w = "ok" => userFile'.users = users'
  BY <1>8, <1>11 DEF NoUsers
<1>13. faults' = 0 => /\ faults = 0 /\ uf = userFile /\ permFile' = permFile
                      /\ userFile'.users = users'
  BY <1>4, <1>5, <1>7, <1>10, <1>12
<1>14. /\ permFile' \in {permFile, NoPerms} /\ perms' = permFile'.perms
  BY <1>2, <1>7
<1>15. QED
  BY <1>2, <1>3, <1>6, <1>7, <1>10, <1>12, <1>13, <1>14

-----------------------------------------------------------------------------
(* Every step keeps the types.                                                *)

LEMMA TypeAdmit ==
  ASSUME TypeInv, NEW c \in Clients, Admit(c)
  PROVE  TypeInv'
<1>1. PICK r \in Requests :
        /\ at[c] = Idle /\ requests < MaxRequests /\ Allowed(r)
        /\ at' = [at EXCEPT ![c] = [pc |-> "admitted", req |-> r, seen |-> NoUser]]
        /\ requests' = requests + 1
        /\ UNCHANGED <<users, perms, userFile, permFile, fresh, demoted, faults, restarts>>
  BY Zenon DEF Admit
<1> DEFINE l == [pc |-> "admitted", req |-> r, seen |-> NoUser]
<1>2. l \in Local /\ l.pc = "admitted" /\ l.req \in Requests
  BY DEF Local
<1>3. at' = [at EXCEPT ![c] = l]
  BY <1>1
<1> HIDE DEF l
<1>4. at' \in [Clients -> Local] /\ \A d \in Clients : at'[d] = IF d = c THEN l ELSE at[d]
  BY <1>2, <1>3 DEF TypeInv, HandlersOK
<1>5. HandlersOK'
  BY <1>2, <1>4 DEF TypeInv, HandlersOK
<1>6. requests' \in 0..MaxRequests
  BY <1>1, AccountsAssumption DEF TypeInv, CountersOK
<1>7. UsersOK' /\ PermsOK'
  BY <1>1 DEF TypeInv, UsersOK, PermsOK
<1>8. CountersOK'
  BY <1>1, <1>6 DEF TypeInv, CountersOK
<1>9. QED
  BY <1>5, <1>7, <1>8 DEF TypeInv

LEMMA TypeRead ==
  ASSUME TypeInv, NEW c \in Clients, Read(c)
  PROVE  TypeInv'
<1> DEFINE r == at[c].req
           u == Lookup(users, r.name)
<1>1. /\ at[c].pc = "admitted" /\ r.op \in ReadFirst
      /\ IF Proceeds(r, u) THEN at' = [at EXCEPT ![c].pc = "read", ![c].seen = u] ELSE Answer(c)
      /\ UNCHANGED <<users, perms, userFile, permFile, fresh, demoted, requests, faults, restarts>>
  BY Zenon DEF Read
<1>2. HandlersOK'
  <2>1. CASE Proceeds(r, u)
    <3> DEFINE l == [at[c] EXCEPT !.pc = "read", !.seen = u]
    <3>1. u \in User
      <4>1. u \in User \cup {NoUser}
        BY LookupType DEF TypeInv, UsersOK
      <4>2. u # NoUser
        BY <2>1 DEF Proceeds
      <4>3. QED
        BY <4>1, <4>2
    <3>2. r \in Requests
      BY <1>1, WriterAt
    <3>3. at[c] \in Local
      BY DEF TypeInv, HandlersOK
    <3> HIDE DEF u
    <3>4. l \in Local /\ l.pc = "read" /\ l.req = r /\ l.seen = u
      BY <3>1, <3>3 DEF Local
    <3>5. at' = [at EXCEPT ![c] = l]
      BY <1>1, <2>1
    <3>6. Grounded(r, u)
      BY <1>1, <2>1, <3>1 DEF Grounded
    <3> HIDE DEF l, r
    <3>7. at' \in [Clients -> Local] /\ \A d \in Clients : at'[d] = IF d = c THEN l ELSE at[d]
      BY <3>4, <3>5 DEF TypeInv, HandlersOK
    <3>8. QED
      BY <3>2, <3>4, <3>6, <3>7 DEF TypeInv, HandlersOK
  <2>2. CASE ~Proceeds(r, u)
    BY <1>1, <2>2, AnswerType DEF TypeInv
  <2>3. QED
    BY <2>1, <2>2
<1>3. UsersOK' /\ PermsOK'
  BY <1>1 DEF TypeInv, UsersOK, PermsOK
<1>4. CountersOK'
  BY <1>1 DEF TypeInv, CountersOK
<1>5. QED
  BY <1>2, <1>3, <1>4 DEF TypeInv

LEMMA TypeChangeUser ==
  ASSUME TypeInv, NEW c \in Clients, NEW w \in Outcomes, ChangeUser(c, w)
  PROVE  TypeInv'
<1>1. /\ Answer(c) /\ UNCHANGED <<perms, permFile, requests, restarts>>
      /\ \/ w = "ok" /\ UNCHANGED <<users, userFile, fresh, demoted, faults>>
         \/ /\ ChangedList(c) \in Seq(User)
            /\ WriteUsers(ChangedList(c), w) /\ fresh' \in Nat
            /\ demoted' = (demoted \/ (HasAdmin(users) /\ ~HasAdmin(ChangedList(c))))
  BY ChangeUserDoes
<1>2. HandlersOK' /\ PermsOK'
  BY <1>1, AnswerType DEF TypeInv, PermsOK
<1>3. UsersOK' /\ faults' \in 0..MaxFaults
  <2>1. CASE UNCHANGED <<users, userFile, faults>>
    BY <2>1 DEF TypeInv, UsersOK, CountersOK
  <2>2. CASE ChangedList(c) \in Seq(User) /\ WriteUsers(ChangedList(c), w)
    BY <2>2, WriteUsersType DEF TypeInv
  <2>3. QED
    BY <1>1, <2>1, <2>2
<1>4. demoted' \in BOOLEAN
  <2>1. demoted \in BOOLEAN
    BY DEF TypeInv, CountersOK
  <2>2. QED
    BY <1>1, <2>1, Zenon
<1>5. fresh' \in Nat /\ requests' \in 0..MaxRequests /\ restarts' \in 0..MaxRestarts
  BY <1>1 DEF TypeInv, CountersOK
<1>6. QED
  BY <1>2, <1>3, <1>4, <1>5 DEF TypeInv, CountersOK

LEMMA TypeCreateUser ==
  ASSUME TypeInv, NEW c \in Clients, NEW w \in Outcomes, CreateUser(c, w)
  PROVE  TypeInv'
<1>1. /\ Answer(c) /\ UNCHANGED <<perms, permFile, fresh, demoted, requests, restarts>>
      /\ \/ w = "ok" /\ UNCHANGED <<users, userFile, faults>>
         \/ \E u \in User :
              /\ u.mfa = FALSE /\ Holds(users, u.name) = {}
              /\ WriteUsers(Append(users, u), w)
  BY CreateUserDoes
<1>2. HandlersOK' /\ PermsOK'
  BY <1>1, AnswerType DEF TypeInv, PermsOK
<1>3. UsersOK' /\ faults' \in 0..MaxFaults
  <2>1. CASE UNCHANGED <<users, userFile, faults>>
    BY <2>1 DEF TypeInv, UsersOK, CountersOK
  <2>2. ASSUME NEW u \in User, WriteUsers(Append(users, u), w)
        PROVE  UsersOK' /\ faults' \in 0..MaxFaults
    <3> HIDE DEF User
    <3>1. Append(users, u) \in Seq(User)
      BY AddedUser DEF TypeInv, UsersOK
    <3>2. QED
      BY <2>2, <3>1, WriteUsersType DEF TypeInv
  <2>3. QED
    BY <1>1, <2>1, <2>2
<1>4. CountersOK'
  BY <1>1, <1>3 DEF TypeInv, CountersOK
<1>5. QED
  BY <1>2, <1>3, <1>4 DEF TypeInv

LEMMA TypeDeleteUser ==
  ASSUME TypeInv, NEW c \in Clients, NEW w1 \in Outcomes, NEW w2 \in Outcomes,
         DeleteUser(c, w1, w2)
  PROVE  TypeInv'
<1>1. Answer(c) /\ UNCHANGED <<fresh, demoted, requests, restarts>>
  BY DeleteUserDoes
<1>2. HandlersOK'
  BY <1>1, AnswerType DEF TypeInv
<1>3. UsersOK' /\ PermsOK' /\ faults' \in 0..MaxFaults
  <2> DEFINE us == Without(users, Target(c))
             ps == {e \in perms : e[1] # at[c].req.name}
  <2>1. CASE UNCHANGED <<users, userFile, perms, permFile, faults>>
    BY <2>1 DEF TypeInv, UsersOK, PermsOK, CountersOK
  <2>2. CASE /\ us \in Seq(User) /\ users' = us /\ userFile' = SavedUsers(us, w1)
             /\ perms' = ps /\ permFile' = SavedPerms(ps, w2)
             /\ faults' = faults + Failures(w1) + Failures(w2) /\ faults' <= MaxFaults
    <3>1. ps \in Permissions
      BY DEF TypeInv, PermsOK, Permissions
    <3> HIDE DEF User, Permissions, us, ps
    <3>2. UsersOK'
      BY <2>2, SavedUsersCases DEF TypeInv, UsersOK
    <3>3. PermsOK'
      BY <2>2, <3>1, SavedPermsCases DEF TypeInv, PermsOK
    <3>4. faults' \in 0..MaxFaults
      <4>1. Failures(w1) \in Nat /\ Failures(w2) \in Nat /\ faults \in Nat
        BY FailureCounts, AccountsAssumption DEF TypeInv, CountersOK
      <4>2. faults' = faults + Failures(w1) + Failures(w2) /\ faults' <= MaxFaults
        BY <2>2
      <4>3. MaxFaults \in Nat
        BY AccountsAssumption
      <4>4. QED
        BY <4>1, <4>2, <4>3
    <3>5. QED
      BY <3>2, <3>3, <3>4
  <2>3. \/ UNCHANGED <<users, userFile, perms, permFile, faults>>
        \/ /\ us \in Seq(User) /\ users' = us /\ userFile' = SavedUsers(us, w1)
           /\ perms' = ps /\ permFile' = SavedPerms(ps, w2)
           /\ faults' = faults + Failures(w1) + Failures(w2) /\ faults' <= MaxFaults
    <3> HIDE DEF User, us, ps
    <3>1. \/ UNCHANGED <<users, userFile, perms, permFile, faults>>
          \/ /\ Without(users, Target(c)) \in Seq(User) /\ users' = Without(users, Target(c))
             /\ userFile' = SavedUsers(Without(users, Target(c)), w1)
             /\ perms' = {e \in perms : e[1] # at[c].req.name}
             /\ permFile' = SavedPerms({e \in perms : e[1] # at[c].req.name}, w2)
             /\ faults' = faults + Failures(w1) + Failures(w2) /\ faults' <= MaxFaults
      BY DeleteUserDoes, Zenon
    <3>2. QED
      BY <3>1, Zenon DEF us, ps
  <2>4. QED
    BY <2>1, <2>2, <2>3, Zenon
<1>4. CountersOK'
  BY <1>1, <1>3 DEF TypeInv, CountersOK
<1>5. QED
  BY <1>2, <1>3, <1>4 DEF TypeInv

LEMMA TypePermit ==
  ASSUME TypeInv, NEW c \in Clients, NEW w \in Outcomes, Permit(c, w)
  PROVE  TypeInv'
<1>1. /\ Answer(c) /\ UNCHANGED <<users, userFile, fresh, demoted, requests, restarts>>
      /\ \/ UNCHANGED <<perms, permFile, faults>>
         \/ \E ps \in Permissions : WritePerms(ps, w)
  BY PermitDoes
<1>2. HandlersOK' /\ UsersOK'
  BY <1>1, AnswerType DEF TypeInv, UsersOK
<1>3. PermsOK' /\ faults' \in 0..MaxFaults
  <2>1. CASE UNCHANGED <<perms, permFile, faults>>
    BY <2>1 DEF TypeInv, PermsOK, CountersOK
  <2>2. ASSUME NEW ps \in Permissions, WritePerms(ps, w)
        PROVE  PermsOK' /\ faults' \in 0..MaxFaults
    BY <2>2, WritePermsType DEF TypeInv
  <2>3. QED
    BY <1>1, <2>1, <2>2
<1>4. CountersOK'
  BY <1>1, <1>3 DEF TypeInv, CountersOK
<1>5. QED
  BY <1>2, <1>3, <1>4 DEF TypeInv

LEMMA TypeFeishuLogin ==
  ASSUME TypeInv, NEW a \in FeishuAccounts, NEW w \in Outcomes, FeishuLogin(a, w)
  PROVE  TypeInv'
<1>1. /\ requests' \in 0..MaxRequests
      /\ UNCHANGED <<perms, permFile, at, fresh, demoted, restarts>>
      /\ \/ \E i \in 1..Len(users) : WriteUsers(Bound(users, i, a.id), w)
         \/ \E u \in User : u.role = "user" /\ u.mfa = FALSE /\ WriteUsers(Append(users, u), w)
  BY FeishuLoginDoes
<1>2. HandlersOK' /\ PermsOK'
  BY <1>1 DEF TypeInv, HandlersOK, PermsOK
<1>3. UsersOK' /\ faults' \in 0..MaxFaults
  <2>1. users \in Seq(User)
    BY DEF TypeInv, UsersOK
  <2>2. ASSUME NEW i \in 1..Len(users), WriteUsers(Bound(users, i, a.id), w)
        PROVE  UsersOK' /\ faults' \in 0..MaxFaults
    <3>1. Bound(users, i, a.id) \in Seq(User)
      BY <2>1, BoundUser
    <3>2. QED
      BY <2>2, <3>1, WriteUsersType DEF TypeInv
  <2>3. ASSUME NEW u \in User, WriteUsers(Append(users, u), w)
        PROVE  UsersOK' /\ faults' \in 0..MaxFaults
    <3> HIDE DEF User
    <3>1. Append(users, u) \in Seq(User)
      BY <2>1, AddedUser
    <3>2. QED
      BY <2>3, <3>1, WriteUsersType DEF TypeInv
  <2>4. QED
    BY <1>1, <2>2, <2>3
<1>4. CountersOK'
  BY <1>1, <1>3 DEF TypeInv, CountersOK
<1>5. QED
  BY <1>2, <1>3, <1>4 DEF TypeInv

LEMMA TypeRestart ==
  ASSUME TypeInv, Restart
  PROVE  TypeInv'
<1>1. /\ restarts' \in 0..MaxRestarts /\ faults' \in 0..MaxFaults
      /\ at' = [c \in Clients |-> Idle]
      /\ demoted' = (demoted /\ ~HasAdmin(users'))
      /\ UNCHANGED <<fresh, requests>>
      /\ permFile' \in {permFile, NoPerms} /\ perms' = permFile'.perms
      /\ \E uf \in {userFile, NoUsers} :
           /\ uf.users \in Seq(User) /\ users' = Loaded(uf.users)
           /\ userFile' \in {uf, NoUsers, [cut |-> FALSE, users |-> users']}
  BY RestartDoes, Zenon
<1>2. HandlersOK'
  BY <1>1, IdleType DEF HandlersOK
<1> HIDE DEF User
<1>3. UsersOK'
  <2>1. PICK uf \in {userFile, NoUsers} :
          /\ uf.users \in Seq(User) /\ users' = Loaded(uf.users)
          /\ userFile' \in {uf, NoUsers, [cut |-> FALSE, users |-> users']}
    BY <1>1
  <2>2. users' \in Seq(User)
    BY <2>1, LoadedType
  <2>3. NoUsers \in [cut: BOOLEAN, users: Seq(User)]
    BY DEF NoUsers
  <2>4. userFile \in [cut: BOOLEAN, users: Seq(User)]
    BY DEF TypeInv, UsersOK
  <2>5. [cut |-> FALSE, users |-> users'] \in [cut: BOOLEAN, users: Seq(User)]
    BY <2>2
  <2>6. QED
    BY <2>1, <2>2, <2>3, <2>4, <2>5 DEF UsersOK
<1>4. PermsOK'
  <2>1. NoPerms \in [cut: BOOLEAN, perms: Permissions]
    BY DEF NoPerms, Permissions
  <2> HIDE DEF Permissions
  <2>2. permFile' \in [cut: BOOLEAN, perms: Permissions]
    BY <1>1, <2>1 DEF TypeInv, PermsOK
  <2>3. QED
    BY <1>1, <2>2 DEF PermsOK
<1>5. CountersOK'
  <2>1. demoted' \in BOOLEAN
    BY <1>1, Zenon
  <2>2. QED
    BY <1>1, <2>1 DEF TypeInv, CountersOK
<1>6. QED
  BY <1>2, <1>3, <1>4, <1>5 DEF TypeInv

LEMMA TypeInvStep == TypeInv /\ [Next]_vars => TypeInv'
<1> SUFFICES ASSUME TypeInv, [Next]_vars PROVE TypeInv'
  OBVIOUS
<1>1. ASSUME NEW c \in Clients, Admit(c) PROVE TypeInv'
  BY <1>1, TypeAdmit
<1>2. ASSUME NEW c \in Clients, Read(c) PROVE TypeInv'
  BY <1>2, TypeRead
<1>3. ASSUME NEW c \in Clients, NEW w \in Outcomes, ChangeUser(c, w) PROVE TypeInv'
  BY <1>3, TypeChangeUser
<1>4. ASSUME NEW c \in Clients, NEW w \in Outcomes, CreateUser(c, w) PROVE TypeInv'
  BY <1>4, TypeCreateUser
<1>5. ASSUME NEW c \in Clients, NEW w \in Outcomes, Permit(c, w) PROVE TypeInv'
  BY <1>5, TypePermit
<1>6. ASSUME NEW c \in Clients, NEW w1 \in Outcomes, NEW w2 \in Outcomes, DeleteUser(c, w1, w2)
      PROVE  TypeInv'
  BY <1>6, TypeDeleteUser
<1>7. ASSUME NEW a \in FeishuAccounts, NEW w \in Outcomes, FeishuLogin(a, w) PROVE TypeInv'
  BY <1>7, TypeFeishuLogin
<1>8. CASE Restart
  BY <1>8, TypeRestart
<1>9. CASE UNCHANGED vars
  BY <1>9 DEF vars, TypeInv, HandlersOK, UsersOK, PermsOK, CountersOK
<1>10. QED
  BY <1>1, <1>2, <1>3, <1>4, <1>5, <1>6, <1>7, <1>8, <1>9 DEF Next, Handle

LEMMA TypeInvAlways == Spec => []TypeInv
<1>1. QED
  BY TypeInvInit, TypeInvStep, PTL DEF Spec

\* The types of users, permissions, files and handlers hold for any number of users, clients
\* and Feishu accounts: a handler between its two calls has a request that can be made.
THEOREM TypeCorrect == Spec => []TypeOK
<1>1. QED
  BY TypeInvAlways, TypeInvTypeOK, PTL

-----------------------------------------------------------------------------
(* A second factor that is on has its secret.                                 *)

SecretsKept(us) == \A i \in 1..Len(us) : us[i].mfa => us[i].secret # 0

\* Of the users and of the users a start would find.
SecretsInv == SecretsKept(users) /\ SecretsKept(userFile.users)

LEMMA SecretsAdded ==
  ASSUME NEW us \in Seq(User), NEW u \in User, SecretsKept(us), u.mfa = FALSE
  PROVE  SecretsKept(Append(us, u))
<1> HIDE DEF User
<1>1. Len(us) \in Nat
  OBVIOUS
<1>2. QED
  BY <1>1, AddedUser DEF SecretsKept

LEMMA SecretsWithout ==
  ASSUME NEW us \in Seq(User), NEW i \in 1..Len(us), SecretsKept(us)
  PROVE  SecretsKept(Without(us, i))
<1> HIDE DEF User
<1>1. /\ Len(Without(us, i)) = Len(us) - 1
      /\ \A j \in 1..Len(us) - 1 : Without(us, i)[j] = IF j < i THEN us[j] ELSE us[j + 1]
  BY WithoutElements
<1>2. Len(us) \in Nat
  OBVIOUS
<1>3. QED
  BY <1>1, <1>2 DEF SecretsKept

LEMMA SecretsLoaded ==
  ASSUME NEW us \in Seq(User), SecretsKept(us)
  PROVE  SecretsKept(Loaded(us))
<1> DEFINE u == NewUser(Admin, "admin", TRUE)
<1>1. u \in User
  BY NewUserType, AccountsAssumption DEF Roles
<1>2. u.mfa = FALSE
  BY DEF NewUser, NoUser
<1>3. Loaded(us) = us \/ Loaded(us) = Append(us, u)
  BY DEF Loaded
<1> HIDE DEF u, User
<1>4. SecretsKept(Append(us, u))
  BY <1>1, <1>2, SecretsAdded
<1>5. QED
  BY <1>3, <1>4

LEMMA SecretsWritten ==
  ASSUME UsersOK, NEW us \in Seq(User), NEW w \in Outcomes, WriteUsers(us, w),
         SecretsKept(us), SecretsKept(userFile.users)
  PROVE  SecretsInv'
<1>1. users' = us /\ userFile'.users \in {us, userFile.users, <<>>}
  BY SavedUsersCases DEF WriteUsers
<1>2. SecretsKept(<<>>)
  BY DEF SecretsKept
<1>3. SecretsKept(users') /\ SecretsKept(userFile'.users)
  BY <1>1, <1>2
<1>4. QED
  BY <1>3 DEF SecretsInv, SecretsKept

LEMMA SecretsStep ==
  ASSUME TypeInv, SecretsInv, [Next]_vars
  PROVE  SecretsInv'
<1>1. CASE UNCHANGED <<users, userFile>>
  BY <1>1 DEF SecretsInv, SecretsKept
<1>2. users \in Seq(User) /\ UsersOK /\ SecretsKept(users) /\ SecretsKept(userFile.users)
  BY DEF TypeInv, UsersOK, SecretsInv
<1>3. ASSUME NEW c \in Clients, NEW w \in Outcomes, ChangeUser(c, w) PROVE SecretsInv'
  <2>1. CASE UNCHANGED <<users, userFile>>
    BY <1>1, <2>1
  <2>2. CASE /\ Target(c) \in 1..Len(users) /\ users[Target(c)] \in User
             /\ NewRecord(c) \in User /\ ChangedList(c) \in Seq(User)
             /\ WriteUsers(ChangedList(c), w)
    <3>1. at[c].req \in Requests /\ Grounded(at[c].req, at[c].seen)
      BY <1>3, ChangeUserDoes
    <3>2. NewRecord(c).mfa => NewRecord(c).secret # 0
      <4>1. fresh \in Nat
        BY DEF TypeInv, CountersOK
      <4>2. users[Target(c)].mfa => users[Target(c)].secret # 0
        BY <1>2, <2>2 DEF SecretsKept
      <4>3. QED
        BY <2>2, <3>1, <4>1, <4>2, ChangedUser DEF NewRecord
    <3> HIDE DEF User
    <3>3. /\ Len(ChangedList(c)) = Len(users)
          /\ \A j \in 1..Len(users) :
               ChangedList(c)[j] = IF j = Target(c) THEN NewRecord(c) ELSE users[j]
      BY <1>2, <2>2, ChangedUsers DEF ChangedList
    <3>4. SecretsKept(ChangedList(c))
      BY <1>2, <3>2, <3>3 DEF SecretsKept
    <3>5. QED
      BY <1>2, <2>2, <3>4, SecretsWritten
  <2>3. QED
    BY <1>3, <2>1, <2>2, ChangeUserDoes
<1>4. ASSUME NEW c \in Clients, NEW w \in Outcomes, CreateUser(c, w) PROVE SecretsInv'
  <2>1. CASE UNCHANGED <<users, userFile>>
    BY <1>1, <2>1
  <2>2. ASSUME NEW u \in User, u.mfa = FALSE, WriteUsers(Append(users, u), w) PROVE SecretsInv'
    <3> HIDE DEF User
    <3>1. Append(users, u) \in Seq(User) /\ SecretsKept(Append(users, u))
      BY <1>2, <2>2, SecretsAdded, AddedUser
    <3>2. QED
      BY <1>2, <2>2, <3>1, SecretsWritten
  <2>3. QED
    BY <1>4, <2>1, <2>2, CreateUserDoes
<1>5. ASSUME NEW c \in Clients, NEW w1 \in Outcomes, NEW w2 \in Outcomes, DeleteUser(c, w1, w2)
      PROVE  SecretsInv'
  <2> DEFINE us == Without(users, Target(c))
  <2>1. CASE UNCHANGED <<users, userFile>>
    BY <1>1, <2>1
  <2>2. CASE /\ Target(c) \in 1..Len(users) /\ us \in Seq(User)
             /\ users' = us /\ userFile' = SavedUsers(us, w1)
    <3> HIDE DEF User
    <3>1. SecretsKept(us)
      BY <1>2, <2>2, SecretsWithout
    <3>2. userFile'.users \in {us, userFile.users, <<>>}
      BY <1>2, <2>2, SavedUsersCases
    <3>3. SecretsKept(<<>>)
      BY DEF SecretsKept
    <3>4. SecretsKept(users') /\ SecretsKept(userFile'.users)
      BY <1>2, <2>2, <3>1, <3>2, <3>3
    <3>5. QED
      BY <3>4 DEF SecretsInv, SecretsKept
  <2>3. QED
    BY <1>5, <2>1, <2>2, DeleteUserDoes
<1>6. ASSUME NEW a \in FeishuAccounts, NEW w \in Outcomes, FeishuLogin(a, w) PROVE SecretsInv'
  <2>1. ASSUME NEW i \in 1..Len(users), WriteUsers(Bound(users, i, a.id), w) PROVE SecretsInv'
    <3> HIDE DEF User
    <3>1. /\ Bound(users, i, a.id) \in Seq(User) /\ Len(Bound(users, i, a.id)) = Len(users)
          /\ \A j \in 1..Len(users) : /\ Bound(users, i, a.id)[j].mfa = users[j].mfa
                                      /\ Bound(users, i, a.id)[j].secret = users[j].secret
      BY <1>2, BoundUser
    <3>2. SecretsKept(Bound(users, i, a.id))
      BY <1>2, <3>1 DEF SecretsKept
    <3>3. QED
      BY <1>2, <2>1, <3>1, <3>2, SecretsWritten
  <2>2. ASSUME NEW u \in User, u.mfa = FALSE, WriteUsers(Append(users, u), w) PROVE SecretsInv'
    <3> HIDE DEF User
    <3>1. Append(users, u) \in Seq(User) /\ SecretsKept(Append(users, u))
      BY <1>2, <2>2, SecretsAdded, AddedUser
    <3>2. QED
      BY <1>2, <2>2, <3>1, SecretsWritten
  <2>3. QED
    BY <1>6, <2>1, <2>2, FeishuLoginDoes
<1>7. CASE Restart
  <2>1. PICK uf \in {userFile, NoUsers} :
          /\ uf.users \in Seq(User) /\ users' = Loaded(uf.users)
          /\ userFile' \in {uf, NoUsers, [cut |-> FALSE, users |-> users']}
    BY <1>7, RestartDoes, Zenon
  <2>2. SecretsKept(<<>>)
    BY DEF SecretsKept
  <2>3. SecretsKept(uf.users)
    BY <1>2, <2>1, <2>2 DEF NoUsers
  <2>4. SecretsKept(users')
    BY <2>1, <2>3, SecretsLoaded
  <2>5. SecretsKept(userFile'.users)
    BY <2>1, <2>2, <2>3, <2>4 DEF NoUsers
  <2>6. QED
    BY <2>4, <2>5 DEF SecretsInv, SecretsKept
<1>8. ASSUME NEW c \in Clients, Admit(c) \/ Read(c) PROVE UNCHANGED <<users, userFile>>
  BY <1>8 DEF Admit, Read
<1>9. ASSUME NEW c \in Clients, NEW w \in Outcomes, Permit(c, w) PROVE UNCHANGED <<users, userFile>>
  BY <1>9 DEF Permit
<1>10. CASE UNCHANGED vars
  BY <1>1, <1>10 DEF vars
<1>11. QED
  BY <1>1, <1>3, <1>4, <1>5, <1>6, <1>7, <1>8, <1>9, <1>10 DEF Next, Handle

\* A user whose second factor is on has the secret to log in with, whatever number of setups,
\* enablings, disablings and resets overlap, fail to be written or are lost at a restart - if
\* this is so of the users that a server starts from.
THEOREM SecondFactorsHaveSecrets ==
  ASSUME \A s \in Stored : SecretsKept(s.users)
  PROVE  Spec => []EnabledHasSecret
<1>1. Init => SecretsInv
  <2> SUFFICES ASSUME Init PROVE SecretsInv
    OBVIOUS
  <2>1. PICK s \in Stored : users = Loaded(s.users) /\ userFile = [cut |-> FALSE, users |-> users]
    BY Zenon DEF Init
  <2>2. s.users \in Seq(User)
    BY AccountsAssumption
  <2>3. SecretsKept(users)
    BY <2>1, <2>2, SecretsLoaded
  <2>4. QED
    BY <2>1, <2>3 DEF SecretsInv
<1>2. TypeInv /\ SecretsInv /\ [Next]_vars => SecretsInv'
  BY SecretsStep
<1>3. SecretsInv => EnabledHasSecret
  BY DEF SecretsInv, SecretsKept, EnabledHasSecret
<1>4. QED
  BY <1>1, <1>2, <1>3, TypeInvAlways, PTL DEF Spec

-----------------------------------------------------------------------------
(* While no write has failed, a permission has its user.                      *)

Owned(us, ps) == \A e \in ps : Holds(us, e[1]) # {}

\* The files then hold what memory holds, so that a restart changes nothing.
OwnersInv ==
  faults = 0 => userFile.users = users /\ permFile.perms = perms /\ Owned(users, perms)

LEMMA OwnedMore ==
  ASSUME NEW us \in Seq(User), NEW vs \in Seq(User), NEW ps, Owned(us, ps), Len(us) <= Len(vs),
         \A j \in 1..Len(us) : vs[j].name = us[j].name
  PROVE  Owned(vs, ps)
<1> HIDE DEF User
<1>1. Len(us) \in Nat /\ Len(vs) \in Nat
  OBVIOUS
<1>2. \A n : Holds(us, n) # {} => Holds(vs, n) # {}
  BY <1>1 DEF Holds
<1>3. QED
  BY <1>2 DEF Owned

LEMMA OwnedWithout ==
  ASSUME NEW us \in Seq(User), NEW i \in 1..Len(us), NEW ps, Owned(us, ps)
  PROVE  Owned(Without(us, i), {e \in ps : e[1] # us[i].name})
<1> HIDE DEF User
<1>1. /\ Len(Without(us, i)) = Len(us) - 1
      /\ \A j \in 1..Len(us) - 1 : Without(us, i)[j] = IF j < i THEN us[j] ELSE us[j + 1]
  BY WithoutElements
<1>2. Len(us) \in Nat
  OBVIOUS
<1>3. ASSUME NEW n, NEW j \in Holds(us, n), n # us[i].name PROVE Holds(Without(us, i), n) # {}
  <2>1. j \in 1..Len(us) /\ us[j].name = n /\ j # i
    BY <1>3 DEF Holds
  <2>2. CASE j < i
    <3>1. j \in 1..Len(us) - 1 /\ Without(us, i)[j] = us[j]
      BY <1>1, <1>2, <2>1, <2>2
    <3>2. j \in Holds(Without(us, i), n)
      BY <1>1, <2>1, <3>1 DEF Holds
    <3>3. QED
      BY <3>2
  <2>3. CASE j > i
    <3>1. j - 1 \in 1..Len(us) - 1 /\ Without(us, i)[j - 1] = us[j]
      BY <1>1, <1>2, <2>1, <2>3
    <3>2. j - 1 \in Holds(Without(us, i), n)
      BY <1>1, <2>1, <3>1 DEF Holds
    <3>3. QED
      BY <3>2
  <2>4. QED
    BY <1>2, <2>1, <2>2, <2>3
<1>4. QED
  BY <1>3 DEF Owned

LEMMA OwnedLoaded ==
  ASSUME NEW us \in Seq(User), NEW ps, Owned(us, ps)
  PROVE  Owned(Loaded(us), ps)
<1> DEFINE u == NewUser(Admin, "admin", TRUE)
<1>1. u \in User
  BY NewUserType, AccountsAssumption DEF Roles
<1>2. Loaded(us) = us \/ Loaded(us) = Append(us, u)
  BY DEF Loaded
<1> HIDE DEF u, User
<1> DEFINE vs == Append(us, u)
<1>3. /\ vs \in Seq(User) /\ Len(vs) = Len(us) + 1 /\ Len(us) \in Nat
      /\ \A j \in 1..Len(us) : vs[j] = us[j]
  BY <1>1, AddedUser
<1>4. Owned(vs, ps)
  <2> HIDE DEF vs
  <2>1. Len(us) <= Len(vs) /\ \A j \in 1..Len(us) : vs[j].name = us[j].name
    BY <1>3
  <2>2. QED
    BY <1>3, <2>1, OwnedMore
<1>5. QED
  BY <1>2, <1>4

\* A write of the users that keeps all names.
LEMMA OwnersWritten ==
  ASSUME TypeInv, OwnersInv, NEW us \in Seq(User), NEW w \in Outcomes, WriteUsers(us, w),
         Len(users) <= Len(us), \A j \in 1..Len(users) : us[j].name = users[j].name,
         UNCHANGED <<perms, permFile>>
  PROVE  OwnersInv'
<1> SUFFICES ASSUME faults' = 0
             PROVE  userFile'.users = users' /\ permFile'.perms = perms' /\ Owned(users', perms')
  BY DEF OwnersInv, Owned, Holds
<1>1. users' = us /\ userFile' = SavedUsers(us, w) /\ faults' = faults + Failures(w)
  BY DEF WriteUsers
<1>2. faults = 0 /\ Failures(w) = 0
  <2>1. faults \in Nat /\ Failures(w) \in Nat
    BY FailureCounts, AccountsAssumption DEF TypeInv, CountersOK
  <2>2. QED
    BY <1>1, <2>1
<1>3. userFile'.users = us
  BY <1>1, <1>2, FailureCounts, SavedUsersCases DEF TypeInv
<1>4. Owned(us, perms)
  BY <1>2, OwnedMore DEF OwnersInv, TypeInv, UsersOK
<1>5. QED
  BY <1>1, <1>2, <1>3, <1>4 DEF OwnersInv

LEMMA OwnersStep ==
  ASSUME TypeInv, OwnersInv, [Next]_vars
  PROVE  OwnersInv'
<1>1. CASE UNCHANGED <<users, userFile, perms, permFile, faults>>
  BY <1>1 DEF OwnersInv, Owned, Holds
<1>2. users \in Seq(User) /\ UsersOK /\ PermsOK /\ Len(users) \in Nat /\ faults \in Nat
  <2> HIDE DEF User
  <2>1. QED
    BY AccountsAssumption DEF TypeInv, UsersOK, CountersOK
<1>3. ASSUME NEW c \in Clients, NEW w \in Outcomes, ChangeUser(c, w) PROVE OwnersInv'
  <2>0. UNCHANGED <<perms, permFile>>
    BY <1>3, ChangeUserDoes
  <2>1. CASE UNCHANGED <<users, userFile, faults>>
    BY <1>1, <2>0, <2>1
  <2>2. CASE /\ Target(c) \in 1..Len(users) /\ users[Target(c)] \in User
             /\ NewRecord(c) \in User /\ ChangedList(c) \in Seq(User)
             /\ WriteUsers(ChangedList(c), w)
    <3>1. NewRecord(c).name = users[Target(c)].name
      <4>1. fresh \in Nat
        BY DEF TypeInv, CountersOK
      <4>2. at[c].req \in Requests /\ Grounded(at[c].req, at[c].seen)
        BY <1>3, ChangeUserDoes
      <4>3. QED
        BY <2>2, <4>1, <4>2, ChangedUser DEF NewRecord
    <3> HIDE DEF User
    <3>2. /\ Len(ChangedList(c)) = Len(users)
          /\ \A j \in 1..Len(users) :
               ChangedList(c)[j] = IF j = Target(c) THEN NewRecord(c) ELSE users[j]
      BY <1>2, <2>2, ChangedUsers DEF ChangedList
    <3>3. \A j \in 1..Len(users) : ChangedList(c)[j].name = users[j].name
      BY <3>1, <3>2
    <3>4. QED
      BY <1>2, <2>0, <2>2, <3>2, <3>3, OwnersWritten
  <2>3. QED
    BY <1>3, <2>1, <2>2, ChangeUserDoes
<1>4. ASSUME NEW w \in Outcomes, NEW u \in User, WriteUsers(Append(users, u), w),
             UNCHANGED <<perms, permFile>>
      PROVE  OwnersInv'
  <2> HIDE DEF User
  <2> DEFINE us == Append(users, u)
  <2>1. /\ us \in Seq(User) /\ Len(us) = Len(users) + 1
        /\ \A j \in 1..Len(users) : us[j] = users[j]
    BY <1>2, AddedUser
  <2>2. WriteUsers(us, w)
    BY <1>4
  <2> HIDE DEF us
  <2>3. Len(users) <= Len(us) /\ \A j \in 1..Len(users) : us[j].name = users[j].name
    BY <1>2, <2>1
  <2>4. QED
    BY <1>4, <2>1, <2>2, <2>3, OwnersWritten
<1>5. ASSUME NEW c \in Clients, NEW w \in Outcomes, CreateUser(c, w) PROVE OwnersInv'
  <2>1. /\ UNCHANGED <<perms, permFile>>
        /\ \/ UNCHANGED <<users, userFile, faults>>
           \/ \E u \in User : WriteUsers(Append(users, u), w)
    BY <1>5, CreateUserDoes
  <2>2. QED
    BY <1>1, <1>4, <2>1
<1>6. ASSUME NEW a \in FeishuAccounts, NEW w \in Outcomes, FeishuLogin(a, w) PROVE OwnersInv'
  <2>1. /\ UNCHANGED <<perms, permFile>>
        /\ \/ \E i \in 1..Len(users) : WriteUsers(Bound(users, i, a.id), w)
           \/ \E u \in User : WriteUsers(Append(users, u), w)
    BY <1>6, FeishuLoginDoes
  <2>2. ASSUME NEW i \in 1..Len(users), WriteUsers(Bound(users, i, a.id), w) PROVE OwnersInv'
    <3> HIDE DEF User
    <3>1. /\ Bound(users, i, a.id) \in Seq(User) /\ Len(Bound(users, i, a.id)) = Len(users)
          /\ \A j \in 1..Len(users) : Bound(users, i, a.id)[j].name = users[j].name
      BY <1>2, BoundUser
    <3>2. QED
      BY <1>2, <2>1, <2>2, <3>1, OwnersWritten
  <2>3. QED
    BY <1>4, <2>1, <2>2
<1>7. ASSUME NEW c \in Clients, NEW w1 \in Outcomes, NEW w2 \in Outcomes, DeleteUser(c, w1, w2)
      PROVE  OwnersInv'
  <2> DEFINE n == at[c].req.name
             us == Without(users, Target(c))
             ps == {e \in perms : e[1] # n}
  <2>1. CASE UNCHANGED <<users, userFile, perms, permFile, faults>>
    BY <1>1, <2>1
  <2>2. CASE /\ Target(c) \in 1..Len(users) /\ users[Target(c)].name = n
             /\ us \in Seq(User) /\ users' = us /\ userFile' = SavedUsers(us, w1)
             /\ perms' = ps /\ permFile' = SavedPerms(ps, w2)
             /\ faults' = faults + Failures(w1) + Failures(w2)
    <3> SUFFICES ASSUME faults' = 0
                 PROVE  /\ userFile'.users = users' /\ permFile'.perms = perms'
                        /\ Owned(users', perms')
      BY DEF OwnersInv, Owned, Holds
    <3>1. faults = 0 /\ Failures(w1) = 0 /\ Failures(w2) = 0
      <4>1. Failures(w1) \in Nat /\ Failures(w2) \in Nat
        BY FailureCounts
      <4>2. QED
        BY <1>2, <2>2, <4>1
    <3>2. w1 = "ok" /\ w2 = "ok"
      BY <3>1, FailureCounts
    <3>3. ps \in Permissions
      BY <1>2 DEF PermsOK, Permissions
    <3> HIDE DEF us, ps, Permissions, User
    <3>4. userFile'.users = us /\ permFile'.perms = ps
      BY <1>2, <2>2, <3>2, <3>3, SavedUsersCases, SavedPermsCases
    <3>5. Owned(users, perms)
      BY <3>1 DEF OwnersInv
    <3>6. Owned(us, ps)
      <4>1. /\ Owned(Without(users, Target(c)), {e \in perms : e[1] # users[Target(c)].name})
            /\ users[Target(c)].name = n
        BY <1>2, <2>2, <3>5, OwnedWithout
      <4>2. QED
        BY <4>1 DEF us, ps
    <3>7. QED
      BY <2>2, <3>4, <3>6
  <2>3. \/ UNCHANGED <<users, userFile, perms, permFile, faults>>
        \/ /\ Target(c) \in 1..Len(users) /\ users[Target(c)].name = n
           /\ us \in Seq(User) /\ users' = us /\ userFile' = SavedUsers(us, w1)
           /\ perms' = ps /\ permFile' = SavedPerms(ps, w2)
           /\ faults' = faults + Failures(w1) + Failures(w2)
    BY <1>7, DeleteUserDoes, Zenon
  <2>4. QED
    BY <2>1, <2>2, <2>3, Zenon
<1>8. ASSUME NEW c \in Clients, NEW w \in Outcomes, Permit(c, w) PROVE OwnersInv'
  <2>0. UNCHANGED <<users, userFile>>
    BY <1>8, PermitDoes
  <2>1. CASE UNCHANGED <<perms, permFile, faults>>
    BY <1>1, <2>0, <2>1
  <2>2. ASSUME NEW ps \in Permissions, WritePerms(ps, w),
               \A e \in ps : e \in perms \/ Holds(users, e[1]) # {}
        PROVE  OwnersInv'
    <3> SUFFICES ASSUME faults' = 0
                 PROVE  /\ userFile'.users = users' /\ permFile'.perms = perms'
                        /\ Owned(users', perms')
      BY DEF OwnersInv, Owned, Holds
    <3>1. perms' = ps /\ permFile' = SavedPerms(ps, w) /\ faults' = faults + Failures(w)
      BY <2>2 DEF WritePerms
    <3>2. faults = 0 /\ Failures(w) = 0
      <4>1. Failures(w) \in Nat
        BY FailureCounts
      <4>2. QED
        BY <1>2, <3>1, <4>1
    <3>3. permFile'.perms = ps
      BY <1>2, <3>1, <3>2, FailureCounts, SavedPermsCases
    <3>4. userFile.users = users /\ Owned(users, perms)
      BY <3>2 DEF OwnersInv
    <3>5. Owned(users, ps)
      BY <2>2, <3>4 DEF Owned
    <3>6. QED
      BY <2>0, <3>1, <3>3, <3>4, <3>5
  <2>3. QED
    BY <1>8, <2>1, <2>2, PermitDoes
<1>9. CASE Restart
  <2> SUFFICES ASSUME faults' = 0
               PROVE  /\ userFile'.users = users' /\ permFile'.perms = perms'
                      /\ Owned(users', perms')
    BY DEF OwnersInv, Owned, Holds
  <2>1. /\ perms' = permFile'.perms
        /\ \E uf \in {userFile, NoUsers} :
             /\ users' = Loaded(uf.users)
             /\ faults' = 0 => /\ faults = 0 /\ uf = userFile /\ permFile' = permFile
                               /\ userFile'.users = users'
    BY <1>9, RestartDoes, Zenon
  <2>2. /\ faults = 0 /\ users' = Loaded(userFile.users) /\ permFile' = permFile
        /\ userFile'.users = users'
    BY <2>1
  <2>3. userFile.users = users /\ permFile.perms = perms /\ Owned(users, perms)
    BY <2>2 DEF OwnersInv
  <2>4. Owned(Loaded(users), perms)
    BY <1>2, <2>3, OwnedLoaded
  <2>5. QED
    BY <2>1, <2>2, <2>3, <2>4
<1>10. ASSUME NEW c \in Clients, Admit(c) \/ Read(c)
       PROVE  UNCHANGED <<users, userFile, perms, permFile, faults>>
  BY <1>10 DEF Admit, Read
<1>11. CASE UNCHANGED vars
  BY <1>1, <1>11 DEF vars
<1>12. QED
  BY <1>1, <1>3, <1>5, <1>6, <1>7, <1>8, <1>9, <1>10, <1>11 DEF Next, Handle

\* No permission outlives its user, so that a later user of the name starts without any,
\* however deletions, grants and creations overlap and however often the server restarts, as
\* long as no write fails - if every permission a server starts from has its user.
THEOREM PermissionsAreOwned ==
  ASSUME \A s \in Stored : Owned(s.users, s.perms)
  PROVE  Spec => []PermissionsHaveOwner
<1>1. Init => OwnersInv
  <2> SUFFICES ASSUME Init PROVE OwnersInv
    OBVIOUS
  <2>1. PICK s \in Stored : /\ users = Loaded(s.users) /\ perms = s.perms
                            /\ userFile = [cut |-> FALSE, users |-> users]
                            /\ permFile = [cut |-> FALSE, perms |-> perms]
    BY Zenon DEF Init
  <2>2. s.users \in Seq(User)
    BY AccountsAssumption
  <2>3. Owned(users, perms)
    BY <2>1, <2>2, OwnedLoaded
  <2>4. QED
    BY <2>1, <2>3 DEF OwnersInv
<1>2. TypeInv /\ OwnersInv /\ [Next]_vars => OwnersInv'
  BY OwnersStep
<1>3. OwnersInv => PermissionsHaveOwner
  BY DEF OwnersInv, Owned, PermissionsHaveOwner
<1>4. QED
  BY <1>1, <1>2, <1>3, TypeInvAlways, PTL DEF Spec

-----------------------------------------------------------------------------
(* There is always an administrator.                                          *)

\* Record i is an administrator whom requireAdmin finds: no earlier record has the name.
Leads(us, i) ==
  /\ i \in 1..Len(us) /\ us[i].role = "admin"
  /\ \A j \in 1..Len(us) : us[j].name = us[i].name => i <= j

\* No administrator is hidden behind a record with the same name, so that the administrators
\* DeleteUser counts are administrators requireAdmin finds.
NoHidden(us) == \A i \in 1..Len(us) : us[i].role = "admin" => Leads(us, i)

\* load adds "admin" at the end, maybe behind a user of that name: then nobody can ask for
\* anything that an administrator may.
Sound(us) == HasAdmin(us) => NoHidden(us)

AdminInv ==
  /\ HasAdmin(users) \/ demoted
  /\ HasAdmin(Loaded(userFile.users)) \/ demoted
  /\ Sound(users) /\ Sound(userFile.users)
  /\ NoHidden(users) \/ \A c \in Clients : at[c] # Idle => at[c].req.op \in SelfOps

LEMMA HasAdminLeads ==
  ASSUME NEW us \in Seq(User)
  PROVE  HasAdmin(us) <=> \E i \in 1..Len(us) : Leads(us, i)
<1>1. ASSUME NEW n \in Names, Lookup(us, n).role = "admin" PROVE \E i \in 1..Len(us) : Leads(us, i)
  <2>1. Holds(us, n) # {}
    <3>1. NoUser.role = None /\ None # "admin"
      BY NoneIsNothing DEF NoUser, Roles
    <3>2. QED
      BY <1>1, <3>1 DEF Lookup
  <2> HIDE DEF User
  <2>2. QED
    BY <1>1, <2>1, FirstUser, FirstHolds DEF Leads
<1>2. ASSUME NEW i \in 1..Len(us), Leads(us, i) PROVE HasAdmin(us)
  <2>1. us[i].name \in Names
    <3>1. us[i] \in User
      <4> HIDE DEF User
      <4>1. QED
        BY ElementOfSeq
    <3>2. QED
      BY <3>1 DEF User
  <2> HIDE DEF User
  <2>2. Holds(us, us[i].name) # {} /\ First(Holds(us, us[i].name)) = i
    BY <1>2, FirstIs DEF Leads
  <2>3. Lookup(us, us[i].name) = us[i]
    BY <2>2 DEF Lookup
  <2>4. QED
    BY <1>2, <2>1, <2>3 DEF HasAdmin, Leads
<1>3. QED
  BY <1>1, <1>2 DEF HasAdmin

LEMMA SameRights ==
  ASSUME NEW us \in Seq(User), NEW vs \in Seq(User), Len(vs) = Len(us),
         \A j \in 1..Len(us) : vs[j].name = us[j].name /\ vs[j].role = us[j].role
  PROVE  (HasAdmin(vs) <=> HasAdmin(us)) /\ (NoHidden(us) <=> NoHidden(vs))
<1> HIDE DEF User
<1>1. \A i : Leads(us, i) <=> Leads(vs, i)
  BY DEF Leads
<1>2. QED
  BY <1>1, HasAdminLeads DEF NoHidden

LEMMA RightsAdded ==
  ASSUME NEW us \in Seq(User), NEW vs \in Seq(User), Len(vs) = Len(us) + 1,
         \A j \in 1..Len(us) : vs[j] = us[j]
  PROVE  /\ HasAdmin(us) => HasAdmin(vs)
         /\ vs[Len(us) + 1].role = "user" => /\ HasAdmin(vs) <=> HasAdmin(us)
                                             /\ NoHidden(vs) <=> NoHidden(us)
         /\ Holds(us, vs[Len(us) + 1].name) = {} /\ NoHidden(us) => NoHidden(vs)
<1> HIDE DEF User
<1>1. Len(us) \in Nat
  OBVIOUS
<1>2. \A i \in 1..Len(us) : Leads(us, i) <=> Leads(vs, i)
  BY <1>1 DEF Leads
<1>3. HasAdmin(us) => HasAdmin(vs)
  <2>1. 1..Len(us) \subseteq 1..Len(vs)
    BY <1>1
  <2>2. QED
    BY <1>2, <2>1, HasAdminLeads
<1>4. vs[Len(us) + 1].role = "user" => ~Leads(vs, Len(us) + 1) /\ vs[Len(us) + 1].role # "admin"
  BY DEF Leads
<1>5. \A i \in 1..Len(vs) : i \in 1..Len(us) \/ i = Len(us) + 1
  BY <1>1
<1>6. \A i \in 1..Len(us) : i \in 1..Len(vs)
  BY <1>1
<1>7. ASSUME vs[Len(us) + 1].role = "user"
      PROVE  (HasAdmin(vs) <=> HasAdmin(us)) /\ (NoHidden(vs) <=> NoHidden(us))
  BY <1>2, <1>4, <1>5, <1>6, <1>7, HasAdminLeads DEF NoHidden
<1>8. ASSUME Holds(us, vs[Len(us) + 1].name) = {}, NoHidden(us) PROVE NoHidden(vs)
  <2>1. \A j \in 1..Len(us) : vs[j].name # vs[Len(us) + 1].name
    BY <1>8 DEF Holds
  <2>2. vs[Len(us) + 1].role = "admin" => Leads(vs, Len(us) + 1)
    BY <1>1, <2>1 DEF Leads
  <2>3. QED
    BY <1>2, <1>5, <1>8, <2>2 DEF NoHidden
<1>9. QED
  BY <1>3, <1>7, <1>8

\* An edit changes the first record with a name: whoever it makes an administrator is found.
LEMMA RightsChanged ==
  ASSUME NEW us \in Seq(User), NEW vs \in Seq(User), Len(vs) = Len(us), NoHidden(us),
         NEW i \in 1..Len(us), \A j \in 1..Len(us) : us[j].name = us[i].name => i <= j,
         vs[i].name = us[i].name, \A j \in 1..Len(us) : j # i => vs[j] = us[j]
  PROVE  NoHidden(vs)
<1> HIDE DEF User
<1>1. \A j \in 1..Len(us) : vs[j].name = us[j].name
  OBVIOUS
<1>2. SUFFICES ASSUME NEW k \in 1..Len(us), vs[k].role = "admin" PROVE Leads(vs, k)
  BY DEF NoHidden
<1>3. \A j \in 1..Len(us) : us[j].name = us[k].name => k <= j
  BY <1>2 DEF NoHidden, Leads
<1>4. QED
  BY <1>1, <1>2, <1>3 DEF Leads

LEMMA RightsWithout ==
  ASSUME NEW us \in Seq(User), NEW i \in 1..Len(us), NoHidden(us), MayDelete(us, i),
         \A j \in 1..Len(us) : us[j].name = us[i].name => i <= j
  PROVE  NoHidden(Without(us, i)) /\ (HasAdmin(us) => HasAdmin(Without(us, i)))
<1> DEFINE vs == Without(us, i)
<1>1. /\ vs \in Seq(User) /\ Len(vs) = Len(us) - 1 /\ Len(us) \in Nat
      /\ \A j \in 1..Len(us) - 1 : vs[j] = IF j < i THEN us[j] ELSE us[j + 1]
  <2> HIDE DEF User
  <2>1. QED
    BY WithoutElements
<1> HIDE DEF vs, User
<1> DEFINE old(j) == IF j < i THEN j ELSE j + 1
<1>2. \A j \in 1..Len(vs) : old(j) \in 1..Len(us) /\ vs[j] = us[old(j)]
  BY <1>1
<1>3. \A j, k \in 1..Len(vs) : old(j) <= old(k) => j <= k
  BY <1>1
<1>4. \A k \in 1..Len(us) : k # i => \E j \in 1..Len(vs) : old(j) = k
  <2> SUFFICES ASSUME NEW k \in 1..Len(us), k # i PROVE \E j \in 1..Len(vs) : old(j) = k
    OBVIOUS
  <2>1. CASE k < i
    <3>1. k \in 1..Len(vs) /\ old(k) = k
      BY <1>1, <2>1
    <3>2. QED
      BY <3>1
  <2>2. CASE k > i
    <3>1. k - 1 \in 1..Len(vs) /\ old(k - 1) = k
      BY <1>1, <2>2
    <3>2. QED
      BY <3>1
  <2>3. QED
    BY <1>1, <2>1, <2>2
<1> HIDE DEF old
<1>5. \A j \in 1..Len(vs) : Leads(us, old(j)) => Leads(vs, j)
  BY <1>2, <1>3 DEF Leads
<1>6. NoHidden(vs)
  BY <1>2, <1>5 DEF NoHidden
<1>7. ASSUME HasAdmin(us) PROVE \E k \in 1..Len(us) : k # i /\ Leads(us, k)
  <2>1. PICK k \in 1..Len(us) : Leads(us, k)
    BY <1>7, HasAdminLeads
  <2>2. CASE k = i
    <3> DEFINE A == {j \in 1..Len(us) : us[j].role = "admin"}
    <3>1. Cardinality(A) > 1
      BY <2>1, <2>2 DEF MayDelete, Leads
    <3>2. \E j \in A : j # i
      <4> SUFFICES ASSUME \A j \in A : j = i PROVE FALSE
        OBVIOUS
      <4>1. A \subseteq {i}
        OBVIOUS
      <4> HIDE DEF A
      <4>2. A = {} \/ A = {i}
        BY <4>1
      <4>3. Cardinality(A) = 0 \/ Cardinality(A) = 1
        BY <4>2, FS_EmptySet, FS_Singleton
      <4>4. QED
        BY <3>1, <4>3
    <3>3. QED
      BY <3>2 DEF NoHidden
  <2>3. QED
    BY <2>1, <2>2
<1>8. ASSUME HasAdmin(us) PROVE HasAdmin(vs)
  <2>1. PICK k \in 1..Len(us) : k # i /\ Leads(us, k)
    BY <1>7, <1>8
  <2>2. PICK j \in 1..Len(vs) : old(j) = k
    BY <1>4, <2>1
  <2>3. Leads(vs, j)
    BY <1>5, <2>1, <2>2
  <2>4. QED
    BY <1>1, <2>3, HasAdminLeads
<1>9. QED
  BY <1>6, <1>8 DEF vs

LEMMA RightsLoaded ==
  ASSUME NEW us \in Seq(User)
  PROVE  /\ Loaded(Loaded(us)) = Loaded(us)
         /\ HasAdmin(us) => Loaded(us) = us
         /\ Sound(us) => Sound(Loaded(us))
<1> DEFINE u == NewUser(Admin, "admin", TRUE)
           vs == Append(us, u)
<1>1. u \in User /\ u.role = "admin"
  BY NewUserType, AccountsAssumption DEF Roles
<1> HIDE DEF User
<1>2. /\ vs \in Seq(User) /\ Len(vs) = Len(us) + 1 /\ Len(us) \in Nat
      /\ \A j \in 1..Len(us) : vs[j] = us[j]
      /\ vs[Len(us) + 1].role = "admin"
  <2> HIDE DEF u
  <2>1. QED
    BY <1>1, AddedUser
<1>3. CASE \E i \in 1..Len(us) : us[i].role = "admin"
  BY <1>3 DEF Loaded
<1>4. CASE ~\E i \in 1..Len(us) : us[i].role = "admin"
  <2>1. Loaded(us) = vs
    BY <1>4 DEF Loaded
  <2> HIDE DEF vs
  <2>2. \E i \in 1..Len(vs) : vs[i].role = "admin"
    BY <1>2
  <2>3. Loaded(vs) = vs
    BY <2>2 DEF Loaded
  <2>4. ~HasAdmin(us)
    BY <1>4, HasAdminLeads DEF Leads
  <2>5. ASSUME HasAdmin(vs) PROVE NoHidden(vs)
    <3>1. \A i \in 1..Len(vs) : vs[i].role = "admin" => i = Len(us) + 1
      BY <1>2, <1>4
    <3>2. QED
      BY <1>2, <2>5, <3>1, HasAdminLeads DEF NoHidden, Leads
  <2>6. QED
    BY <2>1, <2>3, <2>4, <2>5 DEF Sound
<1>5. QED
  BY <1>3, <1>4

\* An empty list of users becomes one administrator.
LEMMA RightsOfNobody ==
  /\ <<>> \in Seq(User) /\ Sound(<<>>) /\ HasAdmin(Loaded(<<>>))
<1> DEFINE u == NewUser(Admin, "admin", TRUE)
           vs == Append(<<>>, u)
<1>1. u \in User /\ u.role = "admin"
  BY NewUserType, AccountsAssumption DEF Roles
<1> HIDE DEF User
<1>2. <<>> \in Seq(User) /\ Sound(<<>>) /\ Loaded(<<>>) = vs
  <2>1. <<>> \in Seq(User) /\ Len(<<>>) = 0
    OBVIOUS
  <2>2. 1..0 = {}
    OBVIOUS
  <2>3. \A i \in 1..Len(<<>>) : FALSE
    BY <2>1, <2>2
  <2>4. NoHidden(<<>>)
    BY <2>3 DEF NoHidden
  <2>5. Loaded(<<>>) = vs
    BY <2>3, Zenon DEF Loaded
  <2>6. QED
    BY <2>1, <2>4, <2>5 DEF Sound
<1>3. vs \in Seq(User) /\ Len(vs) = 1 /\ vs[1].role = "admin"
  <2> HIDE DEF u
  <2>1. Len(<<>>) = 0
    OBVIOUS
  <2>2. QED
    BY <1>1, <1>2, <2>1, AddedUser
<1> HIDE DEF vs
<1>4. 1 \in 1..Len(vs) /\ Leads(vs, 1)
  BY <1>3 DEF Leads
<1>5. HasAdmin(vs)
  BY <1>3, <1>4, HasAdminLeads, Zenon
<1>6. QED
  BY <1>2, <1>5

SelfOnly == \A c \in Clients : at[c] # Idle => at[c].req.op \in SelfOps

LEMMA AdminInvPrimed ==
  ASSUME HasAdmin(users') \/ demoted', HasAdmin(Loaded(userFile'.users)) \/ demoted',
         Sound(users'), Sound(userFile'.users), NoHidden(users') \/ SelfOnly'
  PROVE  AdminInv'
BY Zenon DEF AdminInv, SelfOnly, HasAdmin, Loaded, Sound, NoHidden, Leads, Lookup, Holds, First,
             NewUser, NoUser

LEMMA RightsWritten ==
  ASSUME UsersOK, AdminInv, NEW us \in Seq(User), users' = us,
         userFile'.users \in {us, userFile.users, <<>>},
         Sound(us), HasAdmin(us) \/ demoted', demoted => demoted', NoHidden(us) \/ SelfOnly'
  PROVE  AdminInv'
<1>1. HasAdmin(us) => HasAdmin(Loaded(us))
  BY RightsLoaded
<1>2. HasAdmin(Loaded(<<>>)) /\ Sound(<<>>)
  BY RightsOfNobody
<1>3. HasAdmin(Loaded(userFile.users)) \/ demoted'
  BY DEF AdminInv
<1>4. HasAdmin(Loaded(userFile'.users)) \/ demoted'
  BY <1>1, <1>2, <1>3
<1>5. Sound(userFile'.users)
  BY <1>2 DEF AdminInv
<1>6. QED
  BY <1>4, <1>5, AdminInvPrimed

\* A handler that answers leaves the others at their requests.
LEMMA SelfOnlyAnswer ==
  ASSUME HandlersOK, NEW c \in Clients, Answer(c)
  PROVE  SelfOnly => SelfOnly'
<1>1. \A d \in Clients : at'[d] = IF d = c THEN Idle ELSE at[d]
  BY DEF HandlersOK, Answer
<1>2. QED
  BY <1>1 DEF SelfOnly

LEMMA AdminChangeUser ==
  ASSUME TypeInv, AdminInv, NEW c \in Clients, NEW w \in Outcomes, ChangeUser(c, w),
         ~UNCHANGED <<users, userFile, demoted>>
  PROVE  AdminInv'
<1> DEFINE us == ChangedList(c)
           i == Target(c)
<1>1. /\ at[c] # Idle /\ at[c].req \in Requests /\ Grounded(at[c].req, at[c].seen)
      /\ Answer(c)
      /\ i \in 1..Len(users) /\ users[i] \in User /\ users[i].name = at[c].req.name
      /\ Lookup(users, at[c].req.name) = users[i]
      /\ NewRecord(c) \in User /\ us \in Seq(User) /\ WriteUsers(us, w)
      /\ demoted' = (demoted \/ (HasAdmin(users) /\ ~HasAdmin(us)))
  BY ChangeUserDoes
<1>2. users \in Seq(User) /\ UsersOK /\ HandlersOK /\ fresh \in Nat
  BY DEF TypeInv, UsersOK, CountersOK
<1>3. /\ NewRecord(c).name = users[i].name
      /\ at[c].req.op # "update" => NewRecord(c).role = users[i].role
  BY <1>1, <1>2, ChangedUser DEF NewRecord
<1> HIDE DEF User
<1>4. /\ Len(us) = Len(users)
      /\ \A j \in 1..Len(users) : us[j] = IF j = i THEN NewRecord(c) ELSE users[j]
  BY <1>1, <1>2, ChangedUsers DEF ChangedList
<1>5. users' = us /\ userFile'.users \in {us, userFile.users, <<>>}
  BY <1>1, <1>2, SavedUsersCases DEF WriteUsers
<1>6. \A j \in 1..Len(users) : users[j].name = users[i].name => i <= j
  <2>1. users[i].name = at[c].req.name
    BY <1>1
  <2>2. Holds(users, at[c].req.name) # {}
    BY <1>1 DEF Holds
  <2>3. QED
    BY <1>2, <2>1, <2>2, FirstHolds DEF Target
<1> HIDE DEF us, i
<1>7. /\ HasAdmin(us) \/ demoted'
      /\ demoted => demoted'
  BY <1>1, Zenon DEF AdminInv
<1>8. Sound(us) /\ (NoHidden(us) \/ SelfOnly')
  <2>1. CASE NoHidden(users)
    <3>1. NoHidden(us)
      BY <1>1, <1>2, <1>3, <1>4, <1>6, <2>1, RightsChanged
    <3>2. QED
      BY <3>1 DEF Sound
  <2>2. CASE ~NoHidden(users)
    <3>1. SelfOnly
      BY <2>2 DEF AdminInv, SelfOnly
    <3>2. at[c].req.op # "update"
      BY <1>1, <3>1 DEF SelfOnly, SelfOps
    <3>3. \A j \in 1..Len(users) : us[j].name = users[j].name /\ us[j].role = users[j].role
      BY <1>3, <1>4, <3>2
    <3>4. HasAdmin(us) <=> HasAdmin(users)
      BY <1>1, <1>2, <1>4, <3>3, SameRights
    <3>5. ~HasAdmin(users)
      BY <2>2 DEF AdminInv, Sound
    <3>6. SelfOnly'
      BY <1>1, <1>2, <3>1, SelfOnlyAnswer
    <3>7. QED
      BY <3>4, <3>5, <3>6 DEF Sound
  <2>3. QED
    BY <2>1, <2>2
<1>9. QED
  BY <1>1, <1>2, <1>5, <1>7, <1>8, RightsWritten

LEMMA AdminCreateUser ==
  ASSUME TypeInv, AdminInv, NEW c \in Clients, NEW w \in Outcomes, CreateUser(c, w),
         ~UNCHANGED <<users, userFile>>
  PROVE  AdminInv'
<1>1. /\ at[c] # Idle /\ at[c].req.op = "create" /\ UNCHANGED demoted
      /\ \E u \in User : Holds(users, u.name) = {} /\ WriteUsers(Append(users, u), w)
  BY CreateUserDoes
<1>2. users \in Seq(User) /\ UsersOK
  BY DEF TypeInv, UsersOK
<1> HIDE DEF User
<1>3. PICK u \in User : Holds(users, u.name) = {} /\ WriteUsers(Append(users, u), w)
  BY <1>1
<1> DEFINE us == Append(users, u)
<1>4. /\ us \in Seq(User) /\ Len(us) = Len(users) + 1
      /\ \A j \in 1..Len(users) : us[j] = users[j]
      /\ us[Len(users) + 1] = u
  BY <1>2, AddedUser
<1>5. WriteUsers(us, w)
  BY <1>3
<1> HIDE DEF us
<1>6. users' = us /\ userFile'.users \in {us, userFile.users, <<>>}
  BY <1>2, <1>4, <1>5, SavedUsersCases DEF WriteUsers
<1>7. NoHidden(users)
  BY <1>1 DEF AdminInv, SelfOps
<1>8. NoHidden(us) /\ (HasAdmin(users) => HasAdmin(us))
  BY <1>2, <1>3, <1>4, <1>7, RightsAdded
<1>9. HasAdmin(us) \/ demoted'
  BY <1>1, <1>8 DEF AdminInv
<1>10. QED
  BY <1>1, <1>2, <1>4, <1>6, <1>8, <1>9, RightsWritten DEF Sound

LEMMA AdminDeleteUser ==
  ASSUME TypeInv, AdminInv, NEW c \in Clients, NEW w1 \in Outcomes, NEW w2 \in Outcomes,
         DeleteUser(c, w1, w2), ~UNCHANGED <<users, userFile>>
  PROVE  AdminInv'
<1> DEFINE us == Without(users, Target(c))
           i == Target(c)
<1>1. /\ at[c] # Idle /\ at[c].req.op = "delete" /\ UNCHANGED demoted
      /\ i \in 1..Len(users) /\ users[i].name = at[c].req.name
      /\ MayDelete(users, i)
      /\ \A j \in 1..Len(users) : users[j].name = at[c].req.name => i <= j
      /\ us \in Seq(User) /\ users' = us /\ userFile' = SavedUsers(us, w1)
  BY DeleteUserDoes
<1>2. users \in Seq(User) /\ UsersOK
  BY DEF TypeInv, UsersOK
<1>3. NoHidden(users)
  BY <1>1 DEF AdminInv, SelfOps
<1> HIDE DEF User, i
<1>4. NoHidden(us) /\ (HasAdmin(users) => HasAdmin(us))
  <2>1. \A j \in 1..Len(users) : users[j].name = users[i].name => i <= j
    BY <1>1
  <2>2. NoHidden(Without(users, i)) /\ (HasAdmin(users) => HasAdmin(Without(users, i)))
    BY <1>1, <1>2, <1>3, <2>1, RightsWithout
  <2>3. QED
    BY <2>2 DEF i
<1> HIDE DEF us
<1>5. userFile'.users \in {us, userFile.users, <<>>}
  BY <1>1, <1>2, SavedUsersCases
<1>6. HasAdmin(us) \/ demoted'
  BY <1>1, <1>4 DEF AdminInv
<1>7. QED
  BY <1>1, <1>2, <1>4, <1>5, <1>6, RightsWritten DEF Sound

LEMMA AdminFeishuLogin ==
  ASSUME TypeInv, AdminInv, NEW a \in FeishuAccounts, NEW w \in Outcomes, FeishuLogin(a, w)
  PROVE  AdminInv'
<1>1. UNCHANGED <<at, demoted>>
  BY FeishuLoginDoes
<1>2. users \in Seq(User) /\ UsersOK
  BY DEF TypeInv, UsersOK
<1>3. ASSUME NEW us \in Seq(User), WriteUsers(us, w), HasAdmin(us) <=> HasAdmin(users),
             NoHidden(us) <=> NoHidden(users)
      PROVE  AdminInv'
  <2> HIDE DEF User
  <2>1. users' = us /\ userFile'.users \in {us, userFile.users, <<>>}
    BY <1>2, <1>3, SavedUsersCases DEF WriteUsers
  <2>2. Sound(us) /\ (HasAdmin(us) \/ demoted')
    BY <1>1, <1>3 DEF AdminInv, Sound
  <2>3. NoHidden(us) \/ SelfOnly'
    BY <1>1, <1>3 DEF AdminInv, SelfOnly
  <2>4. QED
    BY <1>1, <1>2, <1>3, <2>1, <2>2, <2>3, RightsWritten
<1>4. ASSUME NEW i \in 1..Len(users), WriteUsers(Bound(users, i, a.id), w) PROVE AdminInv'
  <2> DEFINE us == Bound(users, i, a.id)
  <2> HIDE DEF User
  <2>1. /\ us \in Seq(User) /\ Len(us) = Len(users)
        /\ \A j \in 1..Len(users) : us[j].name = users[j].name /\ us[j].role = users[j].role
    BY <1>2, BoundUser
  <2>2. WriteUsers(us, w)
    BY <1>4
  <2> HIDE DEF us
  <2>3. QED
    BY <1>2, <1>3, <2>1, <2>2, SameRights
<1>5. ASSUME NEW u \in User, u.role = "user", WriteUsers(Append(users, u), w) PROVE AdminInv'
  <2> DEFINE us == Append(users, u)
  <2> HIDE DEF User
  <2>1. /\ us \in Seq(User) /\ Len(us) = Len(users) + 1
        /\ \A j \in 1..Len(users) : us[j] = users[j]
        /\ us[Len(users) + 1] = u
    BY <1>2, AddedUser
  <2>2. WriteUsers(us, w)
    BY <1>5
  <2> HIDE DEF us
  <2>3. QED
    BY <1>2, <1>3, <1>5, <2>1, <2>2, RightsAdded
<1>6. QED
  BY <1>4, <1>5, FeishuLoginDoes

LEMMA AdminRestart ==
  ASSUME TypeInv, AdminInv, Restart
  PROVE  AdminInv'
<1>1. /\ at' = [c \in Clients |-> Idle]
      /\ demoted' = (demoted /\ ~HasAdmin(users'))
  BY RestartDoes
<1>2. PICK uf \in {userFile, NoUsers} :
        /\ uf.users \in Seq(User) /\ users' = Loaded(uf.users)
        /\ userFile' \in {uf, NoUsers, [cut |-> FALSE, users |-> users']}
  BY RestartDoes, Zenon
<1>3. HasAdmin(Loaded(<<>>)) /\ Sound(<<>>)
  BY RightsOfNobody
<1>4. Sound(uf.users) /\ (HasAdmin(Loaded(uf.users)) \/ demoted)
  BY <1>2, <1>3 DEF AdminInv, NoUsers
<1>5. Loaded(users') = users' /\ Sound(users')
  BY <1>2, <1>4, RightsLoaded
<1>6. HasAdmin(users') \/ demoted'
  BY <1>1, <1>2, <1>4
<1>7. userFile'.users \in {uf.users, <<>>, users'}
  BY <1>2 DEF NoUsers
<1>8. Sound(userFile'.users) /\ (HasAdmin(Loaded(userFile'.users)) \/ demoted')
  BY <1>2, <1>3, <1>4, <1>5, <1>6, <1>7
<1>9. SelfOnly'
  BY <1>1 DEF SelfOnly
<1>10. QED
  BY <1>5, <1>6, <1>8, <1>9, AdminInvPrimed

\* While an administrator is hidden there is none whom requireAdmin finds: only requests of
\* users about themselves are let through.
LEMMA AdminAdmit ==
  ASSUME TypeInv, AdminInv, NEW c \in Clients, Admit(c)
  PROVE  AdminInv'
<1>1. PICK r \in Requests :
        /\ Allowed(r)
        /\ at' = [at EXCEPT ![c] = [pc |-> "admitted", req |-> r, seen |-> NoUser]]
        /\ UNCHANGED <<users, userFile, demoted>>
  BY Zenon DEF Admit
<1>2. NoHidden(users') \/ SelfOnly'
  <2>1. CASE NoHidden(users)
    BY <1>1, <2>1
  <2>2. CASE ~NoHidden(users)
    <3>1. SelfOnly /\ ~HasAdmin(users)
      BY <2>2 DEF AdminInv, SelfOnly, Sound
    <3>2. r.op \in SelfOps
      BY <1>1, <3>1 DEF Allowed, HasAdmin
    <3> DEFINE l == [pc |-> "admitted", req |-> r, seen |-> NoUser]
    <3>3. l.req = r
      OBVIOUS
    <3>4. at' = [at EXCEPT ![c] = l]
      BY <1>1
    <3> HIDE DEF l
    <3>5. \A d \in Clients : at'[d] = IF d = c THEN l ELSE at[d]
      BY <3>4 DEF TypeInv, HandlersOK
    <3>6. SelfOnly'
      BY <3>1, <3>2, <3>3, <3>5 DEF SelfOnly
    <3>7. QED
      BY <3>6
  <2>3. QED
    BY <2>1, <2>2
<1>3. /\ HasAdmin(users') \/ demoted'
      /\ HasAdmin(Loaded(userFile'.users)) \/ demoted'
      /\ Sound(users') /\ Sound(userFile'.users)
  BY <1>1 DEF AdminInv
<1>4. QED
  BY <1>2, <1>3, AdminInvPrimed

LEMMA AdminRead ==
  ASSUME TypeInv, AdminInv, NEW c \in Clients, Read(c)
  PROVE  AdminInv'
<1>1. /\ at[c].pc = "admitted"
      /\ \/ \E u \in User \cup {NoUser} : at' = [at EXCEPT ![c].pc = "read", ![c].seen = u]
         \/ Answer(c)
      /\ UNCHANGED <<users, userFile, demoted>>
  <2>1. Lookup(users, at[c].req.name) \in User \cup {NoUser}
    BY LookupType DEF TypeInv, UsersOK
  <2>2. QED
    BY <2>1, Zenon DEF Read
<1>2. at[c] # Idle
  BY <1>1, WriterAt
<1>3. SelfOnly => SelfOnly'
  <2>1. ASSUME NEW u, at' = [at EXCEPT ![c].pc = "read", ![c].seen = u] PROVE SelfOnly => SelfOnly'
    <3> DEFINE l == [at[c] EXCEPT !.pc = "read", !.seen = u]
    <3>1. l.req = at[c].req
      <4>1. at[c] \in Local
        BY DEF TypeInv, HandlersOK
      <4>2. QED
        BY <4>1 DEF Local
    <3>2. at' = [at EXCEPT ![c] = l]
      BY <2>1
    <3> HIDE DEF l
    <3>3. \A d \in Clients : at'[d] = IF d = c THEN l ELSE at[d]
      BY <3>2 DEF TypeInv, HandlersOK
    <3>4. QED
      BY <1>2, <3>1, <3>3 DEF SelfOnly
  <2>2. CASE Answer(c)
    BY <2>2, SelfOnlyAnswer DEF TypeInv
  <2>3. QED
    BY <1>1, <2>1, <2>2
<1>4. /\ HasAdmin(users') \/ demoted'
      /\ HasAdmin(Loaded(userFile'.users)) \/ demoted'
      /\ Sound(users') /\ Sound(userFile'.users)
  BY <1>1 DEF AdminInv
<1>5. NoHidden(users') \/ SelfOnly'
  BY <1>1, <1>3 DEF AdminInv, SelfOnly
<1>6. QED
  BY <1>4, <1>5, AdminInvPrimed

LEMMA AdminStep ==
  ASSUME TypeInv, AdminInv, [Next]_vars
  PROVE  AdminInv'
\* A step that leaves the users alone, and the handlers or all but one that answers.
<1>1. ASSUME UNCHANGED <<users, userFile, demoted>>, SelfOnly => SelfOnly' PROVE AdminInv'
  <2>1. /\ HasAdmin(users') \/ demoted'
        /\ HasAdmin(Loaded(userFile'.users)) \/ demoted'
        /\ Sound(users') /\ Sound(userFile'.users)
    BY <1>1 DEF AdminInv
  <2>2. NoHidden(users') \/ SelfOnly'
    BY <1>1 DEF AdminInv, SelfOnly
  <2>3. QED
    BY <2>1, <2>2, AdminInvPrimed
<1>2. ASSUME NEW c \in Clients, Answer(c) PROVE SelfOnly => SelfOnly'
  BY <1>2, SelfOnlyAnswer DEF TypeInv
<1>3. ASSUME NEW c \in Clients, Admit(c) \/ Read(c) PROVE AdminInv'
  BY <1>3, AdminAdmit, AdminRead
<1>4. ASSUME NEW c \in Clients, NEW w \in Outcomes, ChangeUser(c, w) PROVE AdminInv'
  <2>1. Answer(c)
    BY <1>4, ChangeUserDoes
  <2>2. QED
    BY <1>1, <1>2, <1>4, <2>1, AdminChangeUser
<1>5. ASSUME NEW c \in Clients, NEW w \in Outcomes, CreateUser(c, w) PROVE AdminInv'
  <2>1. Answer(c) /\ UNCHANGED demoted
    BY <1>5, CreateUserDoes
  <2>2. QED
    BY <1>1, <1>2, <1>5, <2>1, AdminCreateUser
<1>6. ASSUME NEW c \in Clients, NEW w1 \in Outcomes, NEW w2 \in Outcomes, DeleteUser(c, w1, w2)
      PROVE  AdminInv'
  <2>1. Answer(c) /\ UNCHANGED demoted
    BY <1>6, DeleteUserDoes
  <2>2. QED
    BY <1>1, <1>2, <1>6, <2>1, AdminDeleteUser
<1>7. ASSUME NEW c \in Clients, NEW w \in Outcomes, Permit(c, w) PROVE AdminInv'
  <2>1. Answer(c) /\ UNCHANGED <<users, userFile, demoted>>
    BY <1>7, PermitDoes
  <2>2. QED
    BY <1>1, <1>2, <2>1
<1>8. ASSUME NEW a \in FeishuAccounts, NEW w \in Outcomes, FeishuLogin(a, w) PROVE AdminInv'
  BY <1>8, AdminFeishuLogin
<1>9. CASE Restart
  BY <1>9, AdminRestart
<1>10. CASE UNCHANGED vars
  <2>1. SelfOnly => SelfOnly'
    BY <1>10 DEF vars, SelfOnly
  <2>2. QED
    BY <1>1, <1>10, <2>1 DEF vars
<1>11. QED
  BY <1>3, <1>4, <1>5, <1>6, <1>7, <1>8, <1>9, <1>10 DEF Next, Handle

\* There is always an administrator whom requireAdmin lets through - when administrators
\* delete each other at the same time, when writes fail and files are lost, and after a
\* restart - unless an edit took the role from the last one: if a server starts with one, and
\* with no administrator hidden behind another user of the same name.
THEOREM AdministratorRemains ==
  ASSUME \A s \in Stored : HasAdmin(Loaded(s.users)) /\ NoHidden(s.users)
  PROVE  Spec => []AdminRemains
<1>1. Init => AdminInv
  <2> SUFFICES ASSUME Init PROVE AdminInv
    OBVIOUS
  <2>1. PICK s \in Stored : /\ users = Loaded(s.users)
                            /\ userFile = [cut |-> FALSE, users |-> users]
                            /\ at = [c \in Clients |-> Idle]
    BY Zenon DEF Init
  <2>2. s.users \in Seq(User)
    BY AccountsAssumption
  <2>3. HasAdmin(users) /\ Loaded(users) = users /\ Sound(users)
    BY <2>1, <2>2, RightsLoaded DEF Sound
  <2>4. userFile.users = users /\ NoHidden(users)
    BY <2>1, <2>3 DEF Sound
  <2>5. QED
    BY <2>3, <2>4 DEF AdminInv
<1>2. TypeInv /\ AdminInv /\ [Next]_vars => AdminInv'
  BY AdminStep
<1>3. AdminInv => AdminRemains
  BY DEF AdminInv, AdminRemains
<1>4. QED
  BY <1>1, <1>2, <1>3, TypeInvAlways, PTL DEF Spec

-----------------------------------------------------------------------------
(* Who may change the rights and the second factor of a user.                 *)

LEMMA ChangedRights ==
  ASSUME NEW u \in User, NEW r \in Requests, NEW seen, fresh \in Nat, Grounded(r, seen)
  PROVE  /\ Changed(u, r, seen).role = "admin" /\ u.role # "admin"
              => r.op = "update" /\ (r.role = "admin" \/ seen # u)
         /\ Changed(u, r, seen).enabled /\ ~u.enabled
              => r.op = "update" /\ (r.on = TRUE \/ seen # u)
<1>1. CASE r.op # "update"
  BY <1>1, ChangedUser
<1>2. CASE r.op = "update"
  <2> DEFINE role == IF r.role = None THEN seen.role ELSE r.role
             on == IF r.on = None THEN seen.enabled ELSE r.on
  <2>1. Changed(u, r, seen) = [u EXCEPT !.role = role, !.enabled = on]
    BY <1>2 DEF Changed, Edited
  <2>2. role = "admin" /\ u.role # "admin" => r.role = "admin" \/ seen # u
    OBVIOUS
  <2>3. on /\ ~u.enabled => r.on = TRUE \/ seen # u
    <3>1. CASE r.on = None
      BY <3>1, Zenon
    <3>2. CASE r.on # None
      <4>1. r.on \in BOOLEAN
        BY <1>2, <3>2, RequestFields
      <4>2. QED
        BY <3>2, <4>1
    <3>3. QED
      BY <3>1, <3>2
  <2> HIDE DEF role, on
  <2>4. [u EXCEPT !.role = role, !.enabled = on].role = role
    BY DEF User
  <2>5. [u EXCEPT !.role = role, !.enabled = on].enabled = on
    BY DEF User
  <2>6. QED
    BY <1>2, <2>1, <2>2, <2>3, <2>4, <2>5, Zenon
<1>3. QED
  BY <1>1, <1>2

LEMMA ChangedFactor ==
  ASSUME NEW u \in User, NEW r \in Requests, NEW seen, fresh \in Nat, Grounded(r, seen),
         u.mfa, ~(Changed(u, r, seen).mfa /\ Changed(u, r, seen).secret = u.secret)
  PROVE  \/ r.op \in {"disable", "reset"}
         \/ r.op = "mfa" /\ r.on = FALSE
         \/ r.op \in {"setup", "enable", "mfa"} /\ seen # u
<1>1. r.op # "update"
  <2> SUFFICES ASSUME r.op = "update" PROVE FALSE
    OBVIOUS
  <2>1. Changed(u, r, seen) = Edited(u, r, seen)
    BY DEF Changed
  <2>2. seen \in User
    BY DEF Grounded, ReadFirst
  <2>3. Edited(u, r, seen).mfa = u.mfa /\ Edited(u, r, seen).secret = u.secret
    BY <2>2, EditedUser
  <2>4. QED
    BY <2>1, <2>3
<1>2. r.op \notin {"token", "untoken"}
  <2>1. ASSUME NEW t \in Nat, Changed(u, r, seen) = [u EXCEPT !.token = t] PROVE FALSE
    <3>1. [u EXCEPT !.token = t].mfa = u.mfa
      BY DEF User
    <3>2. [u EXCEPT !.token = t].secret = u.secret
      BY DEF User
    <3>3. QED
      BY <2>1, <3>1, <3>2
  <2>2. r.op = "token" => Changed(u, r, seen) = [u EXCEPT !.token = fresh + 1]
    BY DEF Changed
  <2>3. r.op = "untoken" => Changed(u, r, seen) = [u EXCEPT !.token = 0]
    BY DEF Changed
  <2>4. QED
    BY <2>1, <2>2, <2>3
<1>3. Changed(u, r, seen) = Factor(u, r, seen)
  BY <1>1, <1>2 DEF Changed
<1>4. r.op \in {"setup", "enable", "disable", "reset", "mfa"} /\ Proceeds(r, seen)
  BY <1>1, <1>2 DEF Grounded, ReadFirst
<1>5. ASSUME NEW s, Factor(u, r, seen) = [u EXCEPT !.mfa = TRUE, !.secret = s] PROVE s # u.secret
  <2>1. [u EXCEPT !.mfa = TRUE, !.secret = s].mfa = TRUE
    BY DEF User
  <2>2. [u EXCEPT !.mfa = TRUE, !.secret = s].secret = s
    BY DEF User
  <2>3. QED
    BY <1>3, <1>5, <2>1, <2>2
<1>6. CASE r.op = "setup"
  <2>1. ~seen.mfa
    BY <1>4, <1>6 DEF Proceeds
  <2>2. QED
    BY <1>6, <2>1
<1>7. CASE r.op = "enable"
  <2>1. seen.secret # u.secret
    BY <1>5, <1>7 DEF Factor
  <2>2. QED
    BY <1>7, <2>1
<1>8. CASE r.op = "mfa"
  <2>1. r.on \in BOOLEAN
    BY <1>8, RequestFields
  <2>2. CASE r.on = TRUE
    <3>1. Factor(u, r, seen) = [u EXCEPT !.mfa = TRUE, !.secret = seen.secret]
      BY <1>8, <2>2 DEF Factor
    <3>2. QED
      BY <1>5, <1>8, <3>1
  <2>3. QED
    BY <1>8, <2>1, <2>2
<1>9. QED
  BY <1>4, <1>6, <1>7, <1>8

\* Where all records keep their names, a name stands for the record at the same place.
LEMMA LookupKept ==
  ASSUME NEW us \in Seq(User), NEW vs \in Seq(User), Len(vs) = Len(us),
         \A j \in 1..Len(us) : vs[j].name = us[j].name, NEW n
  PROVE  \/ Holds(us, n) = {} /\ Lookup(vs, n) = Lookup(us, n)
         \/ /\ Holds(us, n) # {} /\ First(Holds(us, n)) \in 1..Len(us)
            /\ us[First(Holds(us, n))].name = n
            /\ us[First(Holds(us, n))] \in User
            /\ Lookup(us, n) = us[First(Holds(us, n))]
            /\ Lookup(vs, n) = vs[First(Holds(us, n))]
<1>1. Holds(us, n) # {} => us[First(Holds(us, n))] \in User
  BY FirstUser
<1> HIDE DEF User
<1>2. Holds(vs, n) = Holds(us, n)
  BY DEF Holds
<1>3. QED
  BY <1>1, <1>2, FirstHolds DEF Lookup

\* What a user may still do and how the user logs in.
SameUser(u, v) == v.role = u.role /\ v.enabled = u.enabled /\ v.mfa = u.mfa /\ v.secret = u.secret

\* The request of client c makes the record v of the user n from the record u.
Makes(c, n, u, v) ==
  /\ Answers(c, n) /\ u = Lookup(users, n) /\ u \in User
  /\ at[c].req \in Requests /\ Grounded(at[c].req, at[c].seen)
  /\ at[c].req.op \in ReadFirst => at[c].pc = "read"
  /\ v = Changed(u, at[c].req, at[c].seen)

LEMMA ChangeUserMakes ==
  ASSUME TypeInv, NEW c \in Clients, NEW w \in Outcomes, ChangeUser(c, w), NEW n \in Names
  PROVE  \/ Lookup(users', n) = Lookup(users, n)
         \/ Makes(c, n, Lookup(users, n), Lookup(users', n))
<1> DEFINE us == ChangedList(c)
           i == Target(c)
           m == at[c].req.name
<1>1. CASE UNCHANGED users
  BY <1>1
<1>2. CASE ~UNCHANGED users
  <2>1. /\ at[c] # Idle /\ at[c].req \in Requests /\ Grounded(at[c].req, at[c].seen)
        /\ Answer(c)
        /\ i \in 1..Len(users) /\ users[i] \in User /\ users[i].name = m
        /\ Lookup(users, m) = users[i]
        /\ NewRecord(c) \in User /\ us \in Seq(User) /\ WriteUsers(us, w)
    BY <1>2, ChangeUserDoes
  <2>2. users \in Seq(User) /\ fresh \in Nat
    BY DEF TypeInv, UsersOK, CountersOK
  <2>3. NewRecord(c).name = users[i].name
    BY <2>1, <2>2, ChangedUser DEF NewRecord
  <2>4. at[c].req.op \in ReadFirst => at[c].pc = "read"
    BY DEF ChangeUser, ReadFirst
  <2>5. Answers(c, m)
    <3>1. at'[c] = Idle
      BY <2>1 DEF Answer, TypeInv, HandlersOK
    <3>2. QED
      BY <2>1, <3>1 DEF Answers
  <2> HIDE DEF User
  <2>6. /\ Len(us) = Len(users)
        /\ \A j \in 1..Len(users) : us[j] = IF j = i THEN NewRecord(c) ELSE users[j]
    BY <2>1, <2>2, ChangedUsers DEF ChangedList
  <2>7. users' = us
    BY <2>1 DEF WriteUsers
  <2> HIDE DEF us
  <2>8. \A j \in 1..Len(users) : us[j].name = users[j].name
    BY <2>3, <2>6
  <2>9. CASE n = m
    <3>1. Holds(users, m) # {}
      BY <2>1 DEF Holds
    <3>2. Lookup(us, m) = us[i]
      BY <2>1, <2>2, <2>6, <2>8, <3>1, LookupKept DEF Target
    <3>3. Lookup(us, m) = Changed(Lookup(users, m), at[c].req, at[c].seen)
      BY <2>1, <2>6, <3>2 DEF NewRecord
    <3>4. Lookup(users, m) \in User
      BY <2>1
    <3>5. QED
      BY <2>1, <2>4, <2>5, <2>7, <2>9, <3>3, <3>4 DEF Makes
  <2>10. CASE n # m
    <3>1. \/ Lookup(us, n) = Lookup(users, n)
          \/ /\ First(Holds(users, n)) \in 1..Len(users)
             /\ users[First(Holds(users, n))].name = n
             /\ Lookup(users, n) = users[First(Holds(users, n))]
             /\ Lookup(us, n) = us[First(Holds(users, n))]
      BY <2>1, <2>2, <2>6, <2>8, LookupKept
    <3>2. QED
      BY <2>1, <2>6, <2>7, <2>10, <3>1
  <2>11. QED
    BY <2>9, <2>10
<1>3. QED
  BY <1>1, <1>2

LEMMA FeishuLoginKeeps ==
  ASSUME TypeInv, NEW a \in FeishuAccounts, NEW w \in Outcomes, FeishuLogin(a, w), SameUsers,
         NEW n \in Names
  PROVE  SameUser(Lookup(users, n), Lookup(users', n))
<1>1. users \in Seq(User)
  BY DEF TypeInv, UsersOK
<1>2. ASSUME NEW i \in 1..Len(users), WriteUsers(Bound(users, i, a.id), w)
      PROVE  SameUser(Lookup(users, n), Lookup(users', n))
  <2> DEFINE us == Bound(users, i, a.id)
  <2> HIDE DEF User
  <2>1. /\ us \in Seq(User) /\ Len(us) = Len(users)
        /\ \A j \in 1..Len(users) : us[j].name = users[j].name /\ SameUser(users[j], us[j])
    BY <1>1, BoundUser, Zenon DEF SameUser
  <2>2. users' = us
    BY <1>2 DEF WriteUsers
  <2> HIDE DEF us
  <2>3. \/ Lookup(us, n) = Lookup(users, n)
        \/ \E j \in 1..Len(users) : Lookup(users, n) = users[j] /\ Lookup(us, n) = us[j]
    BY <1>1, <2>1, LookupKept
  <2>4. SameUser(Lookup(users, n), Lookup(users, n))
    BY DEF SameUser
  <2>5. QED
    BY <2>1, <2>2, <2>3, <2>4
<1>3. ASSUME NEW u \in User, WriteUsers(Append(users, u), w) PROVE FALSE
  <2> HIDE DEF User
  <2>1. Len(Append(users, u)) = Len(users) + 1 /\ Len(users) \in Nat
    BY <1>1, AddedUser
  <2>2. Len(users') = Len(users) /\ users' = Append(users, u)
    BY <1>3 DEF SameUsers, WriteUsers
  <2>3. QED
    BY <2>1, <2>2
<1>4. QED
  BY <1>2, <1>3, FeishuLoginDoes

\* In a step that adds and removes no user, the user n stays, or a request makes it what it is.
LEMMA UserStep ==
  ASSUME TypeInv, [Next]_vars, SameUsers, NEW n \in Names
  PROVE  \/ SameUser(Lookup(users, n), Lookup(users', n))
         \/ \E c \in Clients : Makes(c, n, Lookup(users, n), Lookup(users', n))
<1>0. Lookup(users', n) = Lookup(users, n) => SameUser(Lookup(users, n), Lookup(users', n))
  BY DEF SameUser
<1>1. CASE UNCHANGED users
  BY <1>0, <1>1
<1>2. users \in Seq(User)
  BY DEF TypeInv, UsersOK
<1>3. ASSUME NEW c \in Clients, Admit(c) \/ Read(c) PROVE UNCHANGED users
  BY <1>3 DEF Admit, Read
<1>4. ASSUME NEW c \in Clients, NEW w \in Outcomes, ChangeUser(c, w)
      PROVE  \/ SameUser(Lookup(users, n), Lookup(users', n))
             \/ Makes(c, n, Lookup(users, n), Lookup(users', n))
  BY <1>0, <1>4, ChangeUserMakes
<1>5. ASSUME NEW c \in Clients, NEW w \in Outcomes, CreateUser(c, w) PROVE UNCHANGED users
  <2>1. ASSUME NEW u \in User, WriteUsers(Append(users, u), w) PROVE FALSE
    <3> HIDE DEF User
    <3>1. Len(Append(users, u)) = Len(users) + 1 /\ Len(users) \in Nat
      BY <1>2, AddedUser
    <3>2. Len(users') = Len(users) /\ users' = Append(users, u)
      BY <2>1 DEF SameUsers, WriteUsers
    <3>3. QED
      BY <3>1, <3>2
  <2>2. QED
    BY <1>5, <2>1, CreateUserDoes
<1>6. ASSUME NEW c \in Clients, NEW w1 \in Outcomes, NEW w2 \in Outcomes, DeleteUser(c, w1, w2)
      PROVE  UNCHANGED users
  <2>1. ASSUME Target(c) \in 1..Len(users), users' = Without(users, Target(c)) PROVE FALSE
    <3> HIDE DEF User
    <3>1. Len(Without(users, Target(c))) = Len(users) - 1
      BY <1>2, <2>1, WithoutElements
    <3>2. Len(users) \in Nat
      BY <1>2
    <3>3. Len(users') = Len(users)
      BY DEF SameUsers
    <3>4. QED
      BY <2>1, <3>1, <3>2, <3>3
  <2>2. QED
    BY <1>6, <2>1, DeleteUserDoes
<1>7. ASSUME NEW c \in Clients, NEW w \in Outcomes, Permit(c, w) PROVE UNCHANGED users
  BY <1>7 DEF Permit
<1>8. ASSUME NEW a \in FeishuAccounts, NEW w \in Outcomes, FeishuLogin(a, w)
      PROVE  SameUser(Lookup(users, n), Lookup(users', n))
  BY <1>8, FeishuLoginKeeps
<1>9. CASE Restart
  <2>1. restarts' = restarts + 1 /\ restarts' = restarts /\ restarts \in Nat
    BY <1>9, RestartDoes, AccountsAssumption DEF SameUsers, TypeInv, CountersOK
  <2>2. QED
    BY <2>1
<1>10. CASE UNCHANGED vars
  BY <1>1, <1>10 DEF vars
<1>11. QED
  BY <1>1, <1>3, <1>4, <1>5, <1>6, <1>7, <1>8, <1>9, <1>10 DEF Next, Handle

LEMMA RightsStep ==
  ASSUME TypeInv, [Next]_vars, SameUsers, NEW n \in Names
  PROVE  LET old == Lookup(users, n)  new == Lookup(users', n)
         IN  /\ new.role = "admin" /\ old.role # "admin" =>
                  \E c \in Clients : Answers(c, n) /\ (at[c].req.role = "admin" \/ Overtaken(c, n))
             /\ new.enabled /\ ~old.enabled =>
                  \E c \in Clients : Answers(c, n) /\ (at[c].req.on = TRUE \/ Overtaken(c, n))
<1> DEFINE old == Lookup(users, n)
           new == Lookup(users', n)
<1>1. CASE SameUser(old, new)
  BY <1>1, Zenon DEF SameUser
<1>2. ASSUME NEW c \in Clients, Makes(c, n, old, new)
      PROVE  /\ new.role = "admin" /\ old.role # "admin" =>
                  Answers(c, n) /\ (at[c].req.role = "admin" \/ Overtaken(c, n))
             /\ new.enabled /\ ~old.enabled =>
                  Answers(c, n) /\ (at[c].req.on = TRUE \/ Overtaken(c, n))
  <2>1. /\ Answers(c, n) /\ old \in User /\ at[c].req \in Requests
        /\ Grounded(at[c].req, at[c].seen)
        /\ at[c].req.op \in ReadFirst => at[c].pc = "read"
        /\ new = Changed(old, at[c].req, at[c].seen)
    BY <1>2 DEF Makes
  <2>2. fresh \in Nat
    BY DEF TypeInv, CountersOK
  <2> DEFINE r == at[c].req
             seen == at[c].seen
  <2>3. r.op = "update" /\ seen # old => Overtaken(c, n)
    BY <2>1 DEF Overtaken, ReadFirst
  <2> HIDE DEF old, new
  <2>4. /\ Changed(old, r, seen).role = "admin" /\ old.role # "admin"
             => r.op = "update" /\ (r.role = "admin" \/ seen # old)
        /\ Changed(old, r, seen).enabled /\ ~old.enabled
             => r.op = "update" /\ (r.on = TRUE \/ seen # old)
    BY <2>1, <2>2, ChangedRights
  <2>5. QED
    BY <2>1, <2>3, <2>4, Zenon
<1>3. QED
  BY <1>1, <1>2, UserStep, Zenon

LEMMA FactorStep ==
  ASSUME TypeInv, [Next]_vars, SameUsers, NEW n \in Names
  PROVE  LET old == Lookup(users, n)  new == Lookup(users', n)
         IN  old.mfa /\ ~(new.mfa /\ new.secret = old.secret) =>
               \E c \in Clients : Answers(c, n) /\
                 \/ at[c].req.op \in {"disable", "reset"}
                 \/ at[c].req.op = "mfa" /\ at[c].req.on = FALSE
                 \/ at[c].req.op \in {"setup", "enable", "mfa"} /\ Overtaken(c, n)
<1> DEFINE old == Lookup(users, n)
           new == Lookup(users', n)
<1> SUFFICES ASSUME old.mfa, ~(new.mfa /\ new.secret = old.secret)
             PROVE  \E c \in Clients : Answers(c, n) /\
                      \/ at[c].req.op \in {"disable", "reset"}
                      \/ at[c].req.op = "mfa" /\ at[c].req.on = FALSE
                      \/ at[c].req.op \in {"setup", "enable", "mfa"} /\ Overtaken(c, n)
  BY Zenon
<1>1. ~SameUser(old, new)
  BY Zenon DEF SameUser
<1>2. PICK c \in Clients : Makes(c, n, old, new)
  BY <1>1, UserStep, Zenon
<1> DEFINE r == at[c].req
           seen == at[c].seen
<1>3. /\ Answers(c, n) /\ old \in User /\ r \in Requests /\ Grounded(r, seen)
      /\ r.op \in ReadFirst => at[c].pc = "read"
      /\ new = Changed(old, r, seen)
  BY <1>2 DEF Makes
<1>4. fresh \in Nat
  BY DEF TypeInv, CountersOK
<1>5. r.op \in {"setup", "enable", "mfa"} /\ seen # old => Overtaken(c, n)
  BY <1>3 DEF Overtaken, ReadFirst
<1> HIDE DEF old, new
<1>6. ~(Changed(old, r, seen).mfa /\ Changed(old, r, seen).secret = old.secret)
  BY <1>3, Zenon
<1>7. \/ r.op \in {"disable", "reset"}
      \/ r.op = "mfa" /\ r.on = FALSE
      \/ r.op \in {"setup", "enable", "mfa"} /\ seen # old
  BY <1>3, <1>4, <1>6, ChangedFactor
<1>8. QED
  BY <1>3, <1>5, <1>7

\* A user becomes an administrator, or is enabled again, only by a request that asks for it or
\* by an edit whose user was changed between its two calls - whatever the number of handlers
\* that overlap, and however many writes fail.
THEOREM RightsNeedRequests == Spec => RightsAreAskedFor
<1>1. TypeInv /\ [Next]_vars
        => (SameUsers => \A n \in Names :
              LET old == Lookup(users, n)  new == Lookup(users', n)
              IN  /\ new.role = "admin" /\ old.role # "admin" =>
                       \E c \in Clients : Answers(c, n) /\ (at[c].req.role = "admin" \/ Overtaken(c, n))
                  /\ new.enabled /\ ~old.enabled =>
                       \E c \in Clients : Answers(c, n) /\ (at[c].req.on = TRUE \/ Overtaken(c, n)))
  BY RightsStep, Zenon
<1>2. QED
  BY <1>1, TypeInvAlways, PTL DEF Spec, RightsAreAskedFor

\* A second factor that is on stays as it is until its owner disables it, an administrator
\* resets it or turns it off, or a request about it that had read the record before.
THEOREM SecondFactorsStay == Spec => SecondFactorStays
<1>1. TypeInv /\ [Next]_vars
        => (SameUsers => \A n \in Names :
              LET old == Lookup(users, n)  new == Lookup(users', n)
              IN  old.mfa /\ ~(new.mfa /\ new.secret = old.secret) =>
                    \E c \in Clients : Answers(c, n) /\
                      \/ at[c].req.op \in {"disable", "reset"}
                      \/ at[c].req.op = "mfa" /\ at[c].req.on = FALSE
                      \/ at[c].req.op \in {"setup", "enable", "mfa"} /\ Overtaken(c, n))
  BY FactorStep, Zenon
<1>2. QED
  BY <1>1, TypeInvAlways, PTL DEF Spec, SecondFactorStays

=============================================================================
