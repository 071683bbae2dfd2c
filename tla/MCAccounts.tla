---------------------------- MODULE MCAccounts ----------------------------
(* Small instances of Accounts for TLC.                                     *)
EXTENDS Accounts, TLC

Symmetry == Permutations(Clients)

Person(n, role, on, mfa, secret) ==
    [NewUser(n, role, on) EXCEPT !.mfa = mfa, !.secret = secret]

\* A server with two administrators, one of them disabled and with a second
\* factor that is set up but off, and one with a user whose second factor is on
\* and who has a permission.
Installations == {
    [users |-> <<Person(Admin, "admin", TRUE, FALSE, 0), Person("ann", "admin", FALSE, FALSE, 100)>>,
     perms |-> {}],
    [users |-> <<Person(Admin, "admin", TRUE, FALSE, 0), Person("ann", "user", TRUE, TRUE, 100)>>,
     perms |-> {<<"ann", "task">>}]}

\* One account whose e-mail is the name of a user, one without an e-mail.
Accounts_ == {[email |-> "ann", name |-> "ann", id |-> "f1"], [email |-> None, name |-> "ann", id |-> "f2"]}
=============================================================================
