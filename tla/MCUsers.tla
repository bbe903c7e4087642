------------------------------- MODULE MCUsers -------------------------------
(* Instances of Users for TLC: three users in use or about to be, one        *)
(* administrator, and calls of every kind that meet in their keys.           *)
EXTENDS Users, TLC

MCLower == [t \in {"a", "b", "c", "A", "C"} |->
              CASE t = "A" -> "a" [] t = "C" -> "c" [] OTHER -> t]

Person(email, mobile, password) ==
    [email |-> email, username |-> None, mobile |-> mobile, google |-> None,
     password |-> password]

MCInitialRow == [p \in {"u1", "u2", "u3", "admin"} |->
                   CASE p = "u1" -> Person("a", "m1", "p1")
                     [] p = "u2" -> Person("b", None, None)
                     [] p = "u3" -> None
                     [] p = "admin" -> Person("c", None, "p1")]

Profile(id, email, username, mobile) ==
    [op |-> "profile", id |-> id, email |-> email, username |-> username,
     mobile |-> mobile, password |-> Absent]
Administer(id, email, mobile, password) ==
    [op |-> "administer", id |-> id, email |-> email, username |-> Absent,
     mobile |-> mobile, password |-> password]
Change(id, old, new) == [op |-> "change", id |-> id, old |-> old, password |-> new]
Reset(email, mobile) ==
    [op |-> "reset", email |-> email, mobile |-> mobile, password |-> "p2"]

MCCalls ==
    {[op |-> "register", email |-> "C", mobile |-> None, password |-> "p1"],
     [op |-> "register", email |-> "c", mobile |-> "m2", password |-> "p2"],
     [op |-> "google", email |-> "C", google |-> "g1"],
     [op |-> "google", email |-> "b", google |-> "g1"],
     [op |-> "google", email |-> "b", google |-> "g2"],
     [op |-> "send", email |-> "c", mobile |-> "m1"],
     [op |-> "forgot", email |-> "c", mobile |-> "m1"],
     Reset("A", None), Reset(None, "m1"), Reset("a", "m1"),
     Profile("u1", "c", "n1", Absent), Profile("u2", "C", Absent, "m2"),
     Profile("u2", Absent, "n1", None), Profile("u1", None, Absent, Absent),
     Profile("u2", Absent, BadName, Absent), Profile("admin", "a", Absent, Absent),
     Administer("u1", "c", Absent, "p2"), Administer("u2", Absent, "m2", "p2"),
     Administer("u3", Absent, Absent, "p2"),
     Change("u1", "p1", "p2"), Change("u1", "p2", "p1"), Change("admin", "p1", "p2"),
     [op |-> "login", email |-> "A", password |-> "p1"],
     [op |-> "login", email |-> "c", password |-> "p1"],
     [op |-> "authenticate", id |-> "admin", email |-> None, password |-> "p1"],
     [op |-> "authenticate", id |-> "admin", email |-> None, password |-> "p2"]}

Symmetric == Permutations(Requests)

=============================================================================
