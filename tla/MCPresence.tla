----------------------------- MODULE MCPresence -----------------------------
(* Instances of Presence for TLC: the commands that are tried, symmetry.   *)
EXTENDS Presence, TLC

CONSTANTS u1,           \* the user
          s1, s2        \* sessions

Command(kind, user) == [kind |-> kind, user |-> user]

\* A login, one with a broken content, and what comes later.
EveryKind == {Command("login", u1), Command("login", None), Command("invite", u1),
              Command("other", None)}
LoginAndInvite == {Command("login", u1), Command("invite", u1)}
LoginOrBad == {Command("login", u1), Command("login", None)}
OnlyLogin == {Command("login", u1)}

SessionSymmetry == Permutations(Sessions)
=============================================================================
