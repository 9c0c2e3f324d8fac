---------------------------- MODULE MCUsersWatch ----------------------------
(* UsersWatch with two accounts and one group. One version has a second    *)
(* account and all of the first one's groups, flag, password and profile   *)
(* changed, one differs by a comment; one is what a writer that rewrites   *)
(* the file in place leaves in it for a moment, "users:" alone, which can  *)
(* be itemised; one cannot be, and one makes the parser raise.             *)
EXTENDS UsersWatch

Plain(groups, disabled, secret) == [groups |-> groups, disabled |-> disabled, password |-> secret, profile |-> secret]

Version(accounts) == [kind |-> "accounts", accounts |-> accounts]

Refused == [kind |-> "refused"]
Raises  == [kind |-> "raises"]

One    == Version(1 :> Plain({}, FALSE, 1))
Two    == Version(1 :> Plain({1}, TRUE, 2) @@ 2 :> Plain({1}, FALSE, 1))

Noted  == [kind |-> "accounts", accounts |-> One.accounts, note |-> 1]   \* One with a comment
Bare   == Version(NoAccounts)

FewVersions == {One, Noted, Two, Bare, Refused, Raises}
TwoVersions == {One, Two}

=============================================================================
