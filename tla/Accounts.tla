------------------------------ MODULE Accounts ------------------------------
(***************************************************************************)
(* Signing in and staying signed in.  A user comes by password, by a demo  *)
(* button or by Microsoft, and gets a refresh token, the first of a        *)
(* family.  Presenting the token rotates it: the family gets a new one and *)
(* the old one is revoked.  Presenting a revoked token ends the family, as *)
(* logging out does.  Five wrong passwords lock the account for a while.   *)
(*                                                                         *)
(* Abstracted: tokens' texts and hashes, access tokens (stateless, not     *)
(* stored), audit rows; the tokens that a first sign-in (Roster) and an    *)
(* invited one end with are those of a returning user here.                *)
(***************************************************************************)
EXTENDS Roster

CONSTANTS
  Tokens,         \* ids of refresh tokens
  Handshakes      \* the state values of Microsoft sign-ins under way

VARIABLES
  login,          \* login[p]: [failures, locked] where p has a password, or None
  token,          \* token[t]: [user, family, revoked, expired, old] or None
  issued,         \* ids of tokens that were ever there
  handshake,      \* handshake[h]: "unused", "waiting", "expired" or "gone"
  streak,         \* streak[p]: p's wrong passwords since the last right one
  ended,          \* families that were logged out of, or had a token presented twice
  overlapped      \* families and users whose calls overlapped, or crashed, so that it shows

accountVars == <<login, token, issued, handshake, streak, ended, overlapped>>
rosterVars == <<portal, team, learner, chosen, deleted, raced>>
allVars == <<vars, accountVars>>

MaxFailedAttempts == 5
Lock == {"no", "running", "over"}
LoginRow == [failures : Nat, locked : Lock]
TokenRow == [user : People, family : Tokens, revoked : BOOLEAN, expired : BOOLEAN, old : BOOLEAN]

AccountsInit(start) ==
  /\ Init(start)
  /\ login = start.login
  /\ token = [t \in Tokens |-> None] /\ issued = {}
  /\ handshake = [h \in Handshakes |-> "unused"]
  /\ streak = [p \in People |-> IF login[p] = None THEN 0 ELSE login[p].failures]
  /\ ended = {} /\ overlapped = {}

Active(p) == user[p] # None /\ user[p].active
FamilyOf(f) == {t \in Tokens : token[t] # None /\ token[t].family = f}
Live(f) == {t \in FamilyOf(f) : ~token[t].revoked /\ ~token[t].expired}
FreshToken == CHOOSE t \in Tokens : t \notin issued
\* A bound: a token that is issued finds an id left.
TokenRoom == \E t \in Tokens : t \notin issued
Issued(p, f) == [token EXCEPT ![FreshToken] =
  [user |-> p, family |-> f, revoked |-> FALSE, expired |-> FALSE, old |-> FALSE]]
HoldsToken(c) == call[c].op \in {"refresh", "logout"} /\ call[c].pc # "idle"

-----------------------------------------------------------------------------
(* Sign-ins; one that is refused changes nothing.                          *)

\* The password is checked against the hash after the row was read.
PasswordSignIn(c) ==
  /\ \E p \in People, right \in BOOLEAN :
       /\ Active(p) /\ login[p] # None /\ login[p].locked # "running"
       /\ Begin(c, "password", "verified", [person |-> p, right |-> right], login[p].failures)
  /\ UNCHANGED <<rosterVars, accountVars>>
AfterAttempt(failures, right) ==
  IF right THEN [failures |-> 0, locked |-> "no"]
  ELSE [failures |-> failures + 1, locked |-> IF failures + 1 >= MaxFailedAttempts THEN "running" ELSE "no"]
SaveAttempt(c) ==
  /\ At(c, "password", "verified")
  /\ LET p == call[c].arg.person
         right == call[c].arg.right
     IN /\ login' = [login EXCEPT ![p] = AfterAttempt(call[c].seen, right)]
        /\ streak' = [streak EXCEPT ![p] = IF right THEN 0 ELSE @ + 1]
        /\ overlapped' = IF Stale(c, <<"attempt", p>>) THEN overlapped \cup {p}
                         ELSE IF right THEN overlapped \ {p} ELSE overlapped
        /\ IF right THEN Goto(c, "issue", None, {<<"attempt", p>>}) ELSE End(c, None, {<<"attempt", p>>})
  /\ UNCHANGED <<rosterVars, token, issued, handshake, ended>>
LockEnds(c) ==
  /\ \E p \in People :
       /\ login[p] # None /\ login[p].locked = "running"
       /\ login' = [login EXCEPT ![p].locked = "over"]
  /\ Atomically(c, "lockEnds", {})
  /\ UNCHANGED <<rosterVars, token, issued, handshake, streak, ended, overlapped>>

DemoSignIn(c) ==
  /\ \E p \in People : Active(p) /\ Begin(c, "demo", "issue", [person |-> p], None)
  /\ UNCHANGED <<rosterVars, accountVars>>

\* microsoftStart and microsoftCallback, for a user who has signed in before.
StartMicrosoft(c) ==
  /\ \E h \in Handshakes :
       /\ handshake[h] = "unused"
       /\ handshake' = [handshake EXCEPT ![h] = "waiting"]
  /\ Atomically(c, "start", {})
  /\ UNCHANGED <<rosterVars, login, token, issued, streak, ended, overlapped>>
\* The entry is deleted even where it has expired.
Callback(c) ==
  /\ \E h \in Handshakes, p \in People :
       /\ SignedIn(p) /\ handshake[h] \in {"waiting", "expired"}
       /\ handshake' = [handshake EXCEPT ![h] = "gone"]
       /\ IF handshake[h] = "expired" THEN Atomically(c, "callback", {})
          ELSE Begin(c, "callback", "exchange", [person |-> p], None)
  /\ UNCHANGED <<rosterVars, login, token, issued, streak, ended, overlapped>>
\* acquireTokenByCode: Microsoft may refuse the code.
ExchangeCode(c) ==
  /\ At(c, "callback", "exchange")
  /\ Goto(c, "user", None, {}) \/ End(c, None, {})
  /\ UNCHANGED <<rosterVars, accountVars>>
\* The row's update returns whether the user is active.
TouchUser(c) ==
  /\ At(c, "callback", "user")
  /\ IF Active(call[c].arg.person) THEN Goto(c, "issue", None, {}) ELSE End(c, None, {})
  /\ UNCHANGED <<rosterVars, accountVars>>
\* issueTokenPair: a family of its own, whatever has become of the user.
IssueToken(c) ==
  /\ call[c].op \in {"password", "demo", "callback"} /\ call[c].pc = "issue" /\ TokenRoom
  /\ token' = Issued(call[c].arg.person, FreshToken)
  /\ issued' = issued \cup {FreshToken}
  /\ End(c, None, {})
  /\ UNCHANGED <<rosterVars, login, handshake, streak, ended, overlapped>>

-----------------------------------------------------------------------------
(* Refreshing and logging out.                                             *)

\* A token of a user who is no longer active is refused, and stays.
Refresh(c) ==
  /\ \E t \in Tokens :
       /\ token[t] # None
       /\ \/ /\ token[t].revoked \/ token[t].expired
             /\ Begin(c, "refresh", "reuse", t, token[t].family)
          \/ /\ ~token[t].revoked /\ ~token[t].expired /\ Active(token[t].user)
             /\ Begin(c, "refresh", "create", t, token[t].family)
  /\ UNCHANGED <<rosterVars, accountVars>>
\* issuePairInFamily: the new token first ...
CreateToken(c) ==
  /\ At(c, "refresh", "create") /\ TokenRoom
  /\ LET t == call[c].arg
         f == call[c].seen
     IN /\ token' = Issued(token[t].user, f)
        /\ issued' = issued \cup {FreshToken}
        /\ overlapped' = IF Stale(c, <<"rotated", t>>) \/ Stale(c, <<"ended", f>>)
                         THEN overlapped \cup {f} ELSE overlapped
        /\ Goto(c, "retire", f, {<<"rotated", t>>})
  /\ UNCHANGED <<rosterVars, login, handshake, streak, ended>>
\* ... then the old one is revoked.
RetireToken(c) ==
  /\ At(c, "refresh", "retire")
  /\ LET t == call[c].arg
     IN /\ token' = [token EXCEPT ![t].revoked = TRUE]
        /\ overlapped' = IF Stale(c, <<"rotated", t>>) THEN overlapped \cup {call[c].seen} ELSE overlapped
        /\ End(c, None, {<<"rotated", t>>})
  /\ UNCHANGED <<rosterVars, login, issued, handshake, streak, ended>>
\* The server goes down between the two; nobody has the new token.
CrashRotation(c) ==
  /\ At(c, "refresh", "retire")
  /\ "crashRotation" \in DOMAIN left /\ left["crashRotation"] > 0
  /\ left' = [left EXCEPT !["crashRotation"] = @ - 1]
  /\ call' = [call EXCEPT ![c] = Idle]
  /\ overlapped' = overlapped \cup {call[c].seen}
  /\ UNCHANGED <<rosterVars, login, token, issued, handshake, streak, ended, crossed>>
Logout(c) ==
  /\ \E t \in Tokens : token[t] # None /\ Begin(c, "logout", "reuse", t, token[t].family)
  /\ UNCHANGED <<rosterVars, accountVars>>
\* Mutant: only the presented token is revoked.
RevokedAlone(c) == [token EXCEPT ![call[c].arg].revoked = TRUE]
\* revokeFamily.
Revoked(c) == [t \in Tokens |->
  IF t \in FamilyOf(call[c].seen) THEN [token[t] EXCEPT !.revoked = TRUE] ELSE token[t]]
RevokeFamily(c) ==
  /\ At(c, "refresh", "reuse") \/ At(c, "logout", "reuse")
  /\ token' = Revoked(c)
  /\ ended' = ended \cup {call[c].seen}
  /\ End(c, None, {<<"ended", call[c].seen>>})
  /\ UNCHANGED <<rosterVars, login, issued, handshake, streak, overlapped>>

-----------------------------------------------------------------------------
(* Time, and the nightly sweeps.                                           *)

\* Thirty days are longer than any call.
Expired(c) ==
  /\ \E t \in Tokens :
       /\ token[t] # None /\ ~token[t].expired /\ \A d \in Callers : ~HoldsToken(d)
       /\ token' = [token EXCEPT ![t].expired = TRUE]
  /\ Atomically(c, "expireToken", {})
  /\ UNCHANGED <<rosterVars, login, issued, handshake, streak, ended, overlapped>>
\* The retention time after a token was revoked, or expired, has passed.
Aged(c) ==
  /\ \E t \in Tokens :
       /\ token[t] # None /\ (token[t].revoked \/ token[t].expired) /\ ~token[t].old
       /\ \A d \in Callers : ~HoldsToken(d)
       /\ token' = [token EXCEPT ![t].old = TRUE]
  /\ Atomically(c, "age", {})
  /\ UNCHANGED <<rosterVars, login, issued, handshake, streak, ended, overlapped>>
SweepTokens(c) ==
  /\ token' = [t \in Tokens |-> IF token[t] # None /\ token[t].old THEN None ELSE token[t]]
  /\ token' # token
  /\ Atomically(c, "sweep", {})
  /\ UNCHANGED <<rosterVars, login, issued, handshake, streak, ended, overlapped>>
HandshakeExpires(c) ==
  /\ \E h \in Handshakes :
       handshake[h] = "waiting" /\ handshake' = [handshake EXCEPT ![h] = "expired"]
  /\ Atomically(c, "expireHandshake", {})
  /\ UNCHANGED <<rosterVars, login, token, issued, streak, ended, overlapped>>
SweepHandshakes(c) ==
  /\ handshake' = [h \in Handshakes |-> IF handshake[h] = "expired" THEN "gone" ELSE handshake[h]]
  /\ handshake' # handshake
  /\ Atomically(c, "sweep", {})
  /\ UNCHANGED <<rosterVars, login, token, issued, streak, ended, overlapped>>

-----------------------------------------------------------------------------
AccountStep(c) ==
  \/ PasswordSignIn(c) \/ SaveAttempt(c) \/ LockEnds(c) \/ DemoSignIn(c)
  \/ StartMicrosoft(c) \/ Callback(c) \/ ExchangeCode(c) \/ TouchUser(c) \/ IssueToken(c)
  \/ Refresh(c) \/ CreateToken(c) \/ RetireToken(c) \/ CrashRotation(c) \/ Logout(c) \/ RevokeFamily(c)
  \/ Expired(c) \/ Aged(c) \/ SweepTokens(c) \/ HandshakeExpires(c) \/ SweepHandshakes(c)
RosterStep(c) == Step(c) /\ UNCHANGED accountVars

-----------------------------------------------------------------------------
(* Properties.                                                             *)

\* Roster's types, those of the variables here, and that a token is its user's.
AccountsTypeOK ==
  /\ TypeOK
  /\ \A p \in People : login[p] # None => login[p].failures \in Nat /\ login[p].locked \in Lock
  /\ \A t \in Tokens : token[t] # None =>
       /\ t \in issued /\ user[token[t].user] # None /\ token[t].family \in issued
       /\ token[t].revoked \in BOOLEAN /\ token[t].expired \in BOOLEAN
       /\ token[t].old => token[t].revoked \/ token[t].expired
  /\ handshake \in [Handshakes -> {"unused", "waiting", "expired", "gone"}]
  /\ ended \subseteq issued /\ overlapped \subseteq Tokens \cup People

\* token.service.ts:20-29: a login is one session.  Its family has one token that
\* works at most, and none once it was logged out of or one of its tokens was
\* presented a second time.  Exempt are a family in the middle of a rotation, and one
\* two of whose calls overlapped, or one of whose rotations crashed half-way.
FamilyIsOneSession == \A f \in issued \ overlapped :
  (\A c \in Callers : ~(At(c, "refresh", "retire") /\ call[c].seen = f)) =>
    /\ Cardinality(Live(f)) <= 1
    /\ f \in ended => Live(f) = {}

\* auth.service.ts:280-313: an account is locked, and was until a right password, from
\* the fifth wrong password in a row on, and never before; exempt while attempts have
\* overlapped, which write the count that each has read.
LockedAfterFive == \A p \in People \ overlapped :
  login[p] # None => (login[p].locked # "no" <=> streak[p] >= MaxFailedAttempts)

\* Both: what an account and a login are worth.
SignInHolds == FamilyIsOneSession /\ LockedAfterFive
=============================================================================
