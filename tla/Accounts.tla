------------------------------ MODULE Accounts ------------------------------
(***************************************************************************)
(* Users, sign-in and sessions: routers/auth.py, routers/users.py and the  *)
(* guards of main.py.  A session is a signed cookie: what it says of the   *)
(* user is a copy that ages while other administrators change the rows.    *)
(* Every handler runs without an await; the interleaving is that of whole  *)
(* requests from several browsers.                                         *)
(***************************************************************************)
EXTENDS Naturals, FiniteSets

CONSTANTS
    Ids,        \* user ids, from 1; AUTOINCREMENT: none is used again
    Browsers,   \* browsers, each with one session cookie
    Names,      \* _login_attempts_key of usernames: two that differ in
                \* their case only are two accounts and one name
    Threshold,  \* _LOGIN_LOCKOUT_THRESHOLD
    MaxWrong    \* bound: wrong guesses counted

VARIABLES
    user,       \* the users rows
    session,    \* the content of each cookie
    fails,      \* _LOGIN_ATTEMPTS, by name: how often sign-in failed
    locked,     \* locked_until lies ahead
    wrong       \* history: wrong guesses at each account

accountVars == <<user, session, fails, locked, wrong>>

NoUser == 0
NoName == 0
Roles == {"viewer", "admin"}
Fresh == [is |-> "never", role |-> "viewer", factor |-> FALSE, codes |-> 0,
          name |-> NoName]
SignedOut == [id |-> NoUser, pending |-> NoUser, role |-> "viewer", setup |-> FALSE]

There(u) == user[u].is = "there"
Present == {u \in Ids : There(u)}

Codes == 1                  \* recovery codes of an enrolment: ten in the code

NewUser(role, n) == [is |-> "there", role |-> role, factor |-> FALSE, codes |-> 0, name |-> n]

\* ensure_admin_user
Init ==
    /\ \E n \in Names : user = [u \in Ids |-> IF u = 1 THEN NewUser("admin", n) ELSE Fresh]
    /\ session = [b \in Browsers |-> SignedOut]
    /\ fails = [n \in Names |-> 0]
    /\ locked = [n \in Names |-> FALSE]
    /\ wrong = [u \in Ids |-> 0]

-----------------------------------------------------------------------------
(* The guards.                                                             *)

\* _current_user: the row decides, not the cookie; without a row the session
\* is cleared and the request fails.
Current(b) == session[b].id # NoUser /\ There(session[b].id)

AdminOfCookie(b) == session[b].id # NoUser /\ session[b].role = "admin" \* mutant
\* _require_admin
Admin(b) == Current(b) /\ user[session[b].id].role = "admin"

\* InvalidSessionError
Dismissed(b) ==
    /\ session[b].id # NoUser
    /\ ~There(session[b].id)
    /\ session' = [session EXCEPT ![b] = SignedOut]
    /\ UNCHANGED <<user, fails, locked, wrong>>

-----------------------------------------------------------------------------
(* Sign-in.                                                                *)

\* What the history forgets with the counters of some names.
Pardoned(names) == wrong' = [u \in Ids |-> IF user[u].name \in names THEN 0 ELSE wrong[u]]

\* _register_login_failure: from the threshold on the name is locked.
Failed(n) ==
    /\ fails[n] < MaxWrong
    /\ fails' = [fails EXCEPT ![n] = @ + 1]
    /\ locked' = [locked EXCEPT ![n] = fails[n] + 1 >= Threshold]

\* _prune_login_attempts follows when the table is full of names: whoever is
\* not locked is dropped, the name of this failure too.
FailedAndPruned(n) ==
    LET armed == {m \in Names : IF m = n THEN fails[n] + 1 >= Threshold ELSE locked[m]} IN
    /\ fails[n] < MaxWrong
    /\ fails' = [m \in Names |-> IF m \notin armed THEN 0 ELSE IF m = n THEN fails[n] + 1 ELSE fails[m]]
    /\ locked' = [m \in Names |-> m \in armed]
    /\ Pardoned(Names \ armed)

\* A wrong guess at the account u, under its name.
Guessed(u) ==
    \/ Failed(user[u].name) /\ wrong' = [wrong EXCEPT ![u] = @ + 1]
    \/ FailedAndPruned(user[u].name)

\* _register_login_success
Forgiven(n) ==
    /\ fails' = [fails EXCEPT ![n] = 0]
    /\ locked' = [locked EXCEPT ![n] = FALSE]

\* A second step that login leaves unanswered in the cookie is dropped here: it
\* could be answered later, as it can from another browser.
SignedIn(u) == [SignedOut EXCEPT !.id = u, !.role = user[u].role]

LoginForgives(b, u) ==                        \* mutant: a password resets
    /\ session[b].id = NoUser
    /\ There(u)
    /\ ~locked[user[u].name]
    /\ Forgiven(user[u].name)
    /\ IF user[u].factor
       THEN /\ session' = [session EXCEPT ![b] = [SignedOut EXCEPT !.pending = u]]
            /\ UNCHANGED wrong
       ELSE /\ session' = [session EXCEPT ![b] = SignedIn(u)]
            /\ Pardoned({user[u].name})
    /\ UNCHANGED user
\* The right password: it is enough when there is no second factor, and the
\* failures stay counted when there is one.  Whoever is signed in is not shown
\* the form.
Login(b, u) ==
    /\ session[b].id = NoUser
    /\ There(u)
    /\ ~locked[user[u].name]
    /\ IF user[u].factor
       THEN /\ session' = [session EXCEPT ![b] = [SignedOut EXCEPT !.pending = u]]
            /\ UNCHANGED <<fails, locked, wrong>>
       ELSE /\ session' = [session EXCEPT ![b] = SignedIn(u)]
            /\ Forgiven(user[u].name)
            /\ Pardoned({user[u].name})
    /\ UNCHANGED user

LoginWrong(u) ==
    /\ There(u)
    /\ ~locked[user[u].name]
    /\ Guessed(u)
    /\ UNCHANGED <<user, session>>

\* A username that is nobody's: its name is counted all the same, and may be
\* that of an account with other capitals.
LoginUnknown(n) ==
    /\ ~locked[n]
    /\ \/ Failed(n) /\ UNCHANGED wrong
       \/ FailedAndPruned(n)
    /\ UNCHANGED <<user, session>>

\* two_factor_verify: a pending sign-in whose user is gone, or has no second
\* factor any more, starts again.
Pending(b) == session[b].pending
Answerable(b) == There(Pending(b)) /\ user[Pending(b)].factor

VerifyStale(b) ==
    /\ Pending(b) # NoUser
    /\ ~Answerable(b)
    /\ session' = [session EXCEPT ![b] = SignedOut]
    /\ UNCHANGED <<user, fails, locked, wrong>>

VerifyWrong(b) ==
    /\ Pending(b) # NoUser /\ Answerable(b)
    /\ ~locked[user[Pending(b)].name]
    /\ Guessed(Pending(b))
    /\ UNCHANGED <<user, session>>

\* consume_recovery_code
Used(u) ==
    /\ user[u].codes > 0
    /\ user' = [user EXCEPT ![u].codes = @ - 1]

Verify(b) ==
    /\ Pending(b) # NoUser /\ Answerable(b)
    /\ ~locked[user[Pending(b)].name]
    /\ Used(Pending(b)) \/ UNCHANGED user
    /\ session' = [session EXCEPT ![b] = SignedIn(Pending(b))]
    /\ Forgiven(user[Pending(b)].name)
    /\ Pardoned({user[Pending(b)].name})

LockEnds(n) ==
    /\ locked[n]
    /\ locked' = [locked EXCEPT ![n] = FALSE]
    /\ UNCHANGED <<user, session, fails, wrong>>

\* The counters are in memory, the cookies are not; ensure_admin_user adds
\* nobody while somebody is there.
Restart ==
    /\ fails' = [n \in Names |-> 0]
    /\ locked' = [n \in Names |-> FALSE]
    /\ wrong' = [u \in Ids |-> 0]
    /\ UNCHANGED <<user, session>>

Logout(b) ==
    /\ session[b] # SignedOut
    /\ session' = [session EXCEPT ![b] = SignedOut]
    /\ UNCHANGED <<user, fails, locked, wrong>>

-----------------------------------------------------------------------------
(* The second factor of the signed-in user.                                *)

Refreshed(b) == [session[b] EXCEPT !.role = user[session[b].id].role]

\* account_two_factor: the secret offered waits in the session.
OfferSecret(b) ==
    /\ Current(b)
    /\ ~user[session[b].id].factor
    /\ session' = [session EXCEPT ![b] = [Refreshed(b) EXCEPT !.setup = TRUE]]
    /\ UNCHANGED <<user, fails, locked, wrong>>

EnableFactor(b) ==
    /\ Current(b)
    /\ session[b].setup
    /\ user' = [user EXCEPT ![session[b].id].factor = TRUE,
                            ![session[b].id].codes = Codes]
    /\ session' = [session EXCEPT ![b] = [Refreshed(b) EXCEPT !.setup = FALSE]]
    /\ UNCHANGED <<fails, locked, wrong>>

\* set_user_totp: the recovery codes go too.
WithoutFactor(u) == [user EXCEPT ![u].factor = FALSE, ![u].codes = 0]

\* account_two_factor_disable, with the password.
DisableFactor(b) ==
    /\ Current(b)
    /\ user' = WithoutFactor(session[b].id)
    /\ session' = [session EXCEPT ![b] = Refreshed(b)]
    /\ UNCHANGED <<fails, locked, wrong>>

-----------------------------------------------------------------------------
(* Administration.                                                         *)

ByAdmin(b) ==
    /\ Admin(b)
    /\ UNCHANGED <<fails, locked>>

CreateUser(b, role, n) ==
    \E u \in Ids :
        /\ \A v \in 1 .. u - 1 : user[v].is # "never"
        /\ user[u].is = "never"
        /\ ByAdmin(b)
        /\ user' = [user EXCEPT ![u] = NewUser(role, n)]
        /\ session' = [session EXCEPT ![b] = Refreshed(b)]
        /\ UNCHANGED wrong

\* update_user changes the row of a user that is there; the own session
\* follows, others find out at their next request.  With a new name the
\* account gets the counter of that name, whatever it is.
UpdateUser(b, u, role, n) ==
    /\ ByAdmin(b)
    /\ There(u)
    /\ user' = [user EXCEPT ![u] = [@ EXCEPT !.role = role, !.name = n]]
    /\ session' = [session EXCEPT ![b].role = IF session[b].id = u THEN role ELSE "admin"]
    /\ wrong' = IF n = user[u].name THEN wrong ELSE [wrong EXCEPT ![u] = 0]

\* remove_user: never oneself.
RemoveUser(b, u) ==
    /\ ByAdmin(b)
    /\ session[b].id # u
    /\ There(u)
    /\ user' = [user EXCEPT ![u] = [Fresh EXCEPT !.is = "gone"]]
    /\ session' = [session EXCEPT ![b].role = "admin"]
    /\ wrong' = [wrong EXCEPT ![u] = 0]

\* admin_disable_totp
RescueFactor(b, u) ==
    /\ ByAdmin(b)
    /\ There(u)
    /\ user' = WithoutFactor(u)
    /\ session' = [session EXCEPT ![b].role = "admin"]
    /\ UNCHANGED wrong

Next ==
    \/ \E b \in Browsers :
           \/ Dismissed(b)
           \/ VerifyStale(b)
           \/ VerifyWrong(b)
           \/ Verify(b)
           \/ Logout(b)
           \/ OfferSecret(b)
           \/ EnableFactor(b)
           \/ DisableFactor(b)
           \/ \E role \in Roles, n \in Names : CreateUser(b, role, n)
           \/ \E u \in Ids :
                  \/ Login(b, u)
                  \/ RemoveUser(b, u)
                  \/ RescueFactor(b, u)
                  \/ \E role \in Roles, n \in Names : UpdateUser(b, u, role, n)
    \/ \E u \in Ids : LoginWrong(u)
    \/ \E n \in Names : LoginUnknown(n) \/ LockEnds(n)
    \/ Restart

Spec == Init /\ [][Next]_accountVars

-----------------------------------------------------------------------------
(* Properties.                                                             *)

TypeOK ==
    /\ user \in [Ids -> [is : {"never", "there", "gone"}, role : Roles,
                         factor : BOOLEAN, codes : 0 .. Codes, name : Names \cup {NoName}]]
    /\ session \in [Browsers -> [id : Ids \cup {NoUser}, pending : Ids \cup {NoUser},
                                 role : Roles, setup : BOOLEAN]]
    /\ fails \in [Names -> 0 .. MaxWrong]
    /\ locked \in [Names -> BOOLEAN]
    /\ wrong \in [Ids -> 0 .. MaxWrong]

\* Nobody deletes the last account: two administrators that delete each
\* other, one of them from a session whose own row is gone or was demoted,
\* cannot empty the table, which only a start without users fills again.
SomeoneRemains == Present # {}

\* auth.py: "the lockout counter stays armed so 2FA codes can't be
\* brute-forced any faster than passwords".  The counter that locks an account
\* holds every wrong guess at it, from whichever browser and at whichever of
\* the two steps, since its name last signed in completely, it was last
\* renamed, or the name's counter was last dropped, by pruning while it was not
\* locked or by a restart.
GuessesCount == \A u \in Present : wrong[u] <= fails[user[u].name]
=============================================================================
