---------------------------- MODULE CloudAccounts ----------------------------
(***************************************************************************)
(* One cloud account: its configuration, its connection tests, and the     *)
(* verification code some clouds ask for (routers/cloud_accounts.py,       *)
(* main.py _perform_cloud_account_login_attempt).  A login attempt waits   *)
(* for the cloud with a copy of the account; meanwhile administrators edit *)
(* it, delete it, submit codes and start further attempts.                 *)
(***************************************************************************)
EXTENDS Naturals

CONSTANTS
    Attempts,    \* login attempts that may be under way together
    Forms,       \* edit forms that may be under way together
    MaxPassword, \* bound: passwords ever chosen, from 1
    MaxAttempts, \* bound: attempts and edits ever begun
    MaxCameras   \* bound: cameras imported

VARIABLES
    account,     \* the cloud_accounts row
    attempt,     \* each attempt: the copy it logs in with
    form,        \* each edit: what it read before its form arrived
    chosen,      \* history: the password an administrator set last
    passwords,
    begun,
    cameras      \* cameras imported through the account

cloudVars == <<account, attempt, form, chosen, passwords, begun, cameras>>

\* The transient field: no code, or one that was submitted.
Codes == {"", "code"}
NoAccount == [there |-> FALSE, password |-> 0, code |-> "", pending |-> FALSE,
              tested |-> "no"]
Waiting == {"no", "test", "devices"}
NoAttempt == [for |-> "no", password |-> 0, code |-> ""]
NoForm == 0

Init ==
    /\ account = NoAccount
    /\ attempt = [a \in Attempts |-> NoAttempt]
    /\ form = [f \in Forms |-> NoForm]
    /\ chosen = 0
    /\ passwords = 0
    /\ begun = 0
    /\ cameras = 0

Begun == begun < MaxAttempts /\ begun' = begun + 1
NewPassword == passwords < MaxPassword /\ passwords' = passwords + 1

-----------------------------------------------------------------------------
(* The row.                                                                *)

\* create_cloud_account
Create ==
    /\ account = NoAccount /\ passwords = 0
    /\ NewPassword
    /\ account' = [NoAccount EXCEPT !.there = TRUE, !.password = passwords']
    /\ chosen' = passwords'
    /\ UNCHANGED <<attempt, form, begun, cameras>>

\* update_cloud_account_configuration: an UPDATE, which also ends the demand
\* for a code.
Configured(password, code) ==
    IF account.there
    THEN [account EXCEPT !.password = password, !.code = code, !.pending = FALSE]
    ELSE account

ClearedCopy(a) == Configured(attempt[a].password, "")  \* mutant: the copy
\* clear_cloud_account_configuration_fields reads the row again.
Cleared(a) == Configured(account.password, "")

\* The attempts keep what they read; ids are not used again.
Delete ==
    /\ account.there
    /\ account' = NoAccount
    /\ UNCHANGED <<attempt, form, chosen, passwords, begun, cameras>>

-----------------------------------------------------------------------------
(* Editing: the row is read, the form awaited, the row written.  An empty  *)
(* password field means the password that was read.                        *)

OpenForm(f) ==
    /\ account.there
    /\ form[f] = NoForm
    /\ Begun
    /\ form' = [form EXCEPT ![f] = account.password]
    /\ UNCHANGED <<account, attempt, chosen, passwords, cameras>>

SaveKeeping(f, code) ==
    /\ form[f] # NoForm
    /\ account' = Configured(form[f], code)
    /\ form' = [form EXCEPT ![f] = NoForm]
    /\ UNCHANGED <<attempt, chosen, passwords, begun, cameras>>

SaveChanging(f, code) ==
    /\ form[f] # NoForm
    /\ NewPassword
    /\ account' = Configured(passwords', code)
    /\ chosen' = passwords'
    /\ form' = [form EXCEPT ![f] = NoForm]
    /\ UNCHANGED <<attempt, begun, cameras>>

-----------------------------------------------------------------------------
(* Login attempts.                                                         *)

\* test_cloud_account_route, cloud_account_devices_page
BeginAttempt(a, for) ==
    /\ account.there
    /\ attempt[a] = NoAttempt
    /\ Begun
    /\ attempt' = [attempt EXCEPT ![a] = [for |-> for, password |-> account.password,
                                          code |-> account.code]]
    /\ UNCHANGED <<account, form, chosen, passwords, cameras>>

TestAccount(a) == BeginAttempt(a, "test")
ListDevices(a) == BeginAttempt(a, "devices")

\* submit_cloud_account_verification_route: the code is stored, and a login
\* attempted with it.
SubmitCode(a) ==
    /\ account.there /\ account.pending
    /\ attempt[a] = NoAttempt
    /\ Begun
    /\ account' = Configured(account.password, "code")
    /\ attempt' = [attempt EXCEPT ![a] = [for |-> "test", password |-> account.password,
                                          code |-> "code"]]
    /\ UNCHANGED <<form, chosen, passwords, cameras>>

\* update_cloud_account_test_result, when the attempt is a test; the list of
\* devices records nothing.
Tested(row, a, result) ==
    IF row.there /\ attempt[a].for = "test" THEN [row EXCEPT !.tested = result] ELSE row

Ends(a, row) ==
    /\ attempt[a] # NoAttempt
    /\ account' = row
    /\ attempt' = [attempt EXCEPT ![a] = NoAttempt]
    /\ UNCHANGED <<form, chosen, passwords, begun, cameras>>

\* The cloud lets it in: the code has done its work.
AttemptSucceeds(a) == Ends(a, Tested(Cleared(a), a, "ok"))

\* CloudConnectionError: refused, and the code with it.
AttemptRefused(a) == Ends(a, Tested(Cleared(a), a, "error"))

\* A timeout or anything else: the code may still be good.
AttemptBreaks(a) == Ends(a, Tested(account, a, "error"))

\* CloudVerificationRequired, of an attempt without a code.
CodeDemanded(a) ==
    /\ attempt[a].code = ""
    /\ Ends(a, Tested(IF account.there THEN [account EXCEPT !.pending = TRUE] ELSE account,
                      a, "error"))

\* import_cloud_device_route: the camera has a copy of the credentials and
\* keeps it when the account goes.
Import ==
    /\ account.there
    /\ cameras < MaxCameras
    /\ cameras' = cameras + 1
    /\ UNCHANGED <<account, attempt, form, chosen, passwords, begun>>

Next ==
    \/ Create
    \/ Delete
    \/ \E f \in Forms :
           \/ OpenForm(f)
           \/ \E code \in Codes : SaveKeeping(f, code) \/ SaveChanging(f, code)
    \/ \E a \in Attempts :
           \/ TestAccount(a)
           \/ ListDevices(a)
           \/ SubmitCode(a)
           \/ AttemptSucceeds(a)
           \/ AttemptRefused(a)
           \/ AttemptBreaks(a)
           \/ CodeDemanded(a)
    \/ Import

Spec == Init /\ [][Next]_cloudVars

-----------------------------------------------------------------------------
(* Properties.                                                             *)

TypeOK ==
    /\ account \in [there : BOOLEAN, password : 0 .. MaxPassword, code : Codes,
                    pending : BOOLEAN, tested : {"no", "ok", "error"}]
    /\ attempt \in [Attempts -> [for : Waiting, password : 0 .. MaxPassword, code : Codes]]
    /\ form \in [Forms -> 0 .. MaxPassword]
    /\ chosen \in 0 .. MaxPassword
    /\ cameras \in 0 .. MaxCameras

\* What an administrator sets is not undone by the end of a login attempt
\* that was waiting for the cloud meanwhile, nor does an attempt bring a
\* deleted account back.
EditSurvives == account.there => account.password = chosen

\* Why it holds: a form that is open read the password chosen last.  Not so
\* with two forms at once: the one saved last, with an empty field, writes back
\* the password it read before the other was saved.
Ordered ==
    /\ chosen = passwords
    /\ \A f \in Forms : form[f] # NoForm => form[f] = chosen

IInv == TypeOK /\ EditSurvives /\ Ordered
=============================================================================
