--------------------------- MODULE Accounts_proofs ---------------------------
(***************************************************************************)
(* Proofs about Accounts for any number of users and browsers and any      *)
(* threshold: types, the last account and the lockout counter.             *)
(***************************************************************************)
EXTENDS Accounts, TLAPS

\* ensure_admin_user creates user 1; ids begin with 1.
Params == 1 \in Ids /\ NoUser \notin Ids /\ MaxWrong \in Nat

Users == [is : {"never", "there", "gone"}, role : Roles, factor : BOOLEAN,
          codes : 0 .. Codes, name : Names \cup {NoName}]
Cookies == [id : Ids \cup {NoUser}, pending : Ids \cup {NoUser}, role : Roles,
            setup : BOOLEAN]

\* An account that is there has a name and its guesses are in the counter of
\* that name; what is not there has no history.
Counted ==
    \A u \in Ids : IF There(u) THEN user[u].name \in Names /\ wrong[u] <= fails[user[u].name]
                   ELSE wrong[u] = 0

IInv == TypeOK /\ SomeoneRemains /\ Counted

\* A second factor comes and goes with its recovery codes.
LEMMA FactorWritten ==
    ASSUME NEW row \in Users, NEW on \in BOOLEAN, NEW n \in 0 .. Codes
    PROVE  /\ [row EXCEPT !.factor = on, !.codes = n] \in Users
           /\ [row EXCEPT !.factor = on, !.codes = n].is = row.is
           /\ [row EXCEPT !.factor = on, !.codes = n].name = row.name
<1> DEFINE half == [row EXCEPT !.factor = on]
<1>1. half \in Users /\ half.is = row.is /\ half.name = row.name
  BY DEF Users
<1>2. [row EXCEPT !.factor = on, !.codes = n] = [half EXCEPT !.codes = n]
  BY DEF Users
<1> HIDE DEF half
<1>3. /\ [half EXCEPT !.codes = n] \in Users /\ [half EXCEPT !.codes = n].is = half.is
      /\ [half EXCEPT !.codes = n].name = half.name
  BY <1>1 DEF Users
<1> QED BY <1>1, <1>2, <1>3

\* The rows that are written whole.
LEMMA RowsWritten ==
    ASSUME NEW role \in Roles, NEW n \in Names
    PROVE  /\ NewUser(role, n) \in Users
           /\ NewUser(role, n).is = "there" /\ NewUser(role, n).name = n
           /\ Fresh \in Users /\ Fresh.is = "never"
           /\ [Fresh EXCEPT !.is = "gone"] \in Users /\ [Fresh EXCEPT !.is = "gone"].is = "gone"
<1>1. Fresh \in Users /\ Fresh.is = "never"
  BY DEF Fresh, Users, Roles, Codes
<1>2. [Fresh EXCEPT !.is = "gone"] \in Users /\ [Fresh EXCEPT !.is = "gone"].is = "gone"
  BY <1>1 DEF Users
<1>3. NewUser(role, n) \in Users /\ NewUser(role, n).is = "there" /\ NewUser(role, n).name = n
  BY DEF NewUser, Users, Codes
<1> QED BY <1>1, <1>2, <1>3

LEMMA InitIInv == Params /\ Init => IInv
<1> SUFFICES ASSUME Params, Init PROVE IInv
  OBVIOUS
<1> USE DEF Params, Init
<1>1. PICK n \in Names : user = [u \in Ids |-> IF u = 1 THEN NewUser("admin", n) ELSE Fresh]
  OBVIOUS
<1>2. /\ NewUser("admin", n) \in Users /\ NewUser("admin", n).is = "there"
      /\ NewUser("admin", n).name = n /\ Fresh \in Users /\ Fresh.is = "never"
  BY RowsWritten DEF Roles
<1>3. SignedOut \in Cookies
  BY DEF SignedOut, Cookies, Roles
<1>4. user \in [Ids -> Users] /\ session \in [Browsers -> Cookies]
  BY <1>1, <1>2, <1>3
<1>5. TypeOK
  BY <1>4 DEF TypeOK, Users, Cookies
<1>6. There(1)
  BY <1>1, <1>2 DEF There
<1>7. Counted
  BY <1>1, <1>2 DEF Counted, There
<1> QED BY <1>5, <1>6, <1>7 DEF IInv, SomeoneRemains, Present

\* A session of a user that is there is a user's.
LEMMA CurrentIsUser ==
    ASSUME Params, TypeOK, NEW b \in Browsers, Current(b)
    PROVE  session[b].id \in Ids /\ There(session[b].id)
BY DEF Current, TypeOK, Params

\* Steps that give and take no names: each account's history is reset, or
\* stays within the counter of its name.
GuessStep ==
    /\ session' \in [Browsers -> Cookies] /\ user' \in [Ids -> Users]
    /\ \A u \in Ids : user'[u].is = user[u].is /\ user'[u].name = user[u].name
    /\ fails' \in [Names -> 0 .. MaxWrong] /\ locked' \in [Names -> BOOLEAN]
    /\ wrong' \in [Ids -> 0 .. MaxWrong]
    /\ \A u \in Ids : wrong'[u] = 0 \/ (There(u) /\ wrong'[u] <= fails'[user[u].name])

LEMMA GuessStepKeeps ==
    ASSUME Params, IInv, GuessStep
    PROVE  IInv'
<1> USE DEF Params, IInv, GuessStep
<1>1. TypeOK'
  BY DEF TypeOK, Users, Cookies
<1>2. SomeoneRemains'
  BY DEF SomeoneRemains, Present, There
<1>3. Counted'
  <2> SUFFICES ASSUME NEW u \in Ids
               PROVE  IF There(u)' THEN user'[u].name \in Names /\ wrong'[u] <= fails'[user'[u].name]
                      ELSE wrong'[u] = 0
    BY DEF Counted
  <2>1. (There(u)' <=> There(u)) /\ user'[u].name = user[u].name
    BY DEF There
  <2>2. There(u) => user[u].name \in Names
    BY DEF Counted
  <2>3. There(u) => fails'[user[u].name] \in 0 .. MaxWrong
    BY <2>2
  <2>4. 0 \in 0 .. MaxWrong
    OBVIOUS
  <2> QED BY <2>1, <2>2, <2>3
<1> QED BY <1>1, <1>2, <1>3

\* What the counters do: nothing, one more at one name, or some go back.
CountersStay == UNCHANGED <<fails, wrong>>
CountersDrop ==
    \E names \in SUBSET Names :
        /\ fails' \in [Names -> 0 .. MaxWrong]
        /\ \A m \in Names \ names : fails'[m] >= fails[m]
        /\ Pardoned(names)

LEMMA Counters ==
    ASSUME Params, IInv, CountersStay \/ CountersDrop
    PROVE  /\ fails' \in [Names -> 0 .. MaxWrong] /\ wrong' \in [Ids -> 0 .. MaxWrong]
           /\ \A u \in Ids : wrong'[u] = 0 \/ (There(u) /\ wrong'[u] <= fails'[user[u].name])
<1> USE DEF Params, IInv
<1>1. /\ fails \in [Names -> 0 .. MaxWrong] /\ wrong \in [Ids -> 0 .. MaxWrong]
  BY DEF TypeOK
<1>2. \A u \in Ids : /\ ~There(u) => wrong[u] = 0
                     /\ There(u) => user[u].name \in Names /\ wrong[u] <= fails[user[u].name]
  BY DEF Counted
<1>3. CASE CountersStay
  BY <1>1, <1>2, <1>3 DEF CountersStay
<1>4. CASE CountersDrop
  <2>1. PICK names \in SUBSET Names :
            /\ fails' \in [Names -> 0 .. MaxWrong]
            /\ \A m \in Names \ names : fails'[m] >= fails[m]
            /\ wrong' = [u \in Ids |-> IF user[u].name \in names THEN 0 ELSE wrong[u]]
    BY <1>4 DEF CountersDrop, Pardoned
  <2>2. wrong' \in [Ids -> 0 .. MaxWrong]
    BY <1>1, <2>1
  <2>3. ASSUME NEW u \in Ids
        PROVE  wrong'[u] = 0 \/ (There(u) /\ wrong'[u] <= fails'[user[u].name])
    <3>1. CASE user[u].name \in names \/ ~There(u)
      BY <1>2, <2>1, <3>1
    <3>2. CASE user[u].name \notin names /\ There(u)
      <4>1. user[u].name \in Names /\ wrong[u] <= fails[user[u].name] /\ wrong'[u] = wrong[u]
        BY <1>2, <2>1, <3>2
      <4>2. /\ fails'[user[u].name] >= fails[user[u].name] /\ fails'[user[u].name] \in Nat
            /\ fails[user[u].name] \in Nat /\ wrong[u] \in Nat
        BY <1>1, <2>1, <3>2, <4>1
      <4> QED BY <3>2, <4>1, <4>2
    <3> QED BY <3>1, <3>2
  <2> QED BY <2>1, <2>2, <2>3
<1> QED BY <1>3, <1>4

\* A failure that prunes the table drops who is not locked.
LEMMA PruningDrops ==
    ASSUME Params, IInv, NEW n \in Names, FailedAndPruned(n)
    PROVE  CountersDrop /\ locked' \in [Names -> BOOLEAN]
<1> USE DEF Params, IInv
<1> DEFINE armed == {m \in Names : IF m = n THEN fails[n] + 1 >= Threshold ELSE locked[m]}
<1>1. /\ fails \in [Names -> 0 .. MaxWrong] /\ fails[n] + 1 \in 0 .. MaxWrong
  BY DEF TypeOK, FailedAndPruned
<1>2. /\ fails' = [m \in Names |-> IF m \notin armed THEN 0 ELSE IF m = n THEN fails[n] + 1 ELSE fails[m]]
      /\ locked' = [m \in Names |-> m \in armed]
      /\ Pardoned(Names \ armed)
  BY DEF FailedAndPruned
<1> HIDE DEF armed
<1>3. \A m \in Names : fails'[m] \in 0 .. MaxWrong /\ (m \in armed => fails'[m] >= fails[m])
  BY <1>1, <1>2
<1>4. fails' \in [Names -> 0 .. MaxWrong]
  BY <1>2, <1>3
<1>5. CountersDrop
  <2>1. \A m \in Names \ (Names \ armed) : fails'[m] >= fails[m]
    BY <1>3
  <2>2. (Names \ armed) \in SUBSET Names
    OBVIOUS
  <2> QED BY <1>2, <1>4, <2>1, <2>2 DEF CountersDrop
<1>6. locked' \in [Names -> BOOLEAN]
  BY <1>2
<1> QED BY <1>5, <1>6

\* A failure that does not.
LEMMA FailureCounts ==
    ASSUME Params, IInv, NEW n \in Names, Failed(n)
    PROVE  /\ fails' \in [Names -> 0 .. MaxWrong] /\ locked' \in [Names -> BOOLEAN]
           /\ fails[n] < MaxWrong /\ fails'[n] = fails[n] + 1
           /\ \A m \in Names : fails'[m] >= fails[m]
<1> USE DEF Params, IInv
<1>1. /\ fails \in [Names -> 0 .. MaxWrong] /\ fails[n] + 1 \in 0 .. MaxWrong
      /\ fails' = [fails EXCEPT ![n] = fails[n] + 1]
  BY DEF TypeOK, Failed
<1>2. locked' \in [Names -> BOOLEAN]
  <2>1. (fails[n] + 1 >= Threshold) \in BOOLEAN
    OBVIOUS
  <2> QED BY <2>1 DEF TypeOK, Failed
<1> QED BY <1>1, <1>2 DEF Failed

LEMMA GuessKeeps ==
    ASSUME Params, IInv, NEW u \in Ids, There(u), Guessed(u), UNCHANGED <<user, session>>
    PROVE  IInv'
<1> USE DEF Params, IInv
<1>1. user[u].name \in Names /\ wrong[u] <= fails[user[u].name]
  BY DEF Counted
<1>2. /\ session' \in [Browsers -> Cookies] /\ user' \in [Ids -> Users]
      /\ \A v \in Ids : user'[v].is = user[v].is /\ user'[v].name = user[v].name
      /\ wrong \in [Ids -> 0 .. MaxWrong] /\ fails \in [Names -> 0 .. MaxWrong]
  BY DEF TypeOK, Users, Cookies
<1>3. CASE FailedAndPruned(user[u].name)
  BY <1>1, <1>2, <1>3, PruningDrops, Counters, GuessStepKeeps DEF GuessStep
<1>4. CASE Failed(user[u].name) /\ wrong' = [wrong EXCEPT ![u] = @ + 1]
  <2> DEFINE n == user[u].name
  <2>1. /\ fails' \in [Names -> 0 .. MaxWrong] /\ locked' \in [Names -> BOOLEAN]
        /\ fails[n] < MaxWrong /\ fails'[n] = fails[n] + 1
        /\ \A m \in Names : fails'[m] >= fails[m]
    BY <1>1, <1>4, FailureCounts
  <2>2. wrong[u] \in 0 .. MaxWrong /\ fails[n] \in 0 .. MaxWrong
    BY <1>1, <1>2
  <2>3. wrong[u] + 1 \in 0 .. MaxWrong /\ wrong[u] + 1 <= fails'[n]
    BY <1>1, <2>1, <2>2
  <2>4. wrong' \in [Ids -> 0 .. MaxWrong]
    BY <1>2, <1>4, <2>3
  <2>5. ASSUME NEW v \in Ids
        PROVE  wrong'[v] = 0 \/ (There(v) /\ wrong'[v] <= fails'[user[v].name])
    <3>1. CASE v = u
      BY <1>2, <1>4, <2>3, <3>1
    <3>2. CASE v # u
      <4>1. wrong'[v] = wrong[v]
        BY <1>2, <1>4, <3>2
      <4>2. CASE There(v)
        <5>1. user[v].name \in Names /\ wrong[v] <= fails[user[v].name]
          BY <4>2 DEF Counted
        <5>2. /\ fails'[user[v].name] >= fails[user[v].name] /\ fails'[user[v].name] \in Nat
              /\ fails[user[v].name] \in Nat /\ wrong[v] \in Nat
          BY <1>2, <2>1, <5>1
        <5> QED BY <4>1, <4>2, <5>1, <5>2
      <4>3. CASE ~There(v)
        BY <4>1, <4>3 DEF Counted
      <4> QED BY <4>2, <4>3
    <3> QED BY <3>1, <3>2
  <2> QED BY <1>2, <2>1, <2>4, <2>5, GuessStepKeeps DEF GuessStep
<1> QED BY <1>3, <1>4 DEF Guessed

LEMMA UnknownKeeps ==
    ASSUME Params, IInv, NEW n \in Names, LoginUnknown(n)
    PROVE  IInv'
<1> USE DEF Params, IInv
<1>1. /\ session' \in [Browsers -> Cookies] /\ user' \in [Ids -> Users]
      /\ \A v \in Ids : user'[v].is = user[v].is /\ user'[v].name = user[v].name
      /\ wrong \in [Ids -> 0 .. MaxWrong] /\ fails \in [Names -> 0 .. MaxWrong]
  BY DEF TypeOK, Users, Cookies, LoginUnknown
<1>2. CASE FailedAndPruned(n)
  BY <1>1, <1>2, PruningDrops, Counters, GuessStepKeeps DEF GuessStep
<1>3. CASE Failed(n) /\ UNCHANGED wrong
  <2>1. CountersDrop
    <3>1. Pardoned({})
      BY <1>1, <1>3 DEF Pardoned
    <3>2. {} \in SUBSET Names /\ \A m \in Names \ {} : fails'[m] >= fails[m]
      BY <1>3, FailureCounts
    <3>3. fails' \in [Names -> 0 .. MaxWrong]
      BY <1>3, FailureCounts
    <3> QED BY <3>1, <3>2, <3>3 DEF CountersDrop
  <2> QED BY <1>1, <1>3, <2>1, FailureCounts, Counters, GuessStepKeeps DEF GuessStep
<1> QED BY <1>2, <1>3 DEF LoginUnknown

\* A complete sign-in drops the counter of one name.
LEMMA ForgivenDrops ==
    ASSUME Params, IInv, NEW n \in Names, Forgiven(n), Pardoned({n})
    PROVE  CountersDrop /\ locked' \in [Names -> BOOLEAN]
<1>1. /\ fails \in [Names -> 0 .. MaxWrong] /\ locked \in [Names -> BOOLEAN]
      /\ 0 \in 0 .. MaxWrong
  BY DEF IInv, TypeOK, Params
<1>2. fails' \in [Names -> 0 .. MaxWrong] /\ \A m \in Names \ {n} : fails'[m] = fails[m]
  BY <1>1 DEF Forgiven
<1>3. \A m \in Names \ {n} : fails'[m] >= fails[m]
  BY <1>1, <1>2
<1>4. locked' \in [Names -> BOOLEAN]
  BY <1>1 DEF Forgiven
<1>5. {n} \in SUBSET Names
  OBVIOUS
<1> QED BY <1>2, <1>3, <1>4, <1>5 DEF CountersDrop

\* Steps of a session that nobody is signed in with.
LEMMA SignInKeeps ==
    ASSUME Params, IInv, NEW b \in Browsers,
           \/ Dismissed(b) \/ VerifyStale(b) \/ Logout(b) \/ Verify(b)
           \/ \E u \in Ids : Login(b, u)
    PROVE  IInv'
<1> USE DEF Params, IInv
<1>1. /\ user \in [Ids -> Users] /\ session \in [Browsers -> Cookies]
      /\ fails \in [Names -> 0 .. MaxWrong] /\ locked \in [Names -> BOOLEAN]
  BY DEF TypeOK, Users, Cookies
<1>2. SignedOut \in Cookies
  BY DEF SignedOut, Cookies, Roles
<1>3. ASSUME NEW u \in Ids
      PROVE  SignedIn(u) \in Cookies /\ [SignedOut EXCEPT !.pending = u] \in Cookies
  BY <1>1 DEF SignedIn, SignedOut, Cookies, Users, Roles
<1>4. CASE Dismissed(b) \/ VerifyStale(b) \/ Logout(b)
  <2>1. session' \in [Browsers -> Cookies] /\ UNCHANGED <<user, fails, locked, wrong>>
    BY <1>1, <1>2, <1>4 DEF Dismissed, VerifyStale, Logout
  <2> QED BY <1>1, <2>1, Counters, GuessStepKeeps DEF GuessStep, CountersStay
<1>5. CASE Verify(b)
  <2> DEFINE u == Pending(b)
  <2>1. u \in Ids /\ There(u) /\ user[u].name \in Names
    BY <1>1, <1>5 DEF Verify, Pending, Cookies, Answerable, Counted
  <2>2. session' \in [Browsers -> Cookies]
    BY <1>1, <1>3, <1>5, <2>1 DEF Verify
  <2>3. /\ user' \in [Ids -> Users]
        /\ \A v \in Ids : user'[v].is = user[v].is /\ user'[v].name = user[v].name
    <3>1. user[u] \in Users /\ user[u].is = "there"
      BY <1>1, <2>1 DEF There
    <3>2. CASE Used(u)
      <4> DEFINE row == [user[u] EXCEPT !.codes = @ - 1]
      <4>1. user[u].codes \in 0 .. Codes /\ user[u].codes > 0
        BY <3>1, <3>2 DEF Used, Users
      <4>2. user[u].codes - 1 \in 0 .. Codes
        BY <4>1 DEF Codes
      <4>3. row \in Users /\ row.is = user[u].is /\ row.name = user[u].name
        BY <3>1, <4>2 DEF Users
      <4>4. user' = [user EXCEPT ![u] = row]
        BY <1>1, <2>1, <3>2 DEF Used
      <4> HIDE DEF row
      <4> QED BY <1>1, <2>1, <4>3, <4>4
    <3>3. Used(u) \/ UNCHANGED user
      BY <1>5 DEF Verify
    <3>4. CASE user' = user
      BY <1>1, <3>1, <3>4
    <3> HIDE DEF u
    <3> QED BY <3>2, <3>3, <3>4
  <2>4. Forgiven(user[u].name) /\ Pardoned({user[u].name})
    BY <1>5 DEF Verify
  <2>5. CountersDrop /\ locked' \in [Names -> BOOLEAN]
    BY <2>1, <2>4, ForgivenDrops
  <2> QED BY <2>2, <2>3, <2>5, Counters, GuessStepKeeps DEF GuessStep
<1>6. ASSUME NEW u \in Ids, Login(b, u)
      PROVE  IInv'
  <2>1. session' \in [Browsers -> Cookies] /\ UNCHANGED user /\ There(u) /\ user[u].name \in Names
    BY <1>1, <1>3, <1>6 DEF Login, Counted
  <2>2. CASE UNCHANGED <<fails, locked, wrong>>
    BY <1>1, <2>1, <2>2, Counters, GuessStepKeeps DEF GuessStep, CountersStay
  <2>3. CASE Forgiven(user[u].name) /\ Pardoned({user[u].name})
    BY <1>1, <2>1, <2>3, ForgivenDrops, Counters, GuessStepKeeps DEF GuessStep
  <2> QED BY <1>6, <2>2, <2>3 DEF Login
<1> QED BY <1>4, <1>5, <1>6

\* A lock that ends, and a restart.
LEMMA MemoryKeeps ==
    ASSUME Params, IInv, Restart \/ \E n \in Names : LockEnds(n)
    PROVE  IInv'
<1> USE DEF Params, IInv
<1>1. /\ session' \in [Browsers -> Cookies] /\ user' \in [Ids -> Users]
      /\ \A v \in Ids : user'[v].is = user[v].is /\ user'[v].name = user[v].name
  BY DEF TypeOK, Users, Cookies, Restart, LockEnds
<1>2. CASE Restart
  <2>1. 0 \in 0 .. MaxWrong
    OBVIOUS
  <2>2. /\ fails' \in [Names -> 0 .. MaxWrong] /\ locked' \in [Names -> BOOLEAN]
        /\ wrong' \in [Ids -> 0 .. MaxWrong] /\ \A u \in Ids : wrong'[u] = 0
    BY <1>2, <2>1 DEF Restart
  <2> QED BY <1>1, <2>2, GuessStepKeeps DEF GuessStep
<1>3. ASSUME NEW n \in Names, LockEnds(n) PROVE IInv'
  <2>1. locked' \in [Names -> BOOLEAN] /\ UNCHANGED <<fails, wrong>>
    BY <1>3 DEF LockEnds, TypeOK
  <2> QED BY <1>1, <2>1, Counters, GuessStepKeeps DEF GuessStep, CountersStay
<1> QED BY <1>2, <1>3

\* Steps of the pages leave the counters.  Each account keeps its row's name
\* and its history, or begins a new one, and somebody is still there.
PageStep ==
    /\ session' \in [Browsers -> Cookies] /\ user' \in [Ids -> Users]
    /\ \E u \in Ids : user'[u].is = "there"
    /\ UNCHANGED <<fails, locked>> /\ wrong' \in [Ids -> 0 .. MaxWrong]
    /\ \A u \in Ids :
           \/ /\ user'[u].is = user[u].is /\ user'[u].name = user[u].name
              /\ wrong'[u] = wrong[u]
           \/ /\ user'[u].is = "there" => user'[u].name \in Names
              /\ wrong'[u] = 0

LEMMA PageStepKeeps ==
    ASSUME Params, IInv, PageStep
    PROVE  IInv'
<1> USE DEF Params, IInv, PageStep
<1>1. TypeOK'
  BY DEF TypeOK, Users, Cookies
<1>2. SomeoneRemains'
  BY DEF SomeoneRemains, Present, There
<1>3. Counted'
  <2> SUFFICES ASSUME NEW u \in Ids
               PROVE  IF There(u)' THEN user'[u].name \in Names /\ wrong'[u] <= fails'[user'[u].name]
                      ELSE wrong'[u] = 0
    BY DEF Counted
  <2>1. CASE /\ user'[u].is = user[u].is /\ user'[u].name = user[u].name
             /\ wrong'[u] = wrong[u]
    BY <2>1 DEF Counted, There
  <2>2. CASE (user'[u].is = "there" => user'[u].name \in Names) /\ wrong'[u] = 0
    <3>1. fails \in [Names -> 0 .. MaxWrong] /\ fails' = fails
      BY DEF TypeOK
    <3> QED BY <2>2, <3>1 DEF There
  <2> QED BY <2>1, <2>2
<1> QED BY <1>1, <1>2, <1>3

\* One row is written, and its history kept or begun anew.
LEMMA RowKeeps ==
    ASSUME Params, IInv, NEW b \in Browsers, NEW cookie \in Cookies, NEW u \in Ids,
           NEW row \in Users, Current(b), session' = [session EXCEPT ![b] = cookie],
           user' = [user EXCEPT ![u] = row], UNCHANGED <<fails, locked>>,
           u = session[b].id => row.is = "there",
           \/ row.is = user[u].is /\ row.name = user[u].name /\ UNCHANGED wrong
           \/ (row.is = "there" => row.name \in Names) /\ wrong' = [wrong EXCEPT ![u] = 0]
    PROVE  IInv'
<1> USE DEF Params, IInv
<1>1. /\ user \in [Ids -> Users] /\ session \in [Browsers -> Cookies]
      /\ wrong \in [Ids -> 0 .. MaxWrong] /\ 0 \in 0 .. MaxWrong
  BY DEF TypeOK, Users, Cookies
<1>2. session[b].id \in Ids /\ There(session[b].id)
  BY CurrentIsUser
<1>3. user'[session[b].id].is = "there"
  BY <1>1, <1>2 DEF There
<1>4. session' \in [Browsers -> Cookies] /\ user' \in [Ids -> Users] /\ wrong' \in [Ids -> 0 .. MaxWrong]
  BY <1>1
<1>5. ASSUME NEW v \in Ids
      PROVE  \/ /\ user'[v].is = user[v].is /\ user'[v].name = user[v].name
                /\ wrong'[v] = wrong[v]
             \/ /\ user'[v].is = "there" => user'[v].name \in Names
                /\ wrong'[v] = 0
  <2>1. CASE v = u
    BY <1>1, <2>1
  <2>2. CASE v # u
    BY <1>1, <2>2
  <2> QED BY <2>1, <2>2
<1> QED BY <1>2, <1>3, <1>4, <1>5, PageStepKeeps DEF PageStep

LEMMA PagesKeep ==
    ASSUME Params, IInv, NEW b \in Browsers,
           \/ OfferSecret(b) \/ EnableFactor(b) \/ DisableFactor(b)
           \/ \E role \in Roles, n \in Names : CreateUser(b, role, n)
           \/ \E u \in Ids : \/ RemoveUser(b, u) \/ RescueFactor(b, u)
                             \/ \E role \in Roles, n \in Names : UpdateUser(b, u, role, n)
    PROVE  IInv'
<1> USE DEF IInv
<1> DEFINE me == session[b].id
<1>1. /\ user \in [Ids -> Users] /\ session \in [Browsers -> Cookies]
      /\ wrong \in [Ids -> 0 .. MaxWrong]
  BY DEF TypeOK, Users, Cookies
<1>2. Current(b) /\ me \in Ids /\ There(me)
  <2>1. Current(b)
    BY DEF OfferSecret, EnableFactor, DisableFactor, CreateUser, RemoveUser,
       RescueFactor, UpdateUser, ByAdmin, Admin
  <2> QED BY <2>1, CurrentIsUser
<1>3. ASSUME NEW role \in Roles
      PROVE  [session[b] EXCEPT !.role = role] \in Cookies
  BY <1>1 DEF Cookies
<1>4. Refreshed(b) \in Cookies /\ "admin" \in Roles
  BY <1>1, <1>2, <1>3 DEF Refreshed, Users, Roles
<1>5. ASSUME NEW flag \in BOOLEAN
      PROVE  [Refreshed(b) EXCEPT !.setup = flag] \in Cookies
  BY <1>4 DEF Cookies
<1>6. ASSUME NEW u \in Ids
      PROVE  \E row \in Users : /\ WithoutFactor(u) = [user EXCEPT ![u] = row]
                                /\ row.is = user[u].is /\ row.name = user[u].name
  <2> DEFINE row == [user[u] EXCEPT !.factor = FALSE, !.codes = 0]
  <2>1. user[u] \in Users /\ 0 \in 0 .. Codes
    BY <1>1 DEF Codes
  <2>2. row \in Users /\ row.is = user[u].is /\ row.name = user[u].name
    BY <2>1, FactorWritten
  <2>3. WithoutFactor(u) = [user EXCEPT ![u] = row]
    BY <1>1 DEF WithoutFactor
  <2> HIDE DEF row
  <2> QED BY <2>2, <2>3
<1>7. CASE OfferSecret(b)
  <2>1. user' = [user EXCEPT ![me] = user[me]] /\ user[me] \in Users
    BY <1>1, <1>2, <1>7 DEF OfferSecret
  <2>2. PICK cookie \in Cookies : session' = [session EXCEPT ![b] = cookie]
    BY <1>5, <1>7 DEF OfferSecret
  <2> QED BY <1>2, <1>7, <2>1, <2>2, RowKeeps DEF OfferSecret, There
<1>8. CASE EnableFactor(b)
  <2> DEFINE row == [user[me] EXCEPT !.factor = TRUE, !.codes = Codes]
  <2>1. user[me] \in Users /\ Codes \in 0 .. Codes
    BY <1>1, <1>2 DEF Codes
  <2>2. row \in Users /\ row.is = user[me].is /\ row.name = user[me].name
    BY <2>1, FactorWritten
  <2>3. user' = [user EXCEPT ![me] = row]
    BY <1>1, <1>2, <1>8 DEF EnableFactor
  <2>4. PICK cookie \in Cookies : session' = [session EXCEPT ![b] = cookie]
    BY <1>5, <1>8 DEF EnableFactor
  <2>5. UNCHANGED <<fails, locked, wrong>> /\ Current(b) /\ row.is = "there"
    BY <1>2, <1>8, <2>2 DEF EnableFactor, There
  <2> HIDE DEF row
  <2> QED BY <1>2, <2>2, <2>3, <2>4, <2>5, RowKeeps
<1>9. CASE DisableFactor(b)
  <2>1. PICK row \in Users : /\ user' = [user EXCEPT ![me] = row]
                             /\ row.is = user[me].is /\ row.name = user[me].name
    BY <1>2, <1>6, <1>9 DEF DisableFactor
  <2>2. session' = [session EXCEPT ![b] = Refreshed(b)]
    BY <1>9 DEF DisableFactor
  <2> QED BY <1>2, <1>4, <1>9, <2>1, <2>2, RowKeeps DEF DisableFactor, There
<1>10. ASSUME NEW role \in Roles, NEW n \in Names, CreateUser(b, role, n)
       PROVE  IInv'
  <2>1. /\ NewUser(role, n) \in Users /\ NewUser(role, n).is = "there"
        /\ NewUser(role, n).name = n
    BY RowsWritten
  <2>2. PICK u \in Ids : user[u].is = "never" /\ user' = [user EXCEPT ![u] = NewUser(role, n)]
    BY <1>10 DEF CreateUser
  <2>3. session' = [session EXCEPT ![b] = Refreshed(b)] /\ UNCHANGED <<fails, locked, wrong>>
    BY <1>10 DEF CreateUser, ByAdmin
  <2>4. wrong' = [wrong EXCEPT ![u] = 0]
    BY <1>1, <2>2, <2>3 DEF Counted, There
  <2> QED BY <1>2, <1>4, <2>1, <2>2, <2>3, <2>4, RowKeeps
<1>11. ASSUME NEW u \in Ids, RemoveUser(b, u)
       PROVE  IInv'
  <2> DEFINE row == [Fresh EXCEPT !.is = "gone"]
  <2>1. \E n \in Names : TRUE
    BY <1>2 DEF Counted
  <2>2. row \in Users /\ row.is = "gone"
    BY <1>4, <2>1, RowsWritten
  <2>3. /\ user' = [user EXCEPT ![u] = row] /\ u # me /\ wrong' = [wrong EXCEPT ![u] = 0]
        /\ UNCHANGED <<fails, locked>>
    BY <1>11 DEF RemoveUser, ByAdmin
  <2>4. session' = [session EXCEPT ![b] = [session[b] EXCEPT !.role = "admin"]]
    BY <1>1, <1>11 DEF RemoveUser
  <2> HIDE DEF row
  <2> QED BY <1>2, <1>3, <1>4, <2>2, <2>3, <2>4, RowKeeps
<1>12. ASSUME NEW u \in Ids, RescueFactor(b, u)
       PROVE  IInv'
  <2>1. PICK row \in Users : /\ user' = [user EXCEPT ![u] = row]
                             /\ row.is = user[u].is /\ row.name = user[u].name
    BY <1>6, <1>12 DEF RescueFactor
  <2>2. session' = [session EXCEPT ![b] = [session[b] EXCEPT !.role = "admin"]]
    BY <1>1, <1>12 DEF RescueFactor
  <2>3. UNCHANGED <<fails, locked, wrong>> /\ user[u].is = "there"
    BY <1>12 DEF RescueFactor, ByAdmin, There
  <2> QED BY <1>2, <1>3, <1>4, <2>1, <2>2, <2>3, RowKeeps
<1>13. ASSUME NEW u \in Ids, NEW role \in Roles, NEW n \in Names, UpdateUser(b, u, role, n)
       PROVE  IInv'
  <2> DEFINE half == [user[u] EXCEPT !.role = role]
             row == [user[u] EXCEPT !.role = role, !.name = n]
             new == IF session[b].id = u THEN role ELSE "admin"
  <2>1. half \in Users /\ half.is = user[u].is
    BY <1>1 DEF Users
  <2>2. row = [half EXCEPT !.name = n]
    BY <1>1 DEF Users
  <2>3. [half EXCEPT !.name = n] \in Users /\ [half EXCEPT !.name = n].is = half.is /\ [half EXCEPT !.name = n].name = n
    <3> HIDE DEF half
    <3> QED BY <2>1 DEF Users
  <2>4. row \in Users /\ row.is = user[u].is /\ row.name = n
    BY <2>1, <2>2, <2>3
  <2>5. /\ user' = [user EXCEPT ![u] = row] /\ UNCHANGED <<fails, locked>> /\ user[u].is = "there"
        /\ wrong' = IF n = user[u].name THEN wrong ELSE [wrong EXCEPT ![u] = 0]
    BY <1>13 DEF UpdateUser, ByAdmin, There
  <2>6. session' = [session EXCEPT ![b] = [session[b] EXCEPT !.role = new]] /\ new \in Roles
    BY <1>1, <1>4, <1>13 DEF UpdateUser
  <2>7. [session[b] EXCEPT !.role = new] \in Cookies
    BY <1>3, <2>6
  <2> HIDE DEF row, half, new
  <2> QED BY <1>2, <2>4, <2>5, <2>6, <2>7, RowKeeps
<1> QED BY <1>7, <1>8, <1>9, <1>10, <1>11, <1>12, <1>13

LEMMA StepKeepsIInv == Params /\ IInv /\ [Next]_accountVars => IInv'
<1> SUFFICES ASSUME Params, IInv, [Next]_accountVars PROVE IInv'
  OBVIOUS
<1>1. ASSUME NEW b \in Browsers,
             \/ Dismissed(b) \/ VerifyStale(b) \/ Logout(b) \/ Verify(b)
             \/ \E u \in Ids : Login(b, u)
      PROVE  IInv'
  BY <1>1, SignInKeeps
<1>2. ASSUME NEW b \in Browsers,
             \/ OfferSecret(b) \/ EnableFactor(b) \/ DisableFactor(b)
             \/ \E role \in Roles, n \in Names : CreateUser(b, role, n)
             \/ \E u \in Ids : \/ RemoveUser(b, u) \/ RescueFactor(b, u)
                               \/ \E role \in Roles, n \in Names : UpdateUser(b, u, role, n)
      PROVE  IInv'
  BY <1>2, PagesKeep
<1>3. ASSUME NEW b \in Browsers, VerifyWrong(b)
      PROVE  IInv'
  <2>1. Pending(b) \in Ids /\ There(Pending(b))
    BY <1>3 DEF VerifyWrong, Pending, IInv, TypeOK, Answerable
  <2> QED BY <1>3, <2>1, GuessKeeps DEF VerifyWrong
<1>4. ASSUME NEW u \in Ids, LoginWrong(u)
      PROVE  IInv'
  BY <1>4, GuessKeeps DEF LoginWrong
<1>5. ASSUME NEW n \in Names, LoginUnknown(n)
      PROVE  IInv'
  BY <1>5, UnknownKeeps
<1>6. CASE Restart \/ \E n \in Names : LockEnds(n)
  BY <1>6, MemoryKeeps
<1>7. CASE UNCHANGED accountVars
  BY <1>7 DEF accountVars, IInv, TypeOK, SomeoneRemains, Present, There, Counted
<1> QED BY <1>1, <1>2, <1>3, <1>4, <1>5, <1>6, <1>7 DEF Next

-----------------------------------------------------------------------------
\* Reachable states satisfy the inductive invariant.
THEOREM Inductive == ASSUME Params PROVE Spec => []IInv
<1>1. Init => IInv
  BY InitIInv
<1>2. IInv /\ [Next]_accountVars => IInv'
  BY StepKeepsIInv
<1> QED BY <1>1, <1>2, PTL DEF Spec

\* Rows, cookies and counters are what the handlers take them for.
THEOREM TypeCorrect == ASSUME Params PROVE Spec => []TypeOK
<1>1. IInv => TypeOK
  BY DEF IInv
<1> QED BY <1>1, Inductive, PTL

\* Whoever deletes a user is somebody who is there and remains: the table is
\* never emptied, from however many browsers (routers/users.py, remove_user).
THEOREM LastUserStays == ASSUME Params PROVE Spec => []SomeoneRemains
<1>1. IInv => SomeoneRemains
  BY DEF IInv
<1> QED BY <1>1, Inductive, PTL

\* No wrong guess at an account is forgotten by the counter that locks it, at
\* whichever step and from whichever browser it came, until its name signs in
\* completely, it is renamed, or the counter is pruned while it is not locked
\* or goes with a restart (routers/auth.py, main.py).
THEOREM NoGuessForgotten == ASSUME Params PROVE Spec => []GuessesCount
<1>1. IInv => GuessesCount
  BY DEF IInv, Counted, Present, GuessesCount
<1> QED BY <1>1, Inductive, PTL
=============================================================================
