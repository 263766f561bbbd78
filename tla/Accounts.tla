------------------------------ MODULE Accounts ------------------------------
(***************************************************************************)
(* Accounts and sign-in (backend/app/auth.py, federated_auth.py, their     *)
(* tables in storage.py and the session checks of main.py): passwords,     *)
(* lockout after failed logins, MFA set-up and challenges, sessions, roles *)
(* and OAuth flows.  There is one local account, made by the initial setup; *)
(* the others come from a provider at their first sign-in.                 *)
(*                                                                         *)
(* Requests run in threads of their own.  A method of AppStorage holds its *)
(* lock and is one step; a request is the sequence of those it calls.      *)
(* Sessions, challenges, flows and secrets are numbered in the order they  *)
(* are made; a password is known by how often it was changed.  A login is  *)
(* counted per account, the count per address is kept in the same way.     *)
(***************************************************************************)
EXTENDS Integers, FiniteSets

CONSTANTS
    Root,          \* the local account
    Identity,      \* identities of a provider, with names of their own
    Thread,
    MaxFailures,   \* failed logins before an account is locked
    Operation,     \* the requests that are made
    MaxCalls,      \* bound on the requests
    MaxLapses      \* bound on things that reach the end of their life

User == {Root} \cup Identity

ASSUME AccountAssumption ==
    Root \notin Identity /\ MaxFailures \in Nat \ {0} /\ MaxCalls \in Nat /\ MaxLapses \in Nat

VARIABLES
    accounts,    \* for each user: exists, password, admin role, MFA secret or 0
    pending,     \* for each user: the secret of a set-up in progress, or 0
    challenges,
    sessions,
    attempts,    \* for each user: failures counted, whether they lock
    flows,       \* OAuth states that were given out and not brought back
    call,        \* the request each thread is in
    made,        \* sessions, challenges, flows and secrets made so far
    calls, lapses,
    proven,      \* history: secrets whose code was entered in a set-up
    failed,      \* history: failures since the count last began
    answered,    \* history: for each challenge and flow, the sessions it led to
    met          \* history: which kinds of request met in a way they do not exclude

tables == <<accounts, pending, challenges, sessions, attempts, flows>>
history == <<proven, failed, answered, met>>
vars == <<tables, call, made, calls, lapses, history>>

Idle == [op |-> "none", stage |-> "idle", user |-> Root, password |-> 0, item |-> 0,
         count |-> 0, admin |-> FALSE, late |-> FALSE]

\* Mutant: one failure more than the limit is let through.
CountedLate(n) == [count |-> n, locked |-> n > MaxFailures]

Counted(n) == [count |-> n, locked |-> n >= MaxFailures]

TypeOK ==
    /\ accounts \in [User -> [exists : BOOLEAN, password : Nat, admin : BOOLEAN, mfa : 0 .. made]]
    /\ pending \in [User -> 0 .. made]
    /\ challenges \subseteq [id : 1 .. made, user : User, password : Nat, late : BOOLEAN, expired : BOOLEAN]
    /\ sessions \subseteq [id : 1 .. made, user : User, password : Nat, late : BOOLEAN, expired : BOOLEAN]
    /\ attempts \in [User -> [count : Nat, locked : BOOLEAN]]
    /\ flows \subseteq [id : 1 .. made, expired : BOOLEAN]
    /\ \A t \in Thread : call[t].user \in User /\ call[t].item \in 0 .. made
    /\ \A x \in challenges, y \in sessions : x.id # y.id

------------------------------------------------------------------------------
(* The tables: one operator for each write of AppStorage.                  *)

SaveAdminUser(u, admin) ==
    accounts' = [accounts EXCEPT ![u] =
                    [exists |-> TRUE, password |-> 0, admin |-> admin,
                     mfa |-> IF u = Root THEN accounts[u].mfa ELSE 0]]

SetPassword(u) == accounts' = [accounts EXCEPT ![u].password = @ + 1]
SetMfa(u, secret) == accounts' = [accounts EXCEPT ![u].mfa = secret]
SetRoles(u, admin) == accounts' = [accounts EXCEPT ![u].admin = admin]

SavePending(u, secret) == pending' = [pending EXCEPT ![u] = secret]
DropPending(u) == pending' = [pending EXCEPT ![u] = 0]

OfOthers(S, u) == {x \in S : x.user # u}
Without(S, id) == {x \in S : x.id # id}

\* A challenge or a session, for the password the request has seen.
Made(t) ==
    [id |-> made + 1, user |-> call[t].user, password |-> call[t].password,
     late |-> call[t].late, expired |-> FALSE]

SaveAttempt(u, n) == attempts' = [attempts EXCEPT ![u] = Counted(n)]
DropAttempt(u) == attempts' = [attempts EXCEPT ![u] = Counted(0)]

------------------------------------------------------------------------------
Init ==
    /\ accounts = [u \in User |-> [exists |-> u = Root, password |-> 0, admin |-> u = Root, mfa |-> 0]]
    /\ pending = [u \in User |-> 0]
    /\ challenges = {}
    /\ sessions = {}
    /\ attempts = [u \in User |-> Counted(0)]
    /\ flows = {}
    /\ call = [t \in Thread |-> Idle]
    /\ made = 0
    /\ calls = 0
    /\ lapses = 0
    /\ proven = {}
    /\ failed = [u \in User |-> 0]
    /\ answered = {}
    /\ met = {}

InStage(t, op, stage) == call[t].op = op /\ call[t].stage = stage
Goto(t, stage) == call' = [call EXCEPT ![t].stage = stage]
Return(t) == call' = [call EXCEPT ![t] = Idle]

Begin(t, op) ==
    /\ op \in Operation /\ call[t] = Idle
    /\ calls < MaxCalls /\ calls' = calls + 1

\* The password is stored, sessions and challenges for the old one not yet deleted.
ChangeInProgress == \E t \in Thread : call[t].op = "change" /\ call[t].stage # "set"

\* What a route asks of a session: one that is alive, of somebody with the role.
SignedIn(u) == \E s \in sessions : s.user = u /\ ~s.expired
AdminSignedIn == \E u \in User : SignedIn(u) /\ accounts[u].admin

------------------------------------------------------------------------------
(* Login with a password.                                                  *)

\* A lock that has lapsed is gone by now: see LockLapses.
Login(t) ==
    /\ Begin(t, "login")
    /\ ~attempts[Root].locked
    /\ call' = [call EXCEPT ![t] = [Idle EXCEPT !.op = "login", !.stage = "check"]]
    /\ UNCHANGED <<tables, made, lapses, history>>

\* The account is read and the password, right or wrong, compared.
CheckPassword(t) ==
    /\ InStage(t, "login", "check")
    /\ \E right \in BOOLEAN :
          call' = [call EXCEPT ![t].password = accounts[Root].password,
                               ![t].stage = IF ~right THEN "failed"
                                            ELSE IF accounts[Root].mfa # 0 THEN "clear" ELSE "issue"]
    /\ UNCHANGED <<tables, made, calls, lapses, history>>

ReadAttempt(t) ==
    /\ InStage(t, "login", "failed")
    /\ call' = [call EXCEPT ![t].count = attempts[Root].count + 1, ![t].stage = "count"]
    /\ met' = IF \E x \in Thread \ {t} : InStage(x, "login", "count") THEN met \cup {"count"} ELSE met
    /\ UNCHANGED <<tables, made, calls, lapses, proven, failed, answered>>

WriteAttempt(t) ==
    /\ InStage(t, "login", "count")
    /\ SaveAttempt(Root, call[t].count)
    /\ failed' = [failed EXCEPT ![Root] = @ + 1]
    /\ Return(t)
    /\ UNCHANGED <<accounts, pending, challenges, sessions, flows, made, calls, lapses,
                   proven, answered, met>>

\* A new challenge takes the place of older ones.
ClearChallenges(t) ==
    /\ InStage(t, "login", "clear")
    /\ challenges' = OfOthers(challenges, Root)
    /\ Goto(t, "challenge")
    /\ UNCHANGED <<accounts, pending, sessions, attempts, flows, made, calls, lapses, history>>

CreateChallenge(t) ==
    /\ InStage(t, "login", "challenge")
    /\ challenges' = challenges \cup {Made(t)}
    /\ made' = made + 1
    /\ Goto(t, "forget")
    /\ UNCHANGED <<accounts, pending, sessions, attempts, flows, calls, lapses, history>>

\* Every sign-in ends here: create_session.
Issue(t) ==
    /\ call[t].stage = "issue"
    /\ sessions' = sessions \cup {Made(t)}
    /\ answered' = IF call[t].item = 0 THEN answered ELSE answered \cup {<<call[t].item, made + 1>>}
    /\ made' = made + 1
    /\ IF call[t].op = "login" THEN Goto(t, "forget") ELSE Return(t)
    /\ UNCHANGED <<accounts, pending, challenges, attempts, flows, calls, lapses, proven, failed, met>>

\* A login that succeeded forgets the failures before it.
ClearAttempts(t) ==
    /\ InStage(t, "login", "forget")
    /\ DropAttempt(Root)
    /\ failed' = [failed EXCEPT ![Root] = 0]
    /\ met' = IF \E x \in Thread : InStage(x, "login", "count") THEN met \cup {"count"} ELSE met
    /\ Return(t)
    /\ UNCHANGED <<accounts, pending, challenges, sessions, flows, made, calls, lapses, proven, answered>>

\* The lock ends, or the window of the count: the next request begins at nothing.
LockLapses ==
    /\ lapses < MaxLapses /\ attempts[Root].count > 0
    /\ DropAttempt(Root)
    /\ failed' = [failed EXCEPT ![Root] = 0]
    /\ met' = IF \E x \in Thread : InStage(x, "login", "count") THEN met \cup {"count"} ELSE met
    /\ lapses' = lapses + 1
    /\ UNCHANGED <<accounts, pending, challenges, sessions, flows, call, made, calls, proven, answered>>

------------------------------------------------------------------------------
(* The second factor.                                                      *)

\* An expired challenge is deleted and that is all.
BeginVerify(t) ==
    /\ Begin(t, "verify")
    /\ \E c \in challenges :
          IF c.expired
          THEN challenges' = challenges \ {c} /\ UNCHANGED <<call, met>>
          ELSE /\ call' = [call EXCEPT ![t] = [Idle EXCEPT !.op = "verify", !.stage = "code", !.item = c.id,
                                                           !.password = c.password, !.late = c.late \/ ChangeInProgress]]
               /\ met' = IF \E x \in Thread : call[x].op = "verify" /\ call[x].item = c.id
                         THEN met \cup {"verify"} ELSE met
               /\ UNCHANGED challenges
    /\ UNCHANGED <<accounts, pending, sessions, attempts, flows, made, lapses, proven, failed, answered>>

\* The account is read again; a wrong code leaves the challenge for another try.
CheckCode(t) ==
    /\ InStage(t, "verify", "code")
    /\ IF accounts[Root].mfa = 0
       THEN challenges' = Without(challenges, call[t].item) /\ Return(t)
       ELSE UNCHANGED challenges /\ (Return(t) \/ Goto(t, "used"))
    /\ UNCHANGED <<accounts, pending, sessions, attempts, flows, made, calls, lapses, history>>

\* Mutant: the challenge stays after it was answered.
UseChallengeAgain(t) ==
    /\ InStage(t, "verify", "used")
    /\ Goto(t, "issue")
    /\ UNCHANGED <<tables, made, calls, lapses, history>>

UseChallenge(t) ==
    /\ InStage(t, "verify", "used")
    /\ challenges' = Without(challenges, call[t].item)
    /\ Goto(t, "issue")
    /\ UNCHANGED <<accounts, pending, sessions, attempts, flows, made, calls, lapses, history>>

\* A set-up begun again replaces the secret of the one before.
BeginMfaSetup(t) ==
    /\ Begin(t, "setup") /\ SignedIn(Root)
    /\ SavePending(Root, made + 1)
    /\ made' = made + 1
    /\ UNCHANGED <<accounts, challenges, sessions, attempts, flows, call, lapses, history>>

\* The code that is entered belongs to some secret that was handed out.
CheckSetup(t) ==
    /\ Begin(t, "confirm") /\ SignedIn(Root)
    /\ \E code \in 1 .. made :
          /\ pending[Root] = code
          /\ proven' = proven \cup {code}
          /\ call' = [call EXCEPT ![t] = [Idle EXCEPT !.op = "confirm", !.stage = "enable", !.item = code]]
    /\ UNCHANGED <<tables, made, lapses, failed, answered, met>>

\* Mutant: the pending secret is read again when it is enabled.
EnableNewest(t) ==
    /\ InStage(t, "confirm", "enable")
    /\ SetMfa(Root, pending[Root])
    /\ Goto(t, "dropPending")
    /\ UNCHANGED <<pending, challenges, sessions, attempts, flows, made, calls, lapses, history>>

EnableMfa(t) ==
    /\ InStage(t, "confirm", "enable")
    /\ SetMfa(Root, call[t].item)
    /\ Goto(t, "dropPending")
    /\ UNCHANGED <<pending, challenges, sessions, attempts, flows, made, calls, lapses, history>>

\* Password and code were right, both for the account as it was read.
CheckDisable(t) ==
    /\ Begin(t, "disable") /\ SignedIn(Root)
    /\ accounts[Root].mfa # 0
    /\ call' = [call EXCEPT ![t] = [Idle EXCEPT !.op = "disable", !.stage = "remove"]]
    /\ UNCHANGED <<tables, made, lapses, history>>

RemoveMfa(t) ==
    /\ InStage(t, "disable", "remove")
    /\ SetMfa(Root, 0)
    /\ Goto(t, "dropPending")
    /\ UNCHANGED <<pending, challenges, sessions, attempts, flows, made, calls, lapses, history>>

DeletePending(t) ==
    /\ call[t].stage = "dropPending"
    /\ DropPending(Root)
    /\ Goto(t, IF call[t].op = "confirm" THEN "dropChallenges" ELSE "dropSessions")
    /\ UNCHANGED <<accounts, challenges, sessions, attempts, flows, made, calls, lapses, history>>

------------------------------------------------------------------------------
(* The password.                                                           *)

CheckChange(t) ==
    /\ Begin(t, "change") /\ SignedIn(Root)
    /\ call' = [call EXCEPT ![t] = [Idle EXCEPT !.op = "change", !.stage = "set"]]
    /\ UNCHANGED <<tables, made, lapses, history>>

\* Sign-ins in progress are told apart from later ones by the properties only.
Mark(t, stage) ==
    call' = [x \in Thread |->
                IF x = t THEN IF stage = "idle" THEN Idle ELSE [call[t] EXCEPT !.stage = stage]
                ELSE IF call[t].op = "change" /\ call[x].op \in {"login", "verify"}
                THEN [call[x] EXCEPT !.late = TRUE]
                ELSE call[x]]

StorePassword(t) ==
    /\ InStage(t, "change", "set")
    /\ SetPassword(Root)
    /\ Mark(t, "dropSessions")
    /\ UNCHANGED <<pending, challenges, sessions, attempts, flows, made, calls, lapses, history>>

DeleteSessions(t) ==
    /\ call[t].stage = "dropSessions"
    /\ sessions' = OfOthers(sessions, Root)
    /\ Mark(t, "dropChallenges")
    /\ UNCHANGED <<accounts, pending, challenges, attempts, flows, made, calls, lapses, history>>

\* Mutant: the challenges of the old password are left.
KeepChallenges(t) ==
    /\ call[t].stage = "dropChallenges"
    /\ Mark(t, "idle")
    /\ UNCHANGED <<tables, made, calls, lapses, history>>

DeleteChallenges(t) ==
    /\ call[t].stage = "dropChallenges"
    /\ challenges' = OfOthers(challenges, Root)
    /\ Mark(t, "idle")
    /\ UNCHANGED <<accounts, pending, sessions, attempts, flows, made, calls, lapses, history>>

------------------------------------------------------------------------------
(* Roles.                                                                  *)

Admins == {u \in User : accounts[u].exists /\ accounts[u].admin}

\* Mutant: the last administrator is not looked for.
MayHaveRolesAny(u, admin) == accounts[u].exists

\* Somebody has to remain administrator.
MayHaveRoles(u, admin) ==
    accounts[u].exists /\ (u \in Admins /\ ~admin => Cardinality(Admins) > 1)

CheckRoles(t) ==
    /\ Begin(t, "roles") /\ AdminSignedIn
    /\ \E u \in User, admin \in BOOLEAN :
          /\ MayHaveRoles(u, admin)
          /\ call' = [call EXCEPT ![t] = [Idle EXCEPT !.op = "roles", !.stage = "store",
                                                      !.user = u, !.admin = admin]]
    /\ met' = IF \E x \in Thread : call[x].op = "roles" THEN met \cup {"roles"} ELSE met
    /\ UNCHANGED <<tables, made, lapses, proven, failed, answered>>

StoreRoles(t) ==
    /\ InStage(t, "roles", "store")
    /\ SetRoles(call[t].user, call[t].admin)
    /\ met' = IF \E x \in Thread : InStage(x, "complete", "provision") /\ call[x].user = call[t].user
              THEN met \cup {"roles"} ELSE met
    /\ Return(t)
    /\ UNCHANGED <<pending, challenges, sessions, attempts, flows, made, calls, lapses,
                   proven, failed, answered>>

------------------------------------------------------------------------------
(* Sign-in with a provider.                                                *)

BeginOauth(t) ==
    /\ Begin(t, "oauth")
    /\ flows' = flows \cup {[id |-> made + 1, expired |-> FALSE]}
    /\ made' = made + 1
    /\ UNCHANGED <<accounts, pending, challenges, sessions, attempts, call, lapses, history>>

\* Mutant: the state is only read when it is brought back.
ConsumeReading(t) ==
    /\ Begin(t, "complete")
    /\ \E f \in flows, u \in Identity :
          IF f.expired THEN UNCHANGED call
          ELSE call' = [call EXCEPT ![t] = [Idle EXCEPT !.op = "complete", !.stage = "find",
                                                        !.user = u, !.item = f.id]]
    /\ UNCHANGED <<tables, made, lapses, history>>

\* The state is taken out of its table in one step; expired, it is of no use.
Consume(t) ==
    /\ Begin(t, "complete")
    /\ \E f \in flows, u \in Identity :
          /\ flows' = flows \ {f}
          /\ IF f.expired THEN UNCHANGED call
             ELSE call' = [call EXCEPT ![t] = [Idle EXCEPT !.op = "complete", !.stage = "find",
                                                           !.user = u, !.item = f.id]]
    /\ UNCHANGED <<accounts, pending, challenges, sessions, attempts, made, lapses, history>>

\* The provider has confirmed the identity; an account is looked for, or it refuses.
FindExternal(t) ==
    /\ InStage(t, "complete", "find")
    /\ Return(t) \/ Goto(t, IF accounts[call[t].user].exists THEN "issue" ELSE "provision")
    /\ UNCHANGED <<tables, made, calls, lapses, history>>

\* A new identity may only look. The row replaces one that was made meanwhile.
Provision(t) ==
    /\ InStage(t, "complete", "provision")
    /\ SaveAdminUser(call[t].user, FALSE)
    /\ Goto(t, "issue")
    /\ UNCHANGED <<pending, challenges, sessions, attempts, flows, made, calls, lapses, history>>

------------------------------------------------------------------------------
(* The life of what was handed out.                                        *)

Lapse(S, x) == (S \ {x}) \cup {[x EXCEPT !.expired = TRUE]}

Expires ==
    /\ lapses < MaxLapses /\ lapses' = lapses + 1
    /\ \/ /\ \E s \in sessions : ~s.expired /\ sessions' = Lapse(sessions, s)
          /\ UNCHANGED <<challenges, flows>>
       \/ /\ \E c \in challenges : ~c.expired /\ challenges' = Lapse(challenges, c)
          /\ UNCHANGED <<sessions, flows>>
       \/ /\ \E f \in flows : ~f.expired /\ flows' = Lapse(flows, f)
          /\ UNCHANGED <<sessions, challenges>>
    /\ UNCHANGED <<accounts, pending, attempts, call, made, calls, history>>

\* Logging out, or an expired session that is used: the row is deleted.
EndSession ==
    /\ \E s \in sessions : /\ s.expired \/ calls < MaxCalls
                           /\ calls' = IF s.expired THEN calls ELSE calls + 1
                           /\ sessions' = sessions \ {s}
    /\ UNCHANGED <<accounts, pending, challenges, attempts, flows, call, made, lapses, history>>

Next ==
    \/ \E t \in Thread :
          \/ Login(t) \/ CheckPassword(t) \/ ReadAttempt(t) \/ WriteAttempt(t)
          \/ ClearChallenges(t) \/ CreateChallenge(t) \/ Issue(t) \/ ClearAttempts(t)
          \/ BeginVerify(t) \/ CheckCode(t) \/ UseChallenge(t)
          \/ BeginMfaSetup(t) \/ CheckSetup(t) \/ EnableMfa(t)
          \/ CheckDisable(t) \/ RemoveMfa(t) \/ DeletePending(t)
          \/ CheckChange(t) \/ StorePassword(t) \/ DeleteSessions(t) \/ DeleteChallenges(t)
          \/ CheckRoles(t) \/ StoreRoles(t)
          \/ BeginOauth(t) \/ Consume(t) \/ FindExternal(t) \/ Provision(t)
    \/ LockLapses \/ Expires \/ EndSession

Spec == Init /\ [][Next]_vars

------------------------------------------------------------------------------
(* Whatever requests change roles and sign identities in, somebody remains *)
(* administrator, unless two changes of roles have overlapped, or one with *)
(* the first sign-in of the same identity.                                 *)
AdministratorRemains == "roles" \in met \/ Admins # {}

(* Once a change of the password is through, every session and challenge   *)
(* of the account is for the new password, except those of sign-ins that   *)
(* were in progress during the change.                                     *)
SessionsFollowPassword ==
    ~ChangeInProgress =>
        \A x \in sessions \cup challenges :
            x.user = Root => x.late \/ x.password = accounts[Root].password

(* The secret that guards an account is one whose code has been entered,   *)
(* however many set-ups were begun, confirmed and taken back at once.      *)
EnabledSecretProven == \A u \in User : accounts[u].mfa # 0 => accounts[u].mfa \in proven

(* A challenge leads to one session, unless two answers to it were under   *)
(* way at the same time; an OAuth state leads to one session in any case.  *)
AnsweredOnce ==
    \A a, b \in answered : a[1] = b[1] => a = b \/ "verify" \in met

(* Unless requests that count or forget failures have overlapped, an       *)
(* account is locked when as many logins as allowed have failed since the  *)
(* count began, and not before.                                            *)
LockHolds ==
    "count" \in met \/ \A u \in User : attempts[u].locked <=> failed[u] >= MaxFailures

(* The tables have their types, and of all the secrets made only proven    *)
(* ones guard an account.                                                  *)
AccountsInv == TypeOK /\ EnabledSecretProven
=============================================================================
