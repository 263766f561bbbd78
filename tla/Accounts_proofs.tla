--------------------------- MODULE Accounts_proofs ---------------------------
(***************************************************************************)
(* The properties of accounts and sign-in, for every number of identities, *)
(* threads and requests.                                                   *)
(***************************************************************************)
EXTENDS Accounts, FiniteSetTheorems, TLAPS

------------------------------------------------------------------------------
(* Types.                                                                  *)

\* The stages of each request.
Steps ==
    {<<"none", "idle">>}
      \cup {<<"login", s>> : s \in {"check", "failed", "count", "clear", "challenge", "issue", "forget"}}
      \cup {<<"verify", s>> : s \in {"code", "used", "issue"}}
      \cup {<<"confirm", s>> : s \in {"enable", "dropPending", "dropChallenges"}}
      \cup {<<"disable", s>> : s \in {"remove", "dropPending", "dropSessions", "dropChallenges"}}
      \cup {<<"change", s>> : s \in {"set", "dropSessions", "dropChallenges"}}
      \cup {<<"roles", "store">>}
      \cup {<<"complete", s>> : s \in {"find", "provision", "issue"}}

CallType ==
    [op : {s[1] : s \in Steps}, stage : {s[2] : s \in Steps}, user : User, password : Nat,
     item : Nat, count : Nat, admin : BOOLEAN, late : BOOLEAN]

\* The counters and what a request in progress has read, beside TypeOK.
CallsOK ==
    /\ made \in Nat
    /\ call \in [Thread -> CallType]
    /\ \A t \in Thread : <<call[t].op, call[t].stage>> \in Steps
    /\ \A t \in Thread : call[t].op = "complete" => call[t].user \in Identity
    /\ \A t \in Thread : call[t].op \in {"login", "verify"} => call[t].user = Root
    /\ failed \in [User -> Nat]

Types == TypeOK /\ CallsOK

\* A thread that rests has a record of the type.
LEMMA IdleType == Idle \in CallType /\ <<Idle.op, Idle.stage>> \in Steps
<1>1. <<"none", "idle">> \in Steps
  BY DEF Steps
<1>2. "none" \in {s[1] : s \in Steps} /\ "idle" \in {s[2] : s \in Steps}
  <2>1. <<"none", "idle">>[1] = "none" /\ <<"none", "idle">>[2] = "idle"
    OBVIOUS
  <2> QED
    BY <1>1, <2>1
<1> QED
  BY <1>1, <1>2 DEF Idle, CallType, User

\* A pair of request and stage is made of one of each.
LEMMA StepParts ==
    ASSUME NEW op, NEW stage, <<op, stage>> \in Steps
    PROVE  op \in {s[1] : s \in Steps} /\ stage \in {s[2] : s \in Steps}
<1>1. <<op, stage>>[1] = op /\ <<op, stage>>[2] = stage
  OBVIOUS
<1> QED
  BY <1>1

\* Every step keeps the requests in progress well typed.
LEMMA CallsStep ==
    ASSUME Types, [Next]_vars
    PROVE  CallsOK'
<1> USE IdleType, AccountAssumption DEF Types, CallsOK
<1>1. ASSUME NEW t \in Thread, NEW c, call' = [call EXCEPT ![t] = c], c \in CallType,
             <<c.op, c.stage>> \in Steps, made' \in Nat, failed' \in [User -> Nat],
             c.op = "complete" => c.user \in Identity,
             c.op \in {"login", "verify"} => c.user = Root
      PROVE  CallsOK'
  BY <1>1
<1>2. ASSUME NEW t \in Thread, NEW op, NEW stage, InStage(t, op, stage), NEW next,
             Goto(t, next), <<op, next>> \in Steps, made' \in Nat, failed' \in [User -> Nat]
      PROVE  CallsOK'
  <2>1. next \in {s[2] : s \in Steps}
    BY <1>2
  <2>2. call[t].op = op /\ call' = [call EXCEPT ![t].stage = next]
    BY <1>2 DEF InStage, Goto
  <2>3. [call[t] EXCEPT !.stage = next] \in CallType
    BY <2>1 DEF CallType
  <2>4. /\ [call[t] EXCEPT !.stage = next].op = op
        /\ [call[t] EXCEPT !.stage = next].stage = next
        /\ [call[t] EXCEPT !.stage = next].user = call[t].user
    BY <2>2 DEF CallType
  <2> QED
    BY <1>1, <1>2, <2>2, <2>3, <2>4
<1>3. ASSUME NEW t \in Thread, Return(t), made' \in Nat, failed' \in [User -> Nat]
      PROVE  CallsOK'
  BY <1>1, <1>3 DEF Return, Idle
<1>4. ASSUME NEW t \in Thread, Login(t) PROVE CallsOK'
  <2> DEFINE c == [Idle EXCEPT !.op = "login", !.stage = "check"]
  <2>1. <<"login", "check">> \in Steps
    BY DEF Steps
  <2>2. c \in CallType /\ c.op = "login" /\ c.stage = "check" /\ c.user = Root
    BY <2>1, StepParts DEF CallType, Idle
  <2> HIDE DEF c
  <2>3. call' = [call EXCEPT ![t] = c] /\ made' = made /\ failed' = failed
    BY <1>4 DEF Login, c, history
  <2> QED
    BY <1>1, <2>1, <2>2, <2>3
<1>5. ASSUME NEW t \in Thread, CheckPassword(t) PROVE CallsOK'
  <2> PICK right \in BOOLEAN :
          call' = [call EXCEPT ![t].password = accounts[Root].password,
                               ![t].stage = IF ~right THEN "failed"
                                            ELSE IF accounts[Root].mfa # 0 THEN "clear" ELSE "issue"]
    BY <1>5 DEF CheckPassword
  <2> DEFINE next == IF ~right THEN "failed" ELSE IF accounts[Root].mfa # 0 THEN "clear" ELSE "issue"
             c == [call[t] EXCEPT !.password = accounts[Root].password, !.stage = next]
  <2>1. <<"login", next>> \in Steps
    BY DEF Steps
  <2>2. accounts[Root].password \in Nat
    BY DEF TypeOK, User
  <2>3. c \in CallType /\ c.op = "login" /\ c.stage = next /\ c.user = Root
    BY <1>5, <2>1, <2>2, StepParts DEF CheckPassword, InStage, CallType
  <2>4. call' = [call EXCEPT ![t] = c] /\ made' = made /\ failed' = failed
    BY <1>5 DEF CheckPassword, history
  <2> HIDE DEF c, next
  <2> QED
    BY <1>1, <2>1, <2>3, <2>4
<1>6. ASSUME NEW t \in Thread, ReadAttempt(t) PROVE CallsOK'
  <2> DEFINE c == [call[t] EXCEPT !.count = attempts[Root].count + 1, !.stage = "count"]
  <2>1. <<"login", "count">> \in Steps
    BY DEF Steps
  <2>2. attempts[Root].count + 1 \in Nat
    BY DEF TypeOK, User
  <2>3. c \in CallType /\ c.op = "login" /\ c.stage = "count" /\ c.user = Root
    BY <1>6, <2>1, <2>2, StepParts DEF ReadAttempt, InStage, CallType
  <2>4. call' = [call EXCEPT ![t] = c] /\ made' = made /\ failed' = failed
    BY <1>6 DEF ReadAttempt, InStage
  <2> HIDE DEF c
  <2> QED
    BY <1>1, <2>1, <2>3, <2>4
<1>7. ASSUME NEW t \in Thread, WriteAttempt(t) \/ ClearAttempts(t) PROVE CallsOK'
  <2>1. Return(t) /\ made' = made
    BY <1>7 DEF WriteAttempt, ClearAttempts
  <2>2. failed[Root] + 1 \in Nat /\ Root \in User
    BY DEF User
  <2>3. failed' \in [User -> Nat]
    BY <1>7, <2>2 DEF WriteAttempt, ClearAttempts
  <2> QED
    BY <1>3, <2>1, <2>3
<1>8. ASSUME NEW t \in Thread, ClearChallenges(t) \/ CreateChallenge(t) PROVE CallsOK'
  <2>1. <<"login", "challenge">> \in Steps /\ <<"login", "forget">> \in Steps
    BY DEF Steps
  <2>2. /\ \/ InStage(t, "login", "clear") /\ Goto(t, "challenge")
           \/ InStage(t, "login", "challenge") /\ Goto(t, "forget")
        /\ made' \in Nat /\ failed' = failed
    BY <1>8 DEF ClearChallenges, CreateChallenge, history
  <2> QED
    BY <1>2, <2>1, <2>2
<1>9. ASSUME NEW t \in Thread, Issue(t) PROVE CallsOK'
  <2>1. made' \in Nat /\ failed' = failed
    BY <1>9 DEF Issue
  <2>2. CASE call[t].op = "login"
    <3>1. <<"login", "forget">> \in Steps
      BY DEF Steps
    <3> QED
      BY <1>2, <1>9, <2>1, <2>2, <3>1 DEF Issue, InStage
  <2>3. CASE call[t].op # "login"
    BY <1>3, <1>9, <2>1, <2>3 DEF Issue
  <2> QED
    BY <2>2, <2>3
<1>10. ASSUME NEW t \in Thread, BeginVerify(t) PROVE CallsOK'
  <2>1. made' = made /\ failed' = failed
    BY <1>10 DEF BeginVerify
  <2>2. CASE UNCHANGED call
    BY <2>1, <2>2
  <2>3. ASSUME NEW x \in challenges,
               call' = [call EXCEPT ![t] = [Idle EXCEPT !.op = "verify", !.stage = "code", !.item = x.id,
                                                        !.password = x.password, !.late = x.late \/ ChangeInProgress]]
        PROVE  CallsOK'
    <3> DEFINE c == [Idle EXCEPT !.op = "verify", !.stage = "code", !.item = x.id,
                                 !.password = x.password, !.late = x.late \/ ChangeInProgress]
    <3>1. <<"verify", "code">> \in Steps
      BY DEF Steps
    <3>2. x.id \in Nat /\ x.password \in Nat
      BY DEF TypeOK
    <3>3. (x.late \/ ChangeInProgress) \in BOOLEAN
      OBVIOUS
    <3>4. c \in CallType /\ c.op = "verify" /\ c.stage = "code" /\ c.user = Root
      BY <3>1, <3>2, <3>3, StepParts DEF CallType, Idle
    <3>5. call' = [call EXCEPT ![t] = c]
      BY <2>3
    <3> HIDE DEF c
    <3> QED
      BY <1>1, <2>1, <3>1, <3>4, <3>5
  <2> QED
    BY <1>10, <2>2, <2>3 DEF BeginVerify
<1>11. ASSUME NEW t \in Thread, CheckCode(t) \/ UseChallenge(t) PROVE CallsOK'
  <2>1. <<"verify", "used">> \in Steps /\ <<"verify", "issue">> \in Steps
    BY DEF Steps
  <2>2. /\ \/ Return(t)
           \/ InStage(t, "verify", "code") /\ Goto(t, "used")
           \/ InStage(t, "verify", "used") /\ Goto(t, "issue")
        /\ made' = made /\ failed' = failed
    BY <1>11 DEF CheckCode, UseChallenge, history
  <2> QED
    BY <1>2, <1>3, <2>1, <2>2
<1>12. ASSUME NEW t \in Thread, BeginMfaSetup(t) \/ BeginOauth(t) PROVE CallsOK'
  BY <1>12 DEF BeginMfaSetup, BeginOauth, history
<1>13. ASSUME NEW t \in Thread, CheckSetup(t) PROVE CallsOK'
  <2> PICK code \in 1 .. made :
          call' = [call EXCEPT ![t] = [Idle EXCEPT !.op = "confirm", !.stage = "enable", !.item = code]]
    BY <1>13 DEF CheckSetup
  <2> DEFINE c == [Idle EXCEPT !.op = "confirm", !.stage = "enable", !.item = code]
  <2>1. <<"confirm", "enable">> \in Steps
    BY DEF Steps
  <2>2. c \in CallType /\ c.op = "confirm" /\ c.stage = "enable"
    <3>1. code \in Nat
      OBVIOUS
    <3> QED
      BY <2>1, <3>1, StepParts DEF CallType, Idle
  <2>3. call' = [call EXCEPT ![t] = c] /\ made' = made /\ failed' = failed
    BY <1>13 DEF CheckSetup
  <2> HIDE DEF c
  <2> QED
    BY <1>1, <2>1, <2>2, <2>3
<1>14. ASSUME NEW t \in Thread, EnableMfa(t) \/ RemoveMfa(t) PROVE CallsOK'
  <2>1. <<"confirm", "dropPending">> \in Steps /\ <<"disable", "dropPending">> \in Steps
    BY DEF Steps
  <2>2. /\ \/ InStage(t, "confirm", "enable")
           \/ InStage(t, "disable", "remove")
        /\ Goto(t, "dropPending") /\ made' = made /\ failed' = failed
    BY <1>14 DEF EnableMfa, RemoveMfa, history
  <2> QED
    BY <1>2, <2>1, <2>2
<1>15. ASSUME NEW t \in Thread, CheckDisable(t) \/ CheckChange(t) PROVE CallsOK'
  <2> DEFINE c == [Idle EXCEPT !.op = "disable", !.stage = "remove"]
             d == [Idle EXCEPT !.op = "change", !.stage = "set"]
  <2>1. <<"disable", "remove">> \in Steps /\ <<"change", "set">> \in Steps
    BY DEF Steps
  <2>2. /\ c \in CallType /\ c.op = "disable" /\ c.stage = "remove"
        /\ d \in CallType /\ d.op = "change" /\ d.stage = "set"
    BY <2>1, StepParts DEF CallType, Idle
  <2>3. /\ call' = [call EXCEPT ![t] = c] \/ call' = [call EXCEPT ![t] = d]
        /\ made' = made /\ failed' = failed
    BY <1>15 DEF CheckDisable, CheckChange, history
  <2> HIDE DEF c, d
  <2> QED
    BY <1>1, <2>1, <2>2, <2>3
<1>16. ASSUME NEW t \in Thread, DeletePending(t) PROVE CallsOK'
  <2>1. call[t].op \in {"confirm", "disable"}
    BY <1>16 DEF DeletePending, Steps
  <2>2. <<"confirm", "dropChallenges">> \in Steps /\ <<"disable", "dropSessions">> \in Steps
    BY DEF Steps
  <2>3. /\ InStage(t, call[t].op, "dropPending")
        /\ made' = made /\ failed' = failed
        /\ Goto(t, IF call[t].op = "confirm" THEN "dropChallenges" ELSE "dropSessions")
    BY <1>16 DEF DeletePending, InStage, history
  <2> QED
    BY <1>2, <2>1, <2>2, <2>3
<1>17. ASSUME NEW t \in Thread, NEW stage, Mark(t, stage), made' = made, failed' = failed,
              stage # "idle" => <<call[t].op, stage>> \in Steps
       PROVE  CallsOK'
  <2>1. ASSUME NEW u \in Thread
        PROVE  /\ call'[u] \in CallType /\ <<call'[u].op, call'[u].stage>> \in Steps
               /\ call'[u].op = "complete" => call'[u].user \in Identity
               /\ call'[u].op \in {"login", "verify"} => call'[u].user = Root
    <3>1. CASE u = t /\ stage = "idle"
      <4>1. call'[u] = Idle
        BY <1>17, <3>1 DEF Mark
      <4> QED
        BY <4>1 DEF Idle
    <3>2. CASE u = t /\ stage # "idle"
      <4>1. call'[u] = [call[t] EXCEPT !.stage = stage]
        BY <1>17, <3>2 DEF Mark
      <4> QED
        BY <1>17, <3>2, <4>1, StepParts DEF CallType
    <3>3. CASE u # t
      <4>1. call'[u] = [call[u] EXCEPT !.late = TRUE] \/ call'[u] = call[u]
        BY <1>17, <3>3 DEF Mark
      <4> QED
        BY <4>1 DEF CallType
    <3> QED
      BY <3>1, <3>2, <3>3
  <2>2. call' = [u \in Thread |-> call'[u]]
    BY <1>17 DEF Mark
  <2> QED
    BY <1>17, <2>1, <2>2
<1>18. ASSUME NEW t \in Thread, StorePassword(t) \/ DeleteSessions(t) \/ DeleteChallenges(t)
       PROVE  CallsOK'
  <2>1. /\ <<"change", "dropSessions">> \in Steps
        /\ <<"change", "dropChallenges">> \in Steps
        /\ <<"disable", "dropChallenges">> \in Steps
    BY DEF Steps
  <2>2. call[t].stage = "dropSessions" => call[t].op \in {"change", "disable"}
    BY DEF Steps
  <2>3. made' = made /\ failed' = failed
    BY <1>18 DEF StorePassword, DeleteSessions, DeleteChallenges, history
  <2>4. \/ InStage(t, "change", "set") /\ Mark(t, "dropSessions")
        \/ call[t].stage = "dropSessions" /\ Mark(t, "dropChallenges")
        \/ Mark(t, "idle")
    BY <1>18 DEF StorePassword, DeleteSessions, DeleteChallenges
  <2> QED
    BY <1>17, <2>1, <2>2, <2>3, <2>4 DEF InStage
<1>19. ASSUME NEW t \in Thread, CheckRoles(t) PROVE CallsOK'
  <2> PICK u \in User, admin \in BOOLEAN :
          call' = [call EXCEPT ![t] = [Idle EXCEPT !.op = "roles", !.stage = "store",
                                                   !.user = u, !.admin = admin]]
    BY <1>19 DEF CheckRoles
  <2> DEFINE c == [Idle EXCEPT !.op = "roles", !.stage = "store", !.user = u, !.admin = admin]
  <2>1. <<"roles", "store">> \in Steps
    BY DEF Steps
  <2>2. c \in CallType /\ c.op = "roles" /\ c.stage = "store"
    BY <2>1, StepParts DEF CallType, Idle
  <2>3. call' = [call EXCEPT ![t] = c] /\ made' = made /\ failed' = failed
    BY <1>19 DEF CheckRoles
  <2> HIDE DEF c
  <2> QED
    BY <1>1, <2>1, <2>2, <2>3
<1>20. ASSUME NEW t \in Thread, StoreRoles(t) PROVE CallsOK'
  BY <1>3, <1>20 DEF StoreRoles
<1>21. ASSUME NEW t \in Thread, Consume(t) PROVE CallsOK'
  <2>1. made' = made /\ failed' = failed
    BY <1>21 DEF Consume, history
  <2>2. CASE UNCHANGED call
    BY <2>1, <2>2
  <2>3. ASSUME NEW f \in flows, NEW u \in Identity,
               call' = [call EXCEPT ![t] = [Idle EXCEPT !.op = "complete", !.stage = "find",
                                                        !.user = u, !.item = f.id]]
        PROVE  CallsOK'
    <3> DEFINE c == [Idle EXCEPT !.op = "complete", !.stage = "find", !.user = u, !.item = f.id]
    <3>1. <<"complete", "find">> \in Steps
      BY DEF Steps
    <3>2. f.id \in Nat /\ u \in User
      BY DEF TypeOK, User
    <3>3. c \in CallType /\ c.op = "complete" /\ c.stage = "find" /\ c.user \in Identity
      BY <3>1, <3>2, StepParts DEF CallType, Idle
    <3>4. call' = [call EXCEPT ![t] = c]
      BY <2>3
    <3> HIDE DEF c
    <3> QED
      BY <1>1, <2>1, <3>1, <3>3, <3>4
  <2> QED
    BY <1>21, <2>2, <2>3 DEF Consume
<1>22. ASSUME NEW t \in Thread, FindExternal(t) \/ Provision(t) PROVE CallsOK'
  <2>1. <<"complete", "issue">> \in Steps /\ <<"complete", "provision">> \in Steps
    BY DEF Steps
  <2>2. /\ \/ Return(t)
           \/ InStage(t, "complete", "find") /\ (Goto(t, "issue") \/ Goto(t, "provision"))
           \/ InStage(t, "complete", "provision") /\ Goto(t, "issue")
        /\ made' = made /\ failed' = failed
    BY <1>22 DEF FindExternal, Provision, history
  <2> QED
    BY <1>2, <1>3, <2>1, <2>2
<1>23. CASE LockLapses \/ Expires \/ EndSession \/ UNCHANGED vars
  <2>1. UNCHANGED <<call, made>>
    BY <1>23 DEF LockLapses, Expires, EndSession, vars
  <2>2. failed' \in [User -> Nat]
    BY <1>23 DEF LockLapses, Expires, EndSession, vars, history
  <2> QED
    BY <2>1, <2>2
<1> QED
  BY <1>4, <1>5, <1>6, <1>7, <1>8, <1>9, <1>10, <1>11, <1>12, <1>13, <1>14, <1>15, <1>16,
     <1>18, <1>19, <1>20, <1>21, <1>22, <1>23 DEF Next

\* What has been made has a number, and what a request works on has one.
LEMMA ItemsStep ==
    ASSUME Types, [Next]_vars
    PROVE  made' \in made .. made + 1 /\ \A t \in Thread : call'[t].item \in 0 .. made'
<1> USE DEF Types, CallsOK
<1> DEFINE Items == \A t \in Thread : call'[t].item \in 0 .. made
<1>0. \A t \in Thread : call[t] \in CallType /\ call[t].item \in 0 .. made
  BY DEF TypeOK
<1>zero. 0 \in 0 .. made /\ \A code \in 1 .. made : code \in 0 .. made
  OBVIOUS
<1>1. ASSUME NEW t \in Thread, Login(t) \/ CheckDisable(t) \/ CheckChange(t) PROVE Items /\ made' = made
  <2>1. made' = made /\ \E op, stage : call' = [call EXCEPT ![t] = [Idle EXCEPT !.op = op, !.stage = stage]]
    BY <1>1 DEF Login, CheckDisable, CheckChange, tables, history
  <2> QED
    BY <1>0, <1>zero, <2>1 DEF Idle
<1>2. ASSUME NEW t \in Thread, CheckPassword(t) \/ ReadAttempt(t) PROVE Items /\ made' = made
  BY <1>0, <1>2 DEF CheckPassword, ReadAttempt, CallType
<1>3. ASSUME NEW t \in Thread,
             \/ WriteAttempt(t) \/ ClearAttempts(t) \/ ClearChallenges(t) \/ CheckCode(t)
             \/ UseChallenge(t) \/ EnableMfa(t) \/ RemoveMfa(t) \/ DeletePending(t)
             \/ StoreRoles(t) \/ FindExternal(t) \/ Provision(t)
      PROVE  Items /\ made' = made
  <2>1. made' = made /\ (Return(t) \/ \E stage : Goto(t, stage))
    BY <1>3 DEF WriteAttempt, ClearAttempts, ClearChallenges, CheckCode, UseChallenge, EnableMfa,
                RemoveMfa, DeletePending, StoreRoles, FindExternal, Provision
  <2> QED
    BY <1>0, <2>1 DEF Return, Goto, Idle, CallType
<1>4. ASSUME NEW t \in Thread, CreateChallenge(t) \/ Issue(t) PROVE Items /\ made' = made + 1
  <2>1. made' = made + 1 /\ (Return(t) \/ \E stage : Goto(t, stage))
    BY <1>4 DEF CreateChallenge, Issue
  <2> QED
    BY <1>0, <2>1 DEF Return, Goto, Idle, CallType
<1>5. ASSUME NEW t \in Thread, BeginVerify(t) PROVE Items /\ made' = made
  <2>1. \A x \in challenges : x.id \in 0 .. made
    BY DEF TypeOK
  <2> QED
    BY <1>0, <1>5, <2>1 DEF BeginVerify, Idle
<1>6. ASSUME NEW t \in Thread, BeginMfaSetup(t) \/ BeginOauth(t) PROVE Items /\ made' = made + 1
  BY <1>0, <1>6 DEF BeginMfaSetup, BeginOauth
<1>7. ASSUME NEW t \in Thread, CheckSetup(t) \/ CheckRoles(t) PROVE Items /\ made' = made
  <2>1. made' = made
    BY <1>7 DEF CheckSetup, CheckRoles
  <2>2. CASE CheckSetup(t)
    BY <1>0, <1>zero, <2>1, <2>2 DEF CheckSetup, Idle
  <2>3. CASE CheckRoles(t)
    <3>1. \E u, admin : call' = [call EXCEPT ![t] = [Idle EXCEPT !.op = "roles", !.stage = "store",
                                                                 !.user = u, !.admin = admin]]
      BY <2>3 DEF CheckRoles
    <3> QED
      BY <1>0, <1>zero, <2>1, <3>1 DEF Idle
  <2> QED
    BY <1>7, <2>2, <2>3
<1>8. ASSUME NEW t \in Thread, StorePassword(t) \/ DeleteSessions(t) \/ DeleteChallenges(t)
      PROVE  Items /\ made' = made
  <2>1. made' = made /\ \E stage : Mark(t, stage)
    BY <1>8 DEF StorePassword, DeleteSessions, DeleteChallenges
  <2> QED
    BY <1>0, <2>1 DEF Mark, Idle, CallType
<1>9. ASSUME NEW t \in Thread, Consume(t) PROVE Items /\ made' = made
  <2>1. \A f \in flows : f.id \in 0 .. made
    BY DEF TypeOK
  <2> QED
    BY <1>0, <1>9, <2>1 DEF Consume, Idle, history
<1>10. ASSUME LockLapses \/ Expires \/ EndSession \/ UNCHANGED vars PROVE Items /\ made' = made
  BY <1>0, <1>10 DEF LockLapses, Expires, EndSession, vars
<1> HIDE DEF Items, Types, CallsOK
<1>11. Items /\ (made' = made \/ made' = made + 1)
  BY <1>1, <1>2, <1>3, <1>4, <1>5, <1>6, <1>7, <1>8, <1>9, <1>10 DEF Next
<1> QED
  BY <1>11 DEF Items, Types, CallsOK

\* Every step keeps the types of the tables.
LEMMA TypeStep ==
    ASSUME Types, [Next]_vars
    PROVE  TypeOK'
<1> USE AccountAssumption DEF Types
<1>1. /\ made \in Nat /\ made' \in made .. made + 1
      /\ \A t \in Thread : call'[t].user \in User /\ call'[t].item \in 0 .. made'
      /\ \A t \in Thread : call[t] \in CallType
  BY CallsStep, ItemsStep DEF CallsOK, CallType
<1>2. Root \in User /\ Identity \subseteq User
  BY DEF User
<1>3. ASSUME UNCHANGED <<accounts, pending, challenges, sessions, attempts, flows>> PROVE TypeOK'
  BY <1>1, <1>3 DEF TypeOK
<1>4. ASSUME NEW t \in Thread,
             \/ Login(t) \/ CheckPassword(t) \/ ReadAttempt(t) \/ CheckSetup(t)
             \/ CheckDisable(t) \/ CheckChange(t) \/ CheckRoles(t) \/ FindExternal(t)
      PROVE  TypeOK'
  BY <1>3, <1>4 DEF Login, CheckPassword, ReadAttempt, CheckSetup, CheckDisable, CheckChange,
                    CheckRoles, FindExternal, tables
<1>5. ASSUME NEW n \in Nat, UNCHANGED <<accounts, pending, challenges, sessions, flows>>,
             SaveAttempt(Root, n)
      PROVE  TypeOK'
  <2>1. attempts' \in [User -> [count : Nat, locked : BOOLEAN]]
    BY <1>2, <1>5 DEF TypeOK, SaveAttempt, Counted
  <2> QED
    BY <1>1, <1>5, <2>1 DEF TypeOK
<1>6. ASSUME NEW t \in Thread, WriteAttempt(t) PROVE TypeOK'
  <2>1. call[t].count \in Nat
    BY <1>1 DEF CallType
  <2> QED
    BY <1>5, <1>6, <2>1 DEF WriteAttempt
<1>7. ASSUME NEW t \in Thread, ClearAttempts(t) PROVE TypeOK'
  BY <1>5, <1>7 DEF ClearAttempts, DropAttempt, SaveAttempt
<1>8. CASE LockLapses
  BY <1>5, <1>8 DEF LockLapses, DropAttempt, SaveAttempt
<1>9. ASSUME challenges' \subseteq challenges, sessions' \subseteq sessions, flows' \subseteq flows,
             UNCHANGED <<accounts, pending, attempts>>
      PROVE  TypeOK'
  BY <1>1, <1>9 DEF TypeOK
<1>10. ASSUME NEW t \in Thread,
              \/ ClearChallenges(t) \/ BeginVerify(t) \/ CheckCode(t) \/ UseChallenge(t)
              \/ DeleteSessions(t) \/ DeleteChallenges(t) \/ Consume(t)
       PROVE  TypeOK'
  <2>1. /\ challenges' \subseteq challenges /\ sessions' \subseteq sessions /\ flows' \subseteq flows
        /\ UNCHANGED <<accounts, pending, attempts>>
    BY <1>10 DEF ClearChallenges, BeginVerify, CheckCode, UseChallenge, DeleteSessions,
                 DeleteChallenges, Consume, OfOthers, Without
  <2> QED
    BY <1>9, <2>1
<1>11. CASE EndSession
  <2>1. /\ challenges' \subseteq challenges /\ sessions' \subseteq sessions /\ flows' \subseteq flows
        /\ UNCHANGED <<accounts, pending, attempts>>
    BY <1>11 DEF EndSession
  <2> QED
    BY <1>9, <2>1
<1>12. ASSUME NEW t \in Thread
       PROVE  Made(t) \in [id : {made + 1}, user : User, password : Nat, late : BOOLEAN, expired : BOOLEAN]
  BY <1>1 DEF Made, CallType
<1>13. ASSUME NEW t \in Thread, CreateChallenge(t) PROVE TypeOK'
  <2>1. /\ challenges' = challenges \cup {Made(t)} /\ made' = made + 1
        /\ UNCHANGED <<accounts, pending, sessions, attempts, flows>>
    BY <1>13 DEF CreateChallenge
  <2> HIDE DEF Types
  <2> QED
    BY <1>1, <1>12, <2>1 DEF TypeOK, Types
<1>14. ASSUME NEW t \in Thread, Issue(t) PROVE TypeOK'
  <2>1. /\ sessions' = sessions \cup {Made(t)} /\ made' = made + 1
        /\ UNCHANGED <<accounts, pending, challenges, attempts, flows>>
    BY <1>14 DEF Issue
  <2> QED
    BY <1>1, <1>12, <2>1 DEF TypeOK
<1>15. ASSUME NEW t \in Thread, BeginMfaSetup(t) PROVE TypeOK'
  BY <1>1, <1>2, <1>15 DEF BeginMfaSetup, SavePending, TypeOK
<1>16. ASSUME NEW t \in Thread, BeginOauth(t) PROVE TypeOK'
  <2>1. flows' \subseteq [id : 1 .. made + 1, expired : BOOLEAN]
    <3>1. \A f \in flows : f \in [id : 1 .. made + 1, expired : BOOLEAN]
      BY <1>1 DEF TypeOK
    <3>2. [id |-> made + 1, expired |-> FALSE] \in [id : 1 .. made + 1, expired : BOOLEAN]
      BY <1>1
    <3> QED
      BY <1>16, <3>1, <3>2 DEF BeginOauth
  <2> QED
    BY <1>1, <1>16, <2>1 DEF BeginOauth, TypeOK
<1>17. ASSUME accounts' \in [User -> [exists : BOOLEAN, password : Nat, admin : BOOLEAN, mfa : 0 .. made]],
              UNCHANGED <<pending, challenges, sessions, attempts, flows>>
       PROVE  TypeOK'
  BY <1>1, <1>17 DEF TypeOK
<1>18. ASSUME NEW t \in Thread, StorePassword(t) PROVE TypeOK'
  BY <1>2, <1>17, <1>18 DEF StorePassword, SetPassword, TypeOK
<1>19. ASSUME NEW t \in Thread, EnableMfa(t) \/ RemoveMfa(t) PROVE TypeOK'
  <2>1. call[t].item \in 0 .. made /\ 0 \in 0 .. made
    BY <1>1 DEF TypeOK
  <2>2. \A secret \in 0 .. made : SetMfa(Root, secret) =>
           accounts' \in [User -> [exists : BOOLEAN, password : Nat, admin : BOOLEAN, mfa : 0 .. made]]
    BY <1>2 DEF SetMfa, TypeOK
  <2> QED
    BY <1>17, <1>19, <2>1, <2>2 DEF EnableMfa, RemoveMfa
<1>20. ASSUME NEW t \in Thread, DeletePending(t) PROVE TypeOK'
  BY <1>1, <1>2, <1>20 DEF DeletePending, DropPending, TypeOK
<1>21. ASSUME NEW t \in Thread, StoreRoles(t) PROVE TypeOK'
  <2>1. call[t].user \in User /\ call[t].admin \in BOOLEAN
    BY <1>1 DEF CallType
  <2> QED
    BY <1>17, <1>21, <2>1 DEF StoreRoles, SetRoles, TypeOK
<1>22. ASSUME NEW t \in Thread, Provision(t) PROVE TypeOK'
  <2>1. call[t].user \in User
    BY <1>1 DEF CallType
  <2>2. accounts[Root].mfa \in 0 .. made /\ 0 \in 0 .. made
    BY <1>1, <1>2 DEF TypeOK
  <2> QED
    BY <1>17, <1>22, <2>1, <2>2 DEF Provision, SaveAdminUser, TypeOK
<1>23. CASE Expires
  <2> DEFINE Token == [id : 1 .. made, user : User, password : Nat, late : BOOLEAN, expired : BOOLEAN]
  <2>1. UNCHANGED <<accounts, pending, attempts, made>>
    BY <1>23 DEF Expires
  <2>2. challenges' \subseteq Token
    <3>1. \A x \in challenges : x \in Token /\ [x EXCEPT !.expired = TRUE] \in Token
      BY DEF TypeOK
    <3> HIDE DEF Token
    <3> QED
      BY <1>23, <3>1 DEF Expires, Lapse
  <2>3. sessions' \subseteq Token
    <3>1. \A x \in sessions : x \in Token /\ [x EXCEPT !.expired = TRUE] \in Token
      BY DEF TypeOK
    <3> HIDE DEF Token
    <3> QED
      BY <1>23, <3>1 DEF Expires, Lapse
  <2>4. flows' \subseteq [id : 1 .. made, expired : BOOLEAN]
    <3>1. \A x \in flows : /\ x \in [id : 1 .. made, expired : BOOLEAN]
                           /\ [x EXCEPT !.expired = TRUE] \in [id : 1 .. made, expired : BOOLEAN]
      BY DEF TypeOK
    <3> QED
      BY <1>23, <3>1 DEF Expires, Lapse
  <2>5. \A x \in challenges', y \in sessions' : x.id # y.id
    <3>1. /\ \A x \in challenges' : \E c \in challenges : x.id = c.id
          /\ \A y \in sessions' : \E c \in sessions : y.id = c.id
      BY <1>23 DEF Expires, Lapse, TypeOK
    <3> QED
      BY <3>1 DEF TypeOK
  <2> QED
    BY <1>1, <2>1, <2>2, <2>3, <2>4, <2>5 DEF TypeOK
<1>24. CASE UNCHANGED vars
  BY <1>3, <1>24 DEF vars, tables
<1> QED
  BY <1>4, <1>6, <1>7, <1>8, <1>10, <1>11, <1>13, <1>14, <1>15, <1>16, <1>18, <1>19, <1>20,
     <1>21, <1>22, <1>23, <1>24 DEF Next

------------------------------------------------------------------------------
(* Where a request stands.                                                 *)

\* What a request has read stays, but that it may be marked late.
Kept(t) ==
    /\ call'[t].op = call[t].op /\ call'[t].user = call[t].user
    /\ call'[t].password = call[t].password /\ call'[t].item = call[t].item
    /\ call'[t].count = call[t].count /\ call'[t].admin = call[t].admin
    /\ call[t].late => call'[t].late

Stays(t) == Kept(t) /\ call'[t].stage = call[t].stage
Goes(t, stage) == Kept(t) /\ call'[t].stage = stage
Rests(t) == call'[t] = Idle
OthersStay(t) == \A u \in Thread : u # t => Stays(u)

\* A thread that goes on to another stage keeps what its request has read.
LEMMA GotoGoes ==
    ASSUME Types, NEW t \in Thread, NEW stage, Goto(t, stage)
    PROVE  Goes(t, stage) /\ OthersStay(t)
BY DEF Types, CallsOK, CallType, Goto, Goes, Kept, OthersStay, Stays

\* A thread that returns rests, and the others stay.
LEMMA ReturnRests ==
    ASSUME Types, NEW t \in Thread, Return(t)
    PROVE  Rests(t) /\ OthersStay(t)
BY DEF Types, CallsOK, CallType, Return, Rests, Kept, OthersStay, Stays

\* A thread with a new record is the only one that has.
LEMMA OtherRecords ==
    ASSUME Types, NEW t \in Thread, NEW c, call' = [call EXCEPT ![t] = c]
    PROVE  call'[t] = c /\ OthersStay(t)
BY DEF Types, CallsOK, CallType, Kept, OthersStay, Stays

\* A change marks sign-ins as late and moves nobody but itself.
LEMMA MarkMoves ==
    ASSUME Types, NEW t \in Thread, NEW stage, Mark(t, stage)
    PROVE  /\ IF stage = "idle" THEN Rests(t) ELSE Goes(t, stage)
           /\ OthersStay(t)
           /\ call[t].op = "change" =>
                 \A u \in Thread : u # t /\ call[u].op \in {"login", "verify"} => call'[u].late
<1>1. \A u \in Thread : call[u] \in CallType
  BY DEF Types, CallsOK
<1>2. /\ stage = "idle" => call'[t] = Idle
      /\ stage # "idle" => call'[t] = [call[t] EXCEPT !.stage = stage]
  BY DEF Mark
<1>3. (IF stage = "idle" THEN Rests(t) ELSE Goes(t, stage))
  BY <1>1, <1>2 DEF Rests, Goes, Kept, CallType
<1>4. \A u \in Thread : u # t =>
        call'[u] = IF call[t].op = "change" /\ call[u].op \in {"login", "verify"}
                   THEN [call[u] EXCEPT !.late = TRUE] ELSE call[u]
  BY DEF Mark
<1>5. OthersStay(t)
  BY <1>1, <1>4 DEF OthersStay, Stays, Kept, CallType
<1>6. call[t].op = "change" =>
        \A u \in Thread : u # t /\ call[u].op \in {"login", "verify"} => call'[u].late
  BY <1>1, <1>4 DEF CallType
<1> QED
  BY <1>3, <1>5, <1>6

\* Where the thread of a step stands after it.
Moves(t) ==
    /\ Login(t) => InStage(t, "login", "check")' /\ call'[t].item = 0
    /\ CheckPassword(t) => /\ call'[t].op = "login"
                           /\ call'[t].stage \in {"failed", "clear", "issue"}
                           /\ call'[t].password = accounts[Root].password
                           /\ call'[t].late = call[t].late
                           /\ call'[t].item = call[t].item
                           /\ call'[t].user = call[t].user
    /\ ReadAttempt(t) => /\ InStage(t, "login", "count")'
                         /\ call'[t].count = attempts[Root].count + 1
                         /\ call'[t].password = call[t].password
                         /\ call'[t].late = call[t].late
                         /\ call'[t].item = call[t].item
    /\ WriteAttempt(t) \/ ClearAttempts(t) \/ StoreRoles(t) => Rests(t)
    /\ ClearChallenges(t) => Goes(t, "challenge")
    /\ CreateChallenge(t) => Goes(t, "forget")
    /\ Issue(t) => IF call[t].op = "login" THEN Goes(t, "forget") ELSE Rests(t)
    /\ CheckCode(t) => Rests(t) \/ Goes(t, "used")
    /\ UseChallenge(t) \/ Provision(t) => Goes(t, "issue")
    /\ CheckSetup(t) => InStage(t, "confirm", "enable")' /\ proven' = proven \cup {call'[t].item}
    /\ EnableMfa(t) \/ RemoveMfa(t) => Goes(t, "dropPending")
    /\ CheckDisable(t) => InStage(t, "disable", "remove")'
    /\ DeletePending(t) => Goes(t, IF call[t].op = "confirm" THEN "dropChallenges" ELSE "dropSessions")
    /\ CheckChange(t) => InStage(t, "change", "set")'
    /\ CheckRoles(t) => InStage(t, "roles", "store")' /\ MayHaveRoles(call'[t].user, call'[t].admin)
    /\ FindExternal(t) => Rests(t) \/ Goes(t, IF accounts[call[t].user].exists THEN "issue" ELSE "provision")

\* Every step of a thread takes it where its request says.
LEMMA ThreadMoves ==
    ASSUME Types, NEW t \in Thread
    PROVE  Moves(t)
<1>1. Login(t) => InStage(t, "login", "check")' /\ call'[t].item = 0
  BY DEF Login, InStage, Idle, Types, CallsOK
<1>2. CheckPassword(t) => /\ call'[t].op = "login"
                          /\ call'[t].stage \in {"failed", "clear", "issue"}
                          /\ call'[t].password = accounts[Root].password
                          /\ call'[t].late = call[t].late
                          /\ call'[t].item = call[t].item
                          /\ call'[t].user = call[t].user
  BY DEF CheckPassword, InStage, Types, CallsOK, CallType
<1>3. ReadAttempt(t) => /\ InStage(t, "login", "count")'
                        /\ call'[t].count = attempts[Root].count + 1
                        /\ call'[t].password = call[t].password
                        /\ call'[t].late = call[t].late
                        /\ call'[t].item = call[t].item
  BY DEF ReadAttempt, InStage, Types, CallsOK, CallType
<1>4. WriteAttempt(t) \/ ClearAttempts(t) \/ StoreRoles(t) => Rests(t)
  BY ReturnRests DEF WriteAttempt, ClearAttempts, StoreRoles
<1>5. (ClearChallenges(t) => Goes(t, "challenge")) /\ (CreateChallenge(t) => Goes(t, "forget"))
  BY GotoGoes DEF ClearChallenges, CreateChallenge
<1>6. Issue(t) => IF call[t].op = "login" THEN Goes(t, "forget") ELSE Rests(t)
  BY GotoGoes, ReturnRests DEF Issue
<1>7. CheckCode(t) => Rests(t) \/ Goes(t, "used")
  BY GotoGoes, ReturnRests DEF CheckCode
<1>8. UseChallenge(t) \/ Provision(t) => Goes(t, "issue")
  BY GotoGoes DEF UseChallenge, Provision
<1>9. CheckSetup(t) => InStage(t, "confirm", "enable")' /\ proven' = proven \cup {call'[t].item}
  BY DEF CheckSetup, InStage, Idle, Types, CallsOK
<1>10. EnableMfa(t) \/ RemoveMfa(t) => Goes(t, "dropPending")
  BY GotoGoes DEF EnableMfa, RemoveMfa
<1>11. (CheckDisable(t) => InStage(t, "disable", "remove")') /\ (CheckChange(t) => InStage(t, "change", "set")')
  BY DEF CheckDisable, CheckChange, InStage, Idle, Types, CallsOK
<1>12. DeletePending(t) => Goes(t, IF call[t].op = "confirm" THEN "dropChallenges" ELSE "dropSessions")
  BY GotoGoes DEF DeletePending
<1>13. CheckRoles(t) => InStage(t, "roles", "store")' /\ MayHaveRoles(call'[t].user, call'[t].admin)
  BY DEF CheckRoles, InStage, Idle, Types, CallsOK
<1>14. FindExternal(t) => Rests(t) \/ Goes(t, IF accounts[call[t].user].exists THEN "issue" ELSE "provision")
  BY GotoGoes, ReturnRests DEF FindExternal
<1> QED
  BY <1>1, <1>2, <1>3, <1>4, <1>5, <1>6, <1>7, <1>8, <1>9, <1>10, <1>11, <1>12, <1>13, <1>14 DEF Moves

\* A step of a thread.
ThreadStep(t) ==
    \/ Login(t) \/ CheckPassword(t) \/ ReadAttempt(t) \/ WriteAttempt(t)
    \/ ClearChallenges(t) \/ CreateChallenge(t) \/ Issue(t) \/ ClearAttempts(t)
    \/ BeginVerify(t) \/ CheckCode(t) \/ UseChallenge(t)
    \/ BeginMfaSetup(t) \/ CheckSetup(t) \/ EnableMfa(t)
    \/ CheckDisable(t) \/ RemoveMfa(t) \/ DeletePending(t)
    \/ CheckChange(t) \/ StorePassword(t) \/ DeleteSessions(t) \/ DeleteChallenges(t)
    \/ CheckRoles(t) \/ StoreRoles(t)
    \/ BeginOauth(t) \/ Consume(t) \/ FindExternal(t) \/ Provision(t)

\* Only threads move requests.
LEMMA StepsOfThreads ==
    ASSUME Types, [Next]_vars
    PROVE  \/ \E t \in Thread : ThreadStep(t)
           \/ (LockLapses \/ Expires \/ EndSession \/ UNCHANGED vars) /\ UNCHANGED call
BY DEF Next, ThreadStep, LockLapses, Expires, EndSession, vars

\* A second factor is asked for in the name of a challenge that has not expired.
LEMMA VerifyBegins ==
    ASSUME Types, NEW t \in Thread, BeginVerify(t)
    PROVE  /\ OthersStay(t)
           /\ \/ UNCHANGED call
              \/ /\ InStage(t, "verify", "code")' /\ UNCHANGED challenges
                 /\ \E c \in challenges :
                       /\ call'[t].item = c.id /\ call'[t].password = c.password
                       /\ call'[t].late = (c.late \/ ChangeInProgress)
<1>1. CASE UNCHANGED call
  BY <1>1 DEF OthersStay, Stays, Kept
<1>2. ASSUME NEW c \in challenges, UNCHANGED challenges,
             call' = [call EXCEPT ![t] = [Idle EXCEPT !.op = "verify", !.stage = "code", !.item = c.id,
                                                      !.password = c.password, !.late = c.late \/ ChangeInProgress]]
      PROVE  /\ OthersStay(t) /\ InStage(t, "verify", "code")'
             /\ call'[t].item = c.id /\ call'[t].password = c.password
             /\ call'[t].late = (c.late \/ ChangeInProgress)
  <2>1. OthersStay(t)
    BY <1>2, OtherRecords
  <2>2. call'[t] = [Idle EXCEPT !.op = "verify", !.stage = "code", !.item = c.id,
                                !.password = c.password, !.late = c.late \/ ChangeInProgress]
    BY <1>2 DEF Types, CallsOK
  <2> QED
    BY <2>1, <2>2 DEF InStage, Idle
<1>3. \/ UNCHANGED call
      \/ /\ UNCHANGED challenges
         /\ \E c \in challenges :
              call' = [call EXCEPT ![t] = [Idle EXCEPT !.op = "verify", !.stage = "code", !.item = c.id,
                                                       !.password = c.password, !.late = c.late \/ ChangeInProgress]]
  BY DEF BeginVerify
<1> QED
  BY <1>1, <1>2, <1>3

\* A sign-in with a provider takes its flow away.
LEMMA ConsumeBegins ==
    ASSUME Types, NEW t \in Thread, Consume(t)
    PROVE  /\ OthersStay(t)
           /\ \E f \in flows : /\ flows' = flows \ {f}
                               /\ \/ UNCHANGED call
                                  \/ InStage(t, "complete", "find")' /\ call'[t].item = f.id
<1>1. PICK f \in flows, u \in Identity :
        /\ flows' = flows \ {f}
        /\ \/ UNCHANGED call
           \/ call' = [call EXCEPT ![t] = [Idle EXCEPT !.op = "complete", !.stage = "find",
                                                       !.user = u, !.item = f.id]]
  BY DEF Consume
<1>2. CASE UNCHANGED call
  BY <1>1, <1>2 DEF OthersStay, Stays, Kept
<1>3. CASE call' = [call EXCEPT ![t] = [Idle EXCEPT !.op = "complete", !.stage = "find",
                                                    !.user = u, !.item = f.id]]
  <2>1. OthersStay(t)
    BY <1>3, OtherRecords
  <2>2. call'[t] = [Idle EXCEPT !.op = "complete", !.stage = "find", !.user = u, !.item = f.id]
    BY <1>3 DEF Types, CallsOK
  <2> QED
    BY <1>1, <2>1, <2>2 DEF InStage, Idle
<1> QED
  BY <1>1, <1>2, <1>3

\* A thread moves only itself.
LEMMA OneThreadMoves ==
    ASSUME Types, NEW t \in Thread, ThreadStep(t)
    PROVE  OthersStay(t)
<1>1. ASSUME NEW c, call' = [call EXCEPT ![t] = c] PROVE OthersStay(t)
  BY <1>1, OtherRecords
<1>2. CASE \/ WriteAttempt(t) \/ ClearAttempts(t) \/ StoreRoles(t) \/ ClearChallenges(t) \/ CreateChallenge(t)
           \/ Issue(t) \/ CheckCode(t) \/ UseChallenge(t) \/ Provision(t) \/ EnableMfa(t) \/ RemoveMfa(t)
           \/ DeletePending(t) \/ FindExternal(t)
  <2>1. Return(t) \/ \E stage : Goto(t, stage)
    BY <1>2 DEF WriteAttempt, ClearAttempts, StoreRoles, ClearChallenges, CreateChallenge, Issue, CheckCode,
                UseChallenge, Provision, EnableMfa, RemoveMfa, DeletePending, FindExternal
  <2> QED
    BY <2>1, GotoGoes, ReturnRests
<1>3. CASE StorePassword(t) \/ DeleteSessions(t) \/ DeleteChallenges(t)
  BY <1>3, MarkMoves DEF StorePassword, DeleteSessions, DeleteChallenges
<1>4. CASE Login(t) \/ CheckPassword(t) \/ ReadAttempt(t) \/ CheckDisable(t) \/ CheckChange(t)
  <2>1. \A u \in Thread : u # t => call'[u] = call[u]
    BY <1>4 DEF Login, CheckPassword, ReadAttempt, CheckDisable, CheckChange, Types, CallsOK
  <2> QED
    BY <2>1 DEF OthersStay, Stays, Kept
<1>5. CASE CheckSetup(t) \/ CheckRoles(t)
  <2>1. \A u \in Thread : u # t => call'[u] = call[u]
    BY <1>5 DEF CheckSetup, CheckRoles, Types, CallsOK
  <2> QED
    BY <2>1 DEF OthersStay, Stays, Kept
<1>6. CASE BeginMfaSetup(t) \/ BeginOauth(t)
  BY <1>6 DEF BeginMfaSetup, BeginOauth, OthersStay, Stays, Kept
<1> QED
  BY <1>2, <1>3, <1>4, <1>5, <1>6, VerifyBegins, ConsumeBegins DEF ThreadStep

\* Where a thread stands tells which step has taken it there.
Entries(t) ==
    /\ InStage(t, "login", "count")' => Stays(t) \/ ReadAttempt(t)
    /\ InStage(t, "confirm", "enable")' => Stays(t) \/ CheckSetup(t)
    /\ InStage(t, "roles", "store")' => Stays(t) \/ CheckRoles(t)
    /\ InStage(t, "complete", "provision")' => Stays(t) \/ FindExternal(t)
    /\ call'[t].op = "login" =>
          Login(t) \/ CheckPassword(t) \/ ReadAttempt(t) \/ Stays(t) \/ (Kept(t) /\ call[t].stage # "check")
    /\ call'[t].op = "verify" => Kept(t) \/ BeginVerify(t)
    /\ call'[t].op = "complete" => Kept(t) \/ Consume(t)
    /\ call'[t].stage = "issue" => Stays(t) \/ CheckPassword(t) \/ UseChallenge(t) \/ FindExternal(t) \/ Provision(t)

\* Every step of a thread is one that leads where it stands then.
LEMMA ThreadEntries ==
    ASSUME Types, NEW t \in Thread, ThreadStep(t)
    PROVE  Entries(t)
<1>1. Moves(t)
  BY ThreadMoves
<1> USE DEF Entries, InStage, Goes, Rests, Idle
<1>2. CASE \/ Login(t) \/ CheckPassword(t) \/ ReadAttempt(t) \/ CheckSetup(t) \/ CheckDisable(t)
           \/ CheckChange(t) \/ CheckRoles(t)
  <2>1. CASE Login(t) \/ CheckDisable(t) \/ CheckChange(t)
    BY <1>1, <2>1 DEF Moves
  <2>2. CASE CheckPassword(t)
    BY <1>1, <2>2 DEF Moves
  <2>3. CASE ReadAttempt(t)
    BY <1>1, <2>3 DEF Moves
  <2>4. CASE CheckSetup(t) \/ CheckRoles(t)
    BY <1>1, <2>4 DEF Moves
  <2> QED
    BY <1>2, <2>1, <2>2, <2>3, <2>4
<1>3. CASE \/ WriteAttempt(t) \/ ClearAttempts(t) \/ StoreRoles(t) \/ ClearChallenges(t) \/ CreateChallenge(t)
           \/ Issue(t) \/ CheckCode(t) \/ UseChallenge(t)
  <2>1. call[t].stage # "check"
    BY <1>3 DEF WriteAttempt, ClearAttempts, StoreRoles, ClearChallenges, CreateChallenge, Issue, CheckCode, UseChallenge
  <2> QED
    BY <1>1, <1>3, <2>1 DEF Moves
<1>4. CASE EnableMfa(t) \/ RemoveMfa(t) \/ DeletePending(t) \/ FindExternal(t) \/ Provision(t)
  <2>1. call[t].stage # "check"
    BY <1>4 DEF EnableMfa, RemoveMfa, DeletePending, FindExternal, Provision
  <2> QED
    BY <1>1, <1>4, <2>1 DEF Moves
<1>5. CASE StorePassword(t) \/ DeleteSessions(t) \/ DeleteChallenges(t)
  <2>1. /\ call[t].stage # "check"
        /\ \E stage \in {"dropSessions", "dropChallenges", "idle"} : Mark(t, stage)
    BY <1>5 DEF StorePassword, DeleteSessions, DeleteChallenges
  <2> QED
    BY <2>1, MarkMoves
<1>6. CASE BeginMfaSetup(t) \/ BeginOauth(t)
  BY <1>6 DEF BeginMfaSetup, BeginOauth, Stays, Kept
<1>7. CASE BeginVerify(t)
  BY <1>7, VerifyBegins DEF Stays, Kept
<1>8. CASE Consume(t)
  BY <1>8, ConsumeBegins DEF Stays, Kept
<1> QED
  BY <1>2, <1>3, <1>4, <1>5, <1>6, <1>7, <1>8 DEF ThreadStep

------------------------------------------------------------------------------
(* The secret that guards an account has been proven.                      *)

SecretInv ==
    /\ EnabledSecretProven
    /\ \A t \in Thread : InStage(t, "confirm", "enable") => call[t].item \in proven

\* Secrets are taken from requests that have proven them.
LEMMA SecretsOfAccounts ==
    ASSUME Types, NEW t \in Thread, ThreadStep(t), NEW u \in User
    PROVE  \/ accounts'[u].mfa \in {accounts[u].mfa, 0}
           \/ EnableMfa(t) /\ accounts'[u].mfa = call[t].item
<1> USE DEF Types, CallsOK, TypeOK
<1>1. CASE UNCHANGED accounts
  BY <1>1
<1>2. CASE EnableMfa(t) \/ RemoveMfa(t)
  BY <1>2 DEF EnableMfa, RemoveMfa, SetMfa
<1>3. CASE StorePassword(t) \/ StoreRoles(t)
  <2>1. accounts \in [User -> [exists : BOOLEAN, password : Nat, admin : BOOLEAN, mfa : 0 .. made]]
    OBVIOUS
  <2> HIDE DEF Types, CallsOK, TypeOK
  <2>2. CASE StorePassword(t)
    BY <2>1, <2>2 DEF StorePassword, SetPassword
  <2>3. CASE StoreRoles(t)
    BY <2>1, <2>3 DEF StoreRoles, SetRoles
  <2> QED
    BY <1>3, <2>2, <2>3
<1>4. CASE Provision(t)
  BY <1>4 DEF Provision, SaveAdminUser
<1> HIDE DEF Types, CallsOK, TypeOK
<1>5. \/ UNCHANGED accounts \/ EnableMfa(t) \/ RemoveMfa(t) \/ StorePassword(t) \/ StoreRoles(t) \/ Provision(t)
  BY DEF ThreadStep, tables, Login, CheckPassword, ReadAttempt, WriteAttempt, ClearAttempts, ClearChallenges,
      CreateChallenge, Issue, BeginVerify, CheckCode, UseChallenge, BeginMfaSetup, CheckSetup, CheckDisable,
      DeletePending, CheckChange, DeleteSessions, DeleteChallenges, CheckRoles, BeginOauth, Consume, FindExternal
<1> QED
  BY <1>1, <1>2, <1>3, <1>4, <1>5

\* What is proven stays so.
LEMMA ProvenStays ==
    ASSUME NEW t \in Thread, ThreadStep(t)
    PROVE  proven \subseteq proven'
BY DEF ThreadStep, history, Login, CheckPassword, ReadAttempt, WriteAttempt, ClearAttempts, ClearChallenges,
      CreateChallenge, Issue, BeginVerify, CheckCode, UseChallenge, BeginMfaSetup, CheckSetup, CheckDisable,
      DeletePending, CheckChange, DeleteSessions, DeleteChallenges, CheckRoles, BeginOauth, Consume, FindExternal,
      EnableMfa, RemoveMfa, StorePassword, StoreRoles, Provision

\* Every step keeps the secrets proven.
LEMMA SecretStep ==
    ASSUME Types, SecretInv, [Next]_vars
    PROVE  SecretInv'
<1> USE DEF SecretInv, EnabledSecretProven
<1>1. ASSUME NEW t \in Thread, ThreadStep(t) PROVE SecretInv'
  <2>1. proven \subseteq proven' /\ OthersStay(t) /\ Entries(t) /\ Moves(t)
    BY <1>1, ProvenStays, OneThreadMoves, ThreadEntries, ThreadMoves
  <2>2. \A u \in User : accounts'[u].mfa # 0 => accounts'[u].mfa \in proven'
    BY <1>1, <2>1, SecretsOfAccounts DEF EnableMfa
  <2>3. \A x \in Thread : InStage(x, "confirm", "enable")' => call'[x].item \in proven'
    BY <2>1 DEF OthersStay, Entries, Moves, Stays, Kept, InStage
  <2> QED
    BY <2>2, <2>3
<1>2. CASE (LockLapses \/ Expires \/ EndSession \/ UNCHANGED vars) /\ UNCHANGED call
  BY <1>2 DEF LockLapses, Expires, EndSession, vars, tables, history, InStage
<1> QED
  BY <1>1, <1>2, StepsOfThreads

------------------------------------------------------------------------------
(* The count of failures.                                                  *)

Met(kind) == kind \in met

LockInv ==
    /\ \A u \in User : attempts[u].locked <=> attempts[u].count >= MaxFailures
    /\ Met("count") \/ \A u \in User : attempts[u].count = failed[u]
    /\ Met("count") \/ \A t \in Thread : InStage(t, "login", "count") =>
          /\ call[t].count = attempts[Root].count + 1
          /\ \A x \in Thread : InStage(x, "login", "count") => x = t

\* Every step keeps the count.
LEMMA LockStep ==
    ASSUME Types, LockInv, [Next]_vars
    PROVE  LockInv'
<1> USE DEF LockInv
<1>1. /\ attempts \in [User -> [count : Nat, locked : BOOLEAN]] /\ failed \in [User -> Nat]
      /\ Root \in User /\ call \in [Thread -> CallType] /\ MaxFailures \in Nat \ {0}
  BY AccountAssumption DEF Types, TypeOK, CallsOK, User
<1>2. ASSUME NEW t \in Thread, ThreadStep(t), UNCHANGED <<attempts, failed>>, met \subseteq met',
             ~ ReadAttempt(t)
      PROVE  LockInv'
  <2>1. OthersStay(t) /\ Entries(t)
    BY <1>2, OneThreadMoves, ThreadEntries
  <2>2. \A x \in Thread : InStage(x, "login", "count")' =>
           InStage(x, "login", "count") /\ call'[x].count = call[x].count
    BY <1>2, <2>1 DEF OthersStay, Entries, Stays, Kept, InStage
  <2> QED
    BY <1>2, <2>2 DEF Met
<1>3. ASSUME NEW t \in Thread, ReadAttempt(t) PROVE LockInv'
  <2>1. OthersStay(t) /\ Moves(t)
    BY <1>3, OneThreadMoves, ThreadMoves DEF ThreadStep
  <2>2. /\ UNCHANGED <<attempts, failed>>
        /\ met \subseteq met'
        /\ (\E x \in Thread \ {t} : InStage(x, "login", "count")) => Met("count")'
    BY <1>3 DEF ReadAttempt, tables, Met
  <2>3. \A x \in Thread : x # t /\ InStage(x, "login", "count")' => InStage(x, "login", "count")
    BY <2>1 DEF OthersStay, Stays, Kept, InStage
  <2> QED
    BY <1>3, <2>1, <2>2, <2>3 DEF Moves, Met
<1>4. ASSUME NEW t \in Thread, WriteAttempt(t) PROVE LockInv'
  <2>1. OthersStay(t) /\ Rests(t)
    BY <1>4, OneThreadMoves, ThreadMoves DEF ThreadStep, Moves
  <2>2. /\ InStage(t, "login", "count") /\ call[t].count \in Nat
        /\ attempts' = [attempts EXCEPT ![Root] = Counted(call[t].count)]
        /\ failed' = [failed EXCEPT ![Root] = @ + 1]
        /\ met' = met
    BY <1>1, <1>4 DEF WriteAttempt, SaveAttempt, CallType
  <2>3. \A x \in Thread : InStage(x, "login", "count")' => x # t /\ InStage(x, "login", "count")
    BY <2>1 DEF OthersStay, Rests, Stays, Kept, InStage, Idle
  <2> QED
    BY <1>1, <2>2, <2>3 DEF Counted, Met
<1>5. ASSUME DropAttempt(Root), failed' = [failed EXCEPT ![Root] = 0],
             met' = IF \E x \in Thread : InStage(x, "login", "count") THEN met \cup {"count"} ELSE met,
             \A x \in Thread : InStage(x, "login", "count")' => InStage(x, "login", "count")
      PROVE  LockInv'
  BY <1>1, <1>5 DEF DropAttempt, Counted, Met
<1>6. ASSUME NEW t \in Thread, ClearAttempts(t) PROVE LockInv'
  <2>1. OthersStay(t) /\ Rests(t)
    BY <1>6, OneThreadMoves, ThreadMoves DEF ThreadStep, Moves
  <2>2. \A x \in Thread : InStage(x, "login", "count")' => InStage(x, "login", "count")
    BY <2>1 DEF OthersStay, Rests, Stays, Kept, InStage, Idle
  <2> QED
    BY <1>5, <1>6, <2>2 DEF ClearAttempts
<1>7. CASE LockLapses
  BY <1>5, <1>7 DEF LockLapses, InStage
<1>8. CASE Expires \/ EndSession \/ UNCHANGED vars
  BY <1>8 DEF Expires, EndSession, vars, tables, history, InStage, Met
<1>9. ASSUME NEW t \in Thread, ThreadStep(t), ~ ReadAttempt(t), ~ WriteAttempt(t), ~ ClearAttempts(t)
      PROVE  UNCHANGED <<attempts, failed>> /\ met \subseteq met'
  BY <1>9 DEF ThreadStep, tables, history, Login, CheckPassword, ClearChallenges,
      CreateChallenge, Issue, BeginVerify, CheckCode, UseChallenge, BeginMfaSetup, CheckSetup, CheckDisable,
      DeletePending, CheckChange, DeleteSessions, DeleteChallenges, CheckRoles, BeginOauth, Consume, FindExternal,
      EnableMfa, RemoveMfa, StorePassword, StoreRoles, Provision
<1> QED
  BY <1>2, <1>3, <1>4, <1>6, <1>7, <1>8, <1>9, StepsOfThreads

------------------------------------------------------------------------------
(* Sessions follow the password.                                           *)

ForPassword(x) == x.late \/ x.password = accounts[Root].password

PasswordInv ==
    /\ \A s \in sessions : s.user = Root =>
          ForPassword(s) \/ \E t \in Thread : InStage(t, "change", "dropSessions")
    /\ \A c \in challenges :
          /\ c.user = Root
          /\ \/ ForPassword(c)
             \/ \E t \in Thread : InStage(t, "change", "dropSessions") \/ InStage(t, "change", "dropChallenges")
    /\ \A t \in Thread : call[t].op = "login" /\ call[t].stage # "check" => ForPassword(call[t])
    /\ \A t \in Thread : call[t].op = "verify" => ForPassword(call[t])

\* The password changes with a change of the password only.
LEMMA PasswordOfRoot ==
    ASSUME Types, NEW t \in Thread, ThreadStep(t), ~ StorePassword(t)
    PROVE  accounts'[Root].password = accounts[Root].password
<1>1. /\ accounts \in [User -> [exists : BOOLEAN, password : Nat, admin : BOOLEAN, mfa : 0 .. made]]
      /\ Root \in User
  BY DEF Types, TypeOK, User
<1>2. CASE EnableMfa(t) \/ RemoveMfa(t)
  BY <1>1, <1>2 DEF EnableMfa, RemoveMfa, SetMfa
<1>3. CASE StoreRoles(t)
  BY <1>1, <1>3 DEF StoreRoles, SetRoles
<1>4. CASE Provision(t)
  <2>1. call[t].user # Root
    BY <1>4, AccountAssumption DEF Provision, InStage, Types, CallsOK
  <2> QED
    BY <1>1, <1>4, <2>1 DEF Provision, SaveAdminUser
<1>5. UNCHANGED accounts \/ EnableMfa(t) \/ RemoveMfa(t) \/ StoreRoles(t) \/ Provision(t)
  BY DEF ThreadStep, tables, Login, CheckPassword, ReadAttempt, WriteAttempt, ClearAttempts, ClearChallenges,
      CreateChallenge, Issue, BeginVerify, CheckCode, UseChallenge, BeginMfaSetup, CheckSetup, CheckDisable,
      DeletePending, CheckChange, DeleteSessions, DeleteChallenges, CheckRoles, BeginOauth, Consume, FindExternal
<1> QED
  BY <1>2, <1>3, <1>4, <1>5

\* Every step keeps what sessions, challenges and sign-ins know of the password.
LEMMA PasswordStep ==
    ASSUME Types, PasswordInv, [Next]_vars
    PROVE  PasswordInv'
<1> DEFINE Covers(s) == ForPassword(s) \/ \E t \in Thread : InStage(t, "change", "dropSessions")
           CoversChallenge(c) ==
              /\ c.user = Root
              /\ \/ ForPassword(c)
                 \/ \E t \in Thread : InStage(t, "change", "dropSessions") \/ InStage(t, "change", "dropChallenges")
           Signing(t) == (call[t].op = "login" /\ call[t].stage # "check") \/ call[t].op = "verify"
<1>1. /\ \A s \in sessions : s.user = Root => Covers(s)
      /\ \A c \in challenges : CoversChallenge(c)
      /\ \A t \in Thread : Signing(t) => ForPassword(call[t])
  BY DEF PasswordInv
<1>2. ASSUME \A s \in sessions' : s.user = Root => Covers(s)',
             \A c \in challenges' : CoversChallenge(c)',
             \A t \in Thread : Signing(t)' => ForPassword(call[t])'
      PROVE  PasswordInv'
  BY <1>2 DEF PasswordInv
<1>3. CASE (LockLapses \/ Expires \/ EndSession \/ UNCHANGED vars) /\ UNCHANGED call
  <2>1. /\ UNCHANGED accounts
        /\ \A s \in sessions' : \E x \in sessions : s.user = x.user /\ s.password = x.password /\ s.late = x.late
        /\ \A c \in challenges' : \E x \in challenges : c.user = x.user /\ c.password = x.password /\ c.late = x.late
    <3>1. CASE Expires
      BY <3>1 DEF Expires, Lapse, Types, TypeOK
    <3>2. CASE LockLapses \/ EndSession \/ UNCHANGED vars
      BY <3>2 DEF LockLapses, EndSession, vars, tables
    <3> QED
      BY <1>3, <3>1, <3>2
  <2>2. \A s \in sessions' : s.user = Root => Covers(s)'
    BY <1>1, <1>3, <2>1 DEF ForPassword, InStage
  <2>3. \A c \in challenges' : CoversChallenge(c)'
    BY <1>1, <1>3, <2>1 DEF ForPassword, InStage
  <2>4. \A t \in Thread : Signing(t)' => ForPassword(call[t])'
    BY <1>1, <1>3, <2>1 DEF ForPassword
  <2> QED
    BY <1>2, <2>2, <2>3, <2>4
<1>4. ASSUME NEW t \in Thread, ThreadStep(t)
      PROVE  OthersStay(t) /\ Entries(t) /\ Moves(t) /\ call[t] \in CallType
  BY <1>4, OneThreadMoves, ThreadEntries, ThreadMoves DEF Types, CallsOK
<1>5. ASSUME NEW t \in Thread, ThreadStep(t), ~ StorePassword(t)
      PROVE  \A x \in Thread : Signing(x)' => ForPassword(call[x])'
  <2>1. accounts'[Root].password = accounts[Root].password
    BY <1>5, PasswordOfRoot
  <2>2. ASSUME NEW x \in Thread, x # t, Signing(x)' PROVE ForPassword(call[x])'
    BY <1>1, <1>4, <1>5, <2>1, <2>2 DEF OthersStay, Stays, Kept, ForPassword
  <2>3. ASSUME call'[t].op = "login", call'[t].stage # "check" PROVE ForPassword(call[t])'
    <3>1. CASE CheckPassword(t)
      BY <1>4, <1>5, <2>1, <3>1 DEF Moves, ForPassword
    <3>2. CASE Login(t)
      BY <1>4, <1>5, <2>3, <3>2 DEF Moves, InStage
    <3>3. CASE ReadAttempt(t)
      <4>1. Signing(t)
        BY <3>3 DEF ReadAttempt, InStage
      <4> QED
        BY <1>1, <1>4, <1>5, <2>1, <3>3, <4>1 DEF Moves, ForPassword
    <3>4. CASE Kept(t) /\ call[t].stage # "check"
      BY <1>1, <2>1, <2>3, <3>4 DEF Kept, ForPassword
    <3>5. CASE Stays(t)
      BY <1>1, <2>1, <2>3, <3>5 DEF Stays, Kept, ForPassword
    <3> QED
      BY <1>4, <1>5, <2>3, <3>1, <3>2, <3>3, <3>4, <3>5 DEF Entries
  <2>4. ASSUME call'[t].op = "verify" PROVE ForPassword(call[t])'
    <3>1. CASE Kept(t)
      BY <1>1, <2>1, <2>4, <3>1 DEF Kept, ForPassword
    <3>2. CASE BeginVerify(t)
      <4>1. CASE UNCHANGED call
        BY <1>1, <2>1, <2>4, <4>1 DEF ForPassword
      <4>2. ASSUME NEW c \in challenges, call'[t].password = c.password,
                   call'[t].late = (c.late \/ ChangeInProgress)
            PROVE  ForPassword(call[t])'
        BY <1>1, <2>1, <4>2 DEF ForPassword, ChangeInProgress, InStage
      <4> QED
        BY <3>2, <4>1, <4>2, VerifyBegins
    <3> QED
      BY <1>4, <1>5, <2>4, <3>1, <3>2 DEF Entries
  <2> QED
    BY <2>2, <2>3, <2>4
<1>6. ASSUME NEW t \in Thread, StorePassword(t) PROVE PasswordInv'
  <2>1. /\ call[t].op = "change" /\ Mark(t, "dropSessions")
        /\ UNCHANGED <<challenges, sessions>>
    BY <1>6 DEF StorePassword, InStage
  <2>2. /\ Goes(t, "dropSessions") /\ OthersStay(t)
        /\ \A u \in Thread : u # t /\ call[u].op \in {"login", "verify"} => call'[u].late
    BY <2>1, MarkMoves
  <2>3. InStage(t, "change", "dropSessions")'
    BY <2>1, <2>2 DEF Goes, Kept, InStage
  <2>4. \A x \in Thread : Signing(x)' => ForPassword(call[x])'
    BY <2>2, <2>3 DEF OthersStay, Stays, Kept, ForPassword, InStage
  <2> QED
    BY <1>1, <1>2, <2>1, <2>3, <2>4
<1>7. ASSUME NEW t \in Thread, DeleteSessions(t) PROVE PasswordInv'
  <2>1. /\ call[t].stage = "dropSessions" /\ Mark(t, "dropChallenges")
        /\ sessions' = OfOthers(sessions, Root)
        /\ UNCHANGED <<accounts, challenges>>
    BY <1>7 DEF DeleteSessions
  <2>2. Goes(t, "dropChallenges") /\ OthersStay(t)
    BY <2>1, MarkMoves
  <2>3. \A c \in challenges : CoversChallenge(c)'
    BY <1>1, <2>1, <2>2 DEF Goes, OthersStay, Stays, Kept, InStage, ForPassword
  <2>4. \A x \in Thread : Signing(x)' => ForPassword(call[x])'
    BY <1>5, <1>7, <2>1 DEF ThreadStep, StorePassword, InStage
  <2> QED
    BY <1>2, <2>1, <2>3, <2>4 DEF OfOthers
<1>8. ASSUME NEW t \in Thread, DeleteChallenges(t) PROVE PasswordInv'
  <2>1. /\ call[t].stage = "dropChallenges" /\ Mark(t, "idle")
        /\ challenges' = OfOthers(challenges, Root)
        /\ UNCHANGED <<accounts, sessions>>
    BY <1>8 DEF DeleteChallenges
  <2>2. OthersStay(t)
    BY <2>1, MarkMoves
  <2>3. \A s \in sessions : s.user = Root => Covers(s)'
    BY <1>1, <2>1, <2>2 DEF OthersStay, Stays, Kept, InStage, ForPassword
  <2>4. challenges' = {}
    BY <1>1, <2>1 DEF OfOthers
  <2>5. \A x \in Thread : Signing(x)' => ForPassword(call[x])'
    BY <1>5, <1>8, <2>1 DEF ThreadStep, StorePassword, InStage
  <2> QED
    BY <1>2, <2>1, <2>3, <2>4, <2>5
<1>9. ASSUME NEW t \in Thread, ThreadStep(t),
             ~ StorePassword(t), ~ DeleteSessions(t), ~ DeleteChallenges(t)
      PROVE  PasswordInv'
  <2>1. accounts'[Root].password = accounts[Root].password
    BY <1>9, PasswordOfRoot
  <2>2. /\ \A s \in sessions' : s \in sessions \/ (Issue(t) /\ s = Made(t))
        /\ \A c \in challenges' : c \in challenges \/ (CreateChallenge(t) /\ c = Made(t))
    BY <1>9 DEF ThreadStep, tables, Login, CheckPassword, ReadAttempt, WriteAttempt, ClearAttempts, ClearChallenges,
       CreateChallenge, Issue, BeginVerify, CheckCode, UseChallenge, BeginMfaSetup, CheckSetup, CheckDisable,
       DeletePending, CheckChange, CheckRoles, BeginOauth, Consume, FindExternal,
       EnableMfa, RemoveMfa, StoreRoles, Provision, OfOthers, Without
  <2>3. \A u \in Thread : /\ InStage(u, "change", "dropSessions") => InStage(u, "change", "dropSessions")'
                          /\ InStage(u, "change", "dropChallenges") => InStage(u, "change", "dropChallenges")'
    <3>1. call[t].op # "change" \/ call[t].stage = "set"
      <4>1. <<call[t].op, call[t].stage>> \in Steps
        BY DEF Types, CallsOK
      <4>2. CASE \/ Login(t) \/ BeginVerify(t) \/ BeginMfaSetup(t) \/ CheckSetup(t) \/ CheckDisable(t)
                 \/ CheckChange(t) \/ CheckRoles(t) \/ BeginOauth(t) \/ Consume(t)
        <5>1. call[t] = Idle
          BY <4>2 DEF Login, BeginVerify, BeginMfaSetup, CheckSetup, CheckDisable, CheckChange, CheckRoles,
             BeginOauth, Consume, Begin
        <5> QED
          BY <5>1 DEF Idle
      <4>3. CASE \/ CheckPassword(t) \/ ReadAttempt(t) \/ WriteAttempt(t) \/ ClearAttempts(t) \/ ClearChallenges(t)
                 \/ CreateChallenge(t) \/ CheckCode(t) \/ UseChallenge(t) \/ EnableMfa(t) \/ RemoveMfa(t)
                 \/ StoreRoles(t) \/ FindExternal(t) \/ Provision(t)
        BY <4>3 DEF CheckPassword, ReadAttempt, WriteAttempt, ClearAttempts, ClearChallenges, CreateChallenge,
           CheckCode, UseChallenge, EnableMfa, RemoveMfa, StoreRoles, FindExternal, Provision, InStage
      <4>4. CASE Issue(t) \/ DeletePending(t)
        <5>1. call[t].stage \in {"issue", "dropPending"}
          BY <4>4 DEF Issue, DeletePending
        <5> QED
          BY <4>1, <5>1 DEF Steps
      <4> QED
        BY <1>9, <4>2, <4>3, <4>4 DEF ThreadStep
    <3> QED
      BY <1>4, <1>9, <3>1 DEF OthersStay, Stays, Kept, InStage
  <2>4. ASSUME Issue(t), call[t].user = Root PROVE ForPassword(Made(t))
    <3>1. Signing(t)
      <4>1. /\ <<call[t].op, call[t].stage>> \in Steps /\ call[t].stage = "issue"
            /\ call[t].op # "complete"
        BY <2>4, AccountAssumption DEF Issue, Types, CallsOK
      <4> QED
        BY <4>1 DEF Steps
    <3> QED
      BY <1>1, <3>1 DEF ForPassword, Made
  <2>5. ASSUME CreateChallenge(t) PROVE Made(t).user = Root /\ ForPassword(Made(t))
    <3>1. Signing(t) /\ call[t].user = Root
      BY <2>5 DEF CreateChallenge, InStage, Types, CallsOK
    <3> QED
      BY <1>1, <3>1 DEF ForPassword, Made
  <2>6. \A s \in sessions' : s.user = Root => Covers(s)'
    <3> SUFFICES ASSUME NEW s \in sessions', s.user = Root
                 PROVE  ForPassword(s)' \/ \E u \in Thread : InStage(u, "change", "dropSessions")'
      OBVIOUS
    <3>1. ForPassword(s) \/ \E u \in Thread : InStage(u, "change", "dropSessions")
      <4>1. CASE s \in sessions
        BY <1>1, <4>1
      <4>2. CASE Issue(t) /\ s = Made(t)
        <5>1. call[t].user = Root
          BY <4>2 DEF Made
        <5> QED
          BY <2>4, <4>2, <5>1
      <4> QED
        BY <2>2, <4>1, <4>2
    <3> QED
      BY <2>1, <2>3, <3>1 DEF InStage, ForPassword
  <2>7. \A c \in challenges' : CoversChallenge(c)'
    <3> SUFFICES ASSUME NEW c \in challenges'
                 PROVE  /\ c.user = Root
                        /\ \/ ForPassword(c)'
                           \/ \E u \in Thread : \/ InStage(u, "change", "dropSessions")'
                                              \/ InStage(u, "change", "dropChallenges")'
      OBVIOUS
    <3>1. /\ c.user = Root
          /\ \/ ForPassword(c)
             \/ \E u \in Thread : InStage(u, "change", "dropSessions") \/ InStage(u, "change", "dropChallenges")
      <4>1. CASE c \in challenges
        BY <1>1, <4>1
      <4>2. CASE CreateChallenge(t) /\ c = Made(t)
        BY <2>5, <4>2
      <4> QED
        BY <2>2, <4>1, <4>2
    <3> QED
      BY <2>1, <2>3, <3>1 DEF InStage, ForPassword
  <2> QED
    BY <1>2, <1>5, <1>9, <2>6, <2>7
<1> QED
  BY <1>3, <1>6, <1>7, <1>8, <1>9, StepsOfThreads

------------------------------------------------------------------------------
(* What is answered is answered once.                                      *)

Answering(t) == call[t].op \in {"verify", "complete"}

\* Challenges and flows have numbers of their own; a request that has taken one
\* away has it alone, and what was answered is gone and worked on by nobody.
Once ==
    /\ \A t, u \in Thread : Answering(t) /\ Answering(u) /\ call[t].item = call[u].item => t = u
    /\ \A t \in Thread : Answering(t) => \A f \in flows : f.id # call[t].item
    /\ \A t \in Thread : call[t].op = "complete" \/ InStage(t, "verify", "issue") =>
          \A c \in challenges : c.id # call[t].item
    /\ \A a \in answered :
          /\ a[1] \in 1 .. made
          /\ \A t \in Thread : Answering(t) => call[t].item # a[1]
          /\ \A c \in challenges : c.id # a[1]
          /\ \A f \in flows : f.id # a[1]
    /\ \A a, b \in answered : a[1] = b[1] => a = b

AnswerInv ==
    /\ \A c \in challenges, f \in flows : c.id # f.id
    /\ \A f, g \in flows : f.id = g.id => f = g
    /\ \A t \in Thread : (call[t].op = "login" => call[t].item = 0) /\ (Answering(t) => call[t].item # 0)
    /\ Met("verify") \/ Once

\* What has met has met.
LEMMA MetStays ==
    ASSUME NEW t \in Thread, ThreadStep(t)
    PROVE  met \subseteq met'
BY DEF ThreadStep, history, Login, CheckPassword, ReadAttempt, WriteAttempt, ClearAttempts, ClearChallenges,
      CreateChallenge, Issue, BeginVerify, CheckCode, UseChallenge, BeginMfaSetup, CheckSetup, CheckDisable,
      DeletePending, CheckChange, DeleteSessions, DeleteChallenges, CheckRoles, BeginOauth, Consume, FindExternal,
      EnableMfa, RemoveMfa, StorePassword, StoreRoles, Provision

\* A request works on an answer if it did before, unless it takes one up.
LEMMA AnswersInProgress ==
    ASSUME Types, AnswerInv, NEW t \in Thread, ThreadStep(t)
    PROVE  /\ \A x \in Thread : call'[x].op = "login" => call'[x].item = 0
           /\ \A x \in Thread : Answering(x)' => Kept(x) \/ (x = t /\ (BeginVerify(t) \/ Consume(t)))
           /\ \A x \in Thread : InStage(x, "verify", "issue")' => Stays(x) \/ (x = t /\ UseChallenge(t))
<1>1. OthersStay(t) /\ Entries(t) /\ Moves(t)
  BY OneThreadMoves, ThreadEntries, ThreadMoves
<1>2. call'[t].op = "login" => call'[t].item = 0
  <2>1. CASE Login(t)
    BY <1>1, <2>1 DEF Moves
  <2>2. CASE CheckPassword(t)
    BY <1>1, <2>2 DEF Moves, CheckPassword, InStage, AnswerInv
  <2>3. CASE ReadAttempt(t)
    BY <1>1, <2>3 DEF Moves, ReadAttempt, InStage, AnswerInv
  <2>4. CASE Kept(t)
    BY <2>4 DEF Kept, AnswerInv
  <2> QED
    BY <1>1, <2>1, <2>2, <2>3, <2>4 DEF Entries, Stays
<1>3. InStage(t, "verify", "issue")' => Stays(t) \/ UseChallenge(t)
  <2> SUFFICES ASSUME InStage(t, "verify", "issue")', ~ Stays(t), ~ UseChallenge(t) PROVE FALSE
    OBVIOUS
  <2>1. CheckPassword(t) \/ FindExternal(t) \/ Provision(t)
    BY <1>1 DEF Entries, InStage
  <2>2. ~ CheckPassword(t)
    BY <1>1 DEF Moves, InStage
  <2>3. call'[t].op = "verify" /\ (Kept(t) => call[t].op = "verify")
    BY DEF Kept, InStage
  <2>4. call[t].op = "complete"
    BY <2>1, <2>2 DEF FindExternal, Provision, InStage
  <2>5. Rests(t) \/ Kept(t)
    BY <1>1, <2>1, <2>2 DEF Moves, Goes
  <2> QED
    BY <2>3, <2>4, <2>5 DEF Rests, Idle
<1>4. Answering(t)' => Kept(t) \/ BeginVerify(t) \/ Consume(t)
  BY <1>1 DEF Entries, Answering
<1>5. \A x \in Thread : x # t => Stays(x) /\ Kept(x)
  BY <1>1 DEF OthersStay, Stays
<1>6. \A x \in Thread : x # t => (call'[x].op = "login" => call'[x].item = 0)
  BY <1>5 DEF Kept, AnswerInv
<1> QED
  BY <1>2, <1>3, <1>4, <1>5, <1>6

\* What can be answered can be answered once.
LEMMA AnswerStep ==
    ASSUME Types, AnswerInv, [Next]_vars
    PROVE  AnswerInv'
<1>1. /\ made \in Nat /\ made' \in made .. made + 1
      /\ \A c \in challenges : c.id \in 1 .. made
      /\ \A f \in flows : f.id \in 1 .. made
      /\ \A t \in Thread : call[t].item \in 0 .. made
  BY ItemsStep DEF Types, TypeOK, CallsOK
<1>2. ASSUME NEW t \in Thread, ThreadStep(t)
      PROVE  /\ met \subseteq met' /\ OthersStay(t) /\ Entries(t) /\ Moves(t)
             /\ \A x \in Thread : call'[x].op = "login" => call'[x].item = 0
             /\ \A x \in Thread : Answering(x)' => Kept(x) \/ (x = t /\ (BeginVerify(t) \/ Consume(t)))
             /\ \A x \in Thread : InStage(x, "verify", "issue")' => Stays(x) \/ (x = t /\ UseChallenge(t))
  BY <1>2, MetStays, OneThreadMoves, ThreadEntries, ThreadMoves, AnswersInProgress
<1>3. ASSUME \A c \in challenges' : \E d \in challenges : c.id = d.id,
             \A f \in flows' : \E g \in flows : f.id = g.id,
             \A f, g \in flows' : f.id = g.id => f = g,
             UNCHANGED answered, met \subseteq met',
             \A x \in Thread : call'[x].op = "login" => call'[x].item = 0,
             \A x \in Thread : Answering(x)' => Kept(x),
             \A x \in Thread : InStage(x, "verify", "issue")' => Stays(x)
      PROVE  AnswerInv'
  <2>1. /\ \A c \in challenges', f \in flows' : c.id # f.id
        /\ \A x \in Thread : Answering(x)' => call'[x].item # 0
    BY <1>3 DEF AnswerInv, Answering, Kept
  <2>2. Once => Once'
    <3> SUFFICES ASSUME Once PROVE Once'
      OBVIOUS
    <3>1. \A x, u \in Thread : Answering(x)' /\ Answering(u)' /\ call'[x].item = call'[u].item => x = u
      BY <1>3 DEF Once, Answering, Kept
    <3>2. \A x \in Thread : Answering(x)' => \A f \in flows' : f.id # call'[x].item
      BY <1>3 DEF Once, Answering, Kept
    <3>3. \A x \in Thread : call'[x].op = "complete" \/ InStage(x, "verify", "issue")' =>
             \A c \in challenges' : c.id # call'[x].item
      BY <1>3 DEF Once, Answering, Kept, Stays, InStage
    <3>4. \A a \in answered' :
             /\ a[1] \in 1 .. made'
             /\ \A x \in Thread : Answering(x)' => call'[x].item # a[1]
             /\ \A c \in challenges' : c.id # a[1]
             /\ \A f \in flows' : f.id # a[1]
      BY <1>1, <1>3 DEF Once, Answering, Kept
    <3>5. \A a, b \in answered' : a[1] = b[1] => a = b
      BY <1>3 DEF Once
    <3> QED
      BY <3>1, <3>2, <3>3, <3>4, <3>5 DEF Once
  <2> QED
    BY <1>3, <2>1, <2>2 DEF AnswerInv, Met
<1>4. ASSUME NEW t \in Thread, ThreadStep(t),
             ~ BeginVerify(t), ~ Consume(t), ~ CreateChallenge(t), ~ BeginOauth(t), ~ UseChallenge(t), ~ Issue(t)
      PROVE  AnswerInv'
  <2>1. challenges' \subseteq challenges /\ UNCHANGED <<flows, answered>>
    BY <1>4 DEF ThreadStep, tables, history, Login, CheckPassword, ReadAttempt, WriteAttempt, ClearAttempts,
        ClearChallenges, CheckCode, BeginMfaSetup, CheckSetup, CheckDisable, DeletePending, CheckChange,
        DeleteSessions, DeleteChallenges, CheckRoles, FindExternal, EnableMfa, RemoveMfa, StorePassword,
        StoreRoles, Provision, OfOthers, Without
  <2> QED
    BY <1>2, <1>3, <1>4, <2>1 DEF AnswerInv
<1>5. ASSUME NEW t \in Thread, CreateChallenge(t) \/ BeginOauth(t) PROVE AnswerInv'
  <2>1. /\ made' = made + 1 /\ UNCHANGED answered
        /\ \A c \in challenges' : c \in challenges \/ (c.id = made' /\ UNCHANGED flows)
        /\ \A f \in flows' : f \in flows \/ (f = [id |-> made', expired |-> FALSE] /\ UNCHANGED challenges)
    BY <1>5 DEF CreateChallenge, BeginOauth, Made, history
  <2>2. /\ met \subseteq met'
        /\ \A x \in Thread : Answering(x)' => Answering(x) /\ call'[x].item = call[x].item
        /\ \A x \in Thread : call'[x].op = "complete" \/ InStage(x, "verify", "issue")' =>
              call[x].op = "complete" \/ InStage(x, "verify", "issue")
        /\ \A x \in Thread : call'[x].op = "login" => call'[x].item = 0
    <3>1. ~ BeginVerify(t) /\ ~ Consume(t) /\ ~ UseChallenge(t)
      <4>1. made' # made
        BY <1>1, <2>1
      <4>2. (BeginVerify(t) => made' = made) /\ (Consume(t) => made' = made) /\ (UseChallenge(t) => made' = made)
        BY DEF BeginVerify, Consume, UseChallenge
      <4> QED
        BY <4>1, <4>2
    <3> QED
      BY <1>2, <1>5, <3>1 DEF ThreadStep, Answering, Kept, Stays, InStage
  <2>3. /\ \A c \in challenges', f \in flows' : c.id # f.id
        /\ \A f, g \in flows' : f.id = g.id => f = g
        /\ \A x \in Thread : Answering(x)' => call'[x].item # 0
    <3>1. \A c \in challenges', f \in flows' : c.id # f.id
      BY <1>1, <2>1 DEF AnswerInv
    <3> DEFINE new == [id |-> made', expired |-> FALSE]
    <3>2. new.id = made + 1 /\ \A f \in flows' : f \in flows \/ f = new
      BY <2>1
    <3>3. \A f \in flows : f.id # made + 1
      BY <1>1
    <3> HIDE DEF new
    <3>4. \A f, g \in flows' : f.id = g.id => f = g
      BY <3>2, <3>3 DEF AnswerInv
    <3>5. \A x \in Thread : Answering(x)' => call'[x].item # 0
      BY <2>2 DEF AnswerInv
    <3> QED
      BY <3>1, <3>4, <3>5
  <2>4. Once => Once'
    <3> SUFFICES ASSUME Once PROVE Once'
      OBVIOUS
    <3>1. /\ \A c \in challenges' : c \in challenges \/ c.id > made
          /\ \A f \in flows' : f \in flows \/ f.id > made
      BY <1>1, <2>1
    <3>2. \A a \in answered : a[1] \in 1 .. made
      BY DEF Once
    <3>3. \A x \in Thread : Answering(x)' => \A f \in flows' : f.id # call'[x].item
      BY <1>1, <2>2, <3>1 DEF Once
    <3>4. \A x \in Thread : call'[x].op = "complete" \/ InStage(x, "verify", "issue")' =>
             \A c \in challenges' : c.id # call'[x].item
      BY <1>1, <2>2, <3>1 DEF Once, Answering, InStage
    <3>5. \A a \in answered' :
             /\ a[1] \in 1 .. made'
             /\ \A x \in Thread : Answering(x)' => call'[x].item # a[1]
             /\ \A c \in challenges' : c.id # a[1]
             /\ \A f \in flows' : f.id # a[1]
      BY <1>1, <2>1, <2>2, <3>1, <3>2 DEF Once
    <3> QED
      BY <2>1, <2>2, <3>3, <3>4, <3>5 DEF Once
  <2> QED
    BY <2>2, <2>3, <2>4 DEF AnswerInv, Met
<1>6. ASSUME NEW t \in Thread, UseChallenge(t) PROVE AnswerInv'
  <2>1. /\ UNCHANGED <<flows, answered, made, met>>
        /\ challenges' = Without(challenges, call[t].item)
    BY <1>6 DEF UseChallenge, history
  <2>2. /\ \A x \in Thread : Answering(x)' => Kept(x)
        /\ \A x \in Thread : InStage(x, "verify", "issue")' => Stays(x) \/ x = t
        /\ \A x \in Thread : call'[x].op = "login" => call'[x].item = 0
        /\ Kept(t)
    <3>1. call[t] # Idle
      BY <1>6 DEF UseChallenge, InStage, Idle
    <3> QED
      BY <1>2, <1>6, <3>1 DEF ThreadStep, Moves, Goes, BeginVerify, Consume, Begin
  <2>3. /\ \A c \in challenges', f \in flows' : c.id # f.id
        /\ \A x \in Thread : Answering(x)' => call'[x].item # 0
    BY <2>1, <2>2 DEF AnswerInv, Without, Answering, Kept
  <2>4. Once => Once'
    <3> SUFFICES ASSUME Once PROVE Once'
      OBVIOUS
    <3>1. \A x \in Thread : call'[x].op = "complete" \/ InStage(x, "verify", "issue")' =>
             \A c \in challenges' : c.id # call'[x].item
      BY <2>1, <2>2 DEF Once, Without, Answering, InStage, Kept, Stays
    <3>2. \A x \in Thread : Answering(x)' => Answering(x) /\ call'[x].item = call[x].item
      BY <2>2 DEF Answering, Kept
    <3>3. \A a \in answered' :
             /\ a[1] \in 1 .. made'
             /\ \A x \in Thread : Answering(x)' => call'[x].item # a[1]
             /\ \A c \in challenges' : c.id # a[1]
             /\ \A f \in flows' : f.id # a[1]
      BY <2>1, <3>2 DEF Once, Without
    <3> QED
      BY <2>1, <3>1, <3>2, <3>3 DEF Once
  <2> QED
    BY <2>1, <2>2, <2>3, <2>4 DEF AnswerInv, Met
<1>7. ASSUME NEW t \in Thread, BeginVerify(t) PROVE AnswerInv'
  <2>1. UNCHANGED <<flows, answered, made>> /\ challenges' \subseteq challenges
    BY <1>7 DEF BeginVerify
  <2>2. /\ met \subseteq met' /\ OthersStay(t) /\ call[t] = Idle
        /\ \A x \in Thread : call'[x].op = "login" => call'[x].item = 0
        /\ \A x \in Thread : InStage(x, "verify", "issue")' => Stays(x)
    <3>1. call[t] = Idle /\ ThreadStep(t)
      BY <1>7 DEF BeginVerify, Begin, ThreadStep
    <3>2. ~ UseChallenge(t)
      BY <3>1 DEF UseChallenge, InStage, Idle
    <3> QED
      BY <1>2, <3>1, <3>2
  <2>3. CASE UNCHANGED call
    BY <1>3, <2>1, <2>2, <2>3 DEF Kept, AnswerInv
  <2>4. CASE ~ UNCHANGED call
    <3>1. PICK c \in challenges :
            /\ call' = [call EXCEPT ![t] = [Idle EXCEPT !.op = "verify", !.stage = "code", !.item = c.id,
                                            !.password = c.password, !.late = c.late \/ ChangeInProgress]]
            /\ (\E x \in Thread : call[x].op = "verify" /\ call[x].item = c.id) => Met("verify")'
      BY <1>7, <2>4 DEF BeginVerify, Met
    <3>2. call'[t].op = "verify" /\ call'[t].stage = "code" /\ call'[t].item = c.id
      BY <3>1 DEF Idle, Types, CallsOK
    <3>3. \A x \in Thread : x # t => Stays(x) /\ Kept(x)
      BY <2>2 DEF OthersStay, Stays
    <3>4. /\ \A d \in challenges', f \in flows' : d.id # f.id
          /\ \A x \in Thread : Answering(x)' => call'[x].item # 0
      BY <1>1, <2>1, <3>2, <3>3 DEF AnswerInv, Answering, Kept
    <3>5. Once /\ ~ Met("verify")' => Once'
      <4> SUFFICES ASSUME Once, ~ Met("verify")' PROVE Once'
        OBVIOUS
      <4>1. \A x \in Thread : x # t /\ Answering(x)' => Answering(x) /\ call'[x].item = call[x].item
        BY <3>3 DEF Answering, Kept
      <4>2. \A x \in Thread : x # t /\ Answering(x) => call[x].item # c.id
        BY <3>1 DEF Once, Answering
      <4>3. \A x, u \in Thread : Answering(x)' /\ Answering(u)' /\ call'[x].item = call'[u].item => x = u
        BY <3>2, <4>1, <4>2 DEF Once
      <4>4. \A x \in Thread : Answering(x)' => \A f \in flows' : f.id # call'[x].item
        BY <2>1, <3>2, <4>1 DEF Once, AnswerInv
      <4>5. \A x \in Thread : call'[x].op = "complete" \/ InStage(x, "verify", "issue")' =>
               \A d \in challenges' : d.id # call'[x].item
        BY <2>1, <2>2, <3>2, <3>3 DEF Once, InStage, Kept, Stays
      <4>6. \A a \in answered' :
               /\ a[1] \in 1 .. made'
               /\ \A x \in Thread : Answering(x)' => call'[x].item # a[1]
               /\ \A d \in challenges' : d.id # a[1]
               /\ \A f \in flows' : f.id # a[1]
        BY <2>1, <3>2, <4>1 DEF Once
      <4> QED
        BY <2>1, <4>3, <4>4, <4>5, <4>6 DEF Once
    <3> QED
      BY <2>1, <2>2, <3>4, <3>5 DEF AnswerInv, Met
  <2> QED
    BY <2>3, <2>4
<1>8. ASSUME NEW t \in Thread, Consume(t) PROVE AnswerInv'
  <2>1. UNCHANGED <<challenges, answered, made, met>>
    BY <1>8 DEF Consume, history
  <2>2. /\ OthersStay(t) /\ call[t] = Idle
        /\ \A x \in Thread : call'[x].op = "login" => call'[x].item = 0
        /\ \A x \in Thread : InStage(x, "verify", "issue")' => Stays(x)
    <3>1. call[t] = Idle /\ ThreadStep(t)
      BY <1>8 DEF Consume, Begin, ThreadStep
    <3>2. ~ UseChallenge(t)
      BY <3>1 DEF UseChallenge, InStage, Idle
    <3> QED
      BY <1>2, <3>1, <3>2
  <2>3. PICK f \in flows : /\ flows' = flows \ {f}
                           /\ \/ UNCHANGED call
                              \/ InStage(t, "complete", "find")' /\ call'[t].item = f.id
    BY <1>8, ConsumeBegins
  <2>4. CASE UNCHANGED call
    BY <1>3, <2>1, <2>2, <2>3, <2>4 DEF Kept, AnswerInv
  <2>5. CASE InStage(t, "complete", "find")' /\ call'[t].item = f.id
    <3>1. \A x \in Thread : x # t => Stays(x) /\ Kept(x)
      BY <2>2 DEF OthersStay, Stays
    <3>2. /\ \A c \in challenges', g \in flows' : c.id # g.id
          /\ \A g, h \in flows' : g.id = h.id => g = h
          /\ \A x \in Thread : Answering(x)' => call'[x].item # 0
      BY <1>1, <2>1, <2>3, <2>5, <3>1 DEF AnswerInv, Answering, Kept
    <3>3. Once => Once'
      <4> SUFFICES ASSUME Once PROVE Once'
        OBVIOUS
      <4>1. \A x \in Thread : x # t /\ Answering(x)' => Answering(x) /\ call'[x].item = call[x].item
        BY <3>1 DEF Answering, Kept
      <4>2. \A x, u \in Thread : Answering(x)' /\ Answering(u)' /\ call'[x].item = call'[u].item => x = u
        BY <2>5, <4>1 DEF Once
      <4>3. \A x \in Thread : Answering(x)' => \A g \in flows' : g.id # call'[x].item
        BY <2>3, <2>5, <4>1 DEF Once, AnswerInv
      <4>4. \A x \in Thread : call'[x].op = "complete" \/ InStage(x, "verify", "issue")' =>
               \A c \in challenges' : c.id # call'[x].item
        BY <2>1, <2>2, <2>5, <3>1 DEF Once, AnswerInv, InStage, Kept, Stays
      <4>5. \A a \in answered' :
               /\ a[1] \in 1 .. made'
               /\ \A x \in Thread : Answering(x)' => call'[x].item # a[1]
               /\ \A c \in challenges' : c.id # a[1]
               /\ \A g \in flows' : g.id # a[1]
        BY <2>1, <2>3, <2>5, <4>1 DEF Once
      <4> QED
        BY <2>1, <4>2, <4>3, <4>4, <4>5 DEF Once
    <3> QED
      BY <2>1, <2>2, <3>2, <3>3 DEF AnswerInv, Met
  <2> QED
    BY <2>3, <2>4, <2>5
<1>9. ASSUME NEW t \in Thread, Issue(t) PROVE AnswerInv'
  <2>1. /\ UNCHANGED <<challenges, flows, met>> /\ made' = made + 1
        /\ answered' = IF call[t].item = 0 THEN answered ELSE answered \cup {<<call[t].item, made + 1>>}
        /\ call[t].stage = "issue"
    BY <1>9 DEF Issue
  <2>2. /\ \A x \in Thread : call'[x].op = "login" => call'[x].item = 0
        /\ \A x \in Thread : Answering(x)' => Kept(x)
        /\ \A x \in Thread : InStage(x, "verify", "issue")' => Stays(x)
    <3>1. call[t] # Idle /\ ~ UseChallenge(t)
      BY <2>1 DEF Idle, UseChallenge, InStage
    <3> QED
      BY <1>2, <1>9, <3>1 DEF ThreadStep, BeginVerify, Consume, Begin
  <2>3. call[t].op \in {"login", "verify", "complete"}
    <3>1. <<call[t].op, call[t].stage>> \in Steps
      BY DEF Types, CallsOK
    <3> QED
      BY <2>1, <3>1 DEF Steps
  <2>4. CASE call[t].op = "login"
    BY <1>3, <2>1, <2>2, <2>4 DEF AnswerInv
  <2>5. CASE Answering(t)
    <3>1. call'[t] = Idle /\ call[t].item # 0
      BY <1>2, <1>9, <2>5 DEF ThreadStep, Moves, Rests, Answering, AnswerInv
    <3>2. /\ \A x \in Thread : Answering(x)' => Answering(x) /\ call'[x].item = call[x].item /\ x # t
          /\ \A x \in Thread : call'[x].op = "complete" \/ InStage(x, "verify", "issue")' =>
                call[x].op = "complete" \/ InStage(x, "verify", "issue")
      BY <2>2, <3>1 DEF Answering, Kept, Stays, InStage, Idle
    <3>3. \A x \in Thread : Answering(x)' => call'[x].item # 0
      BY <3>2 DEF AnswerInv
    <3>4. Once => Once'
      <4> SUFFICES ASSUME Once PROVE Once'
        OBVIOUS
      <4> DEFINE new == <<call[t].item, made + 1>>
      <4>1. new[1] = call[t].item /\ answered' = answered \cup {new}
        BY <2>1, <3>1
      <4>2. /\ \A x \in Thread : Answering(x)' => call'[x].item # call[t].item
            /\ \A c \in challenges : c.id # call[t].item
            /\ \A f \in flows : f.id # call[t].item
            /\ \A a \in answered : a[1] # call[t].item
            /\ call[t].item \in 1 .. made
        BY <1>1, <2>1, <2>5, <3>1, <3>2 DEF Once, Answering, InStage
      <4> HIDE DEF new
      <4>3. \A a \in answered' :
               /\ a[1] \in 1 .. made'
               /\ \A x \in Thread : Answering(x)' => call'[x].item # a[1]
               /\ \A c \in challenges' : c.id # a[1]
               /\ \A f \in flows' : f.id # a[1]
        BY <1>1, <2>1, <3>2, <4>1, <4>2 DEF Once
      <4>4. \A a, b \in answered' : a[1] = b[1] => a = b
        BY <4>1, <4>2 DEF Once
      <4>5. /\ \A x, u \in Thread : Answering(x)' /\ Answering(u)' /\ call'[x].item = call'[u].item => x = u
            /\ \A x \in Thread : Answering(x)' => \A f \in flows' : f.id # call'[x].item
        BY <2>1, <3>2 DEF Once
      <4>6. \A x \in Thread : call'[x].op = "complete" \/ InStage(x, "verify", "issue")' =>
               \A c \in challenges' : c.id # call'[x].item
        BY <2>1, <2>2, <3>2 DEF Once, InStage, Answering, Kept, Stays
      <4> QED
        BY <4>3, <4>4, <4>5, <4>6 DEF Once
    <3> QED
      BY <2>1, <2>2, <3>3, <3>4 DEF AnswerInv, Met
  <2> QED
    BY <2>3, <2>4, <2>5 DEF Answering
<1>10. CASE (LockLapses \/ Expires \/ EndSession \/ UNCHANGED vars) /\ UNCHANGED call
  <2>1. /\ UNCHANGED answered /\ met \subseteq met'
        /\ \A x \in Thread : Kept(x) /\ Stays(x)
    BY <1>10 DEF LockLapses, Expires, EndSession, vars, tables, history, Kept, Stays
  <2>2. /\ \A c \in challenges' : \E d \in challenges : c.id = d.id
        /\ \A f \in flows' : \E g \in flows : f.id = g.id
        /\ \A f, g \in flows' : f.id = g.id => f = g
    <3>1. CASE LockLapses \/ EndSession \/ UNCHANGED vars
      BY <3>1 DEF LockLapses, EndSession, vars, tables, AnswerInv
    <3>2. CASE Expires
      <4>1. \/ UNCHANGED flows
            \/ \E f \in flows : flows' = Lapse(flows, f)
        BY <3>2 DEF Expires
      <4>2. UNCHANGED challenges \/ \E c \in challenges : challenges' = Lapse(challenges, c)
        BY <3>2 DEF Expires
      <4>3. /\ \A c \in challenges : [c EXCEPT !.expired = TRUE].id = c.id
            /\ \A f \in flows : [f EXCEPT !.expired = TRUE].id = f.id
        BY DEF Types, TypeOK
      <4>4. \A c \in challenges' : \E d \in challenges : c.id = d.id
        BY <4>2, <4>3 DEF Lapse
      <4>5. \A f \in flows' : \E g \in flows : f.id = g.id
        BY <4>1, <4>3 DEF Lapse
      <4>6. \A f, g \in flows' : f.id = g.id => f = g
        <5>1. CASE UNCHANGED flows
          BY <5>1 DEF AnswerInv
        <5>2. ASSUME NEW f \in flows, flows' = Lapse(flows, f)
              PROVE  \A g, h \in flows' : g.id = h.id => g = h
          <6>1. \A g \in flows' : g = [f EXCEPT !.expired = TRUE] \/ (g \in flows /\ g.id # f.id)
            BY <5>2 DEF Lapse, AnswerInv
          <6> QED
            BY <4>3, <6>1 DEF AnswerInv
        <5> QED
          BY <4>1, <5>1, <5>2
      <4> QED
        BY <4>4, <4>5, <4>6
    <3> QED
      BY <1>10, <3>1, <3>2
  <2> QED
    BY <1>3, <1>10, <2>1, <2>2 DEF AnswerInv
<1> QED
  BY <1>4, <1>5, <1>6, <1>7, <1>8, <1>9, <1>10, StepsOfThreads


------------------------------------------------------------------------------
(* Somebody remains administrator.                                         *)

RolesAlone ==
    /\ Admins # {}
    /\ \A t \in Thread : InStage(t, "roles", "store") =>
          /\ ~ call[t].admin => \E u \in Admins : u # call[t].user
          /\ \A x \in Thread : InStage(x, "roles", "store") => x = t
    /\ \A t \in Thread : InStage(t, "complete", "provision") => call[t].user \notin Admins

RolesInv ==
    /\ \A u \in User : accounts[u].admin => accounts[u].exists
    /\ \A t \in Thread : InStage(t, "roles", "store") => accounts[call[t].user].exists
    /\ Met("roles") \/ RolesAlone

\* Accounts appear and change roles in two ways.
LEMMA RolesOfAccounts ==
    ASSUME Types, NEW t \in Thread, ThreadStep(t), ~ StoreRoles(t), ~ Provision(t), NEW u \in User
    PROVE  accounts'[u].exists = accounts[u].exists /\ accounts'[u].admin = accounts[u].admin
<1>1. /\ accounts \in [User -> [exists : BOOLEAN, password : Nat, admin : BOOLEAN, mfa : 0 .. made]]
      /\ Root \in User
  BY DEF Types, TypeOK, User
<1>2. CASE EnableMfa(t) \/ RemoveMfa(t)
  BY <1>1, <1>2 DEF EnableMfa, RemoveMfa, SetMfa
<1>3. CASE StorePassword(t)
  BY <1>1, <1>3 DEF StorePassword, SetPassword
<1>4. UNCHANGED accounts \/ EnableMfa(t) \/ RemoveMfa(t) \/ StorePassword(t)
  BY DEF ThreadStep, tables, Login, CheckPassword, ReadAttempt, WriteAttempt, ClearAttempts, ClearChallenges,
      CreateChallenge, Issue, BeginVerify, CheckCode, UseChallenge, BeginMfaSetup, CheckSetup, CheckDisable,
      DeletePending, CheckChange, DeleteSessions, DeleteChallenges, CheckRoles, BeginOauth, Consume, FindExternal
<1> QED
  BY <1>2, <1>3, <1>4

\* Whoever may lose the role leaves an administrator behind.
LEMMA AnotherAdministrator ==
    ASSUME NEW u, NEW admin \in BOOLEAN, MayHaveRoles(u, admin), ~ admin, Admins # {}
    PROVE  \E a \in Admins : a # u
<1>1. CASE u \in Admins
  <2>1. Cardinality(Admins) > 1
    BY <1>1 DEF MayHaveRoles
  <2>2. Cardinality({u}) = 1
    BY FS_Singleton
  <2> QED
    BY <1>1, <2>1, <2>2
<1> QED
  BY <1>1

\* Every step leaves an administrator.
LEMMA RolesStep ==
    ASSUME Types, RolesInv, [Next]_vars
    PROVE  RolesInv'
<1>1. /\ accounts \in [User -> [exists : BOOLEAN, password : Nat, admin : BOOLEAN, mfa : 0 .. made]]
      /\ \A t \in Thread : call[t].user \in User /\ call[t].admin \in BOOLEAN
  BY DEF Types, TypeOK, CallsOK, CallType
<1>2. ASSUME NEW t \in Thread, ThreadStep(t)
      PROVE  met \subseteq met' /\ OthersStay(t) /\ Entries(t) /\ Moves(t)
  BY <1>2, MetStays, OneThreadMoves, ThreadEntries, ThreadMoves
<1>3. ASSUME \A u \in User : accounts'[u].exists = accounts[u].exists /\ accounts'[u].admin = accounts[u].admin
      PROVE  Admins' = Admins
  BY <1>3 DEF Admins
<1>4. ASSUME NEW t \in Thread, ThreadStep(t), ~ StoreRoles(t), ~ Provision(t), ~ CheckRoles(t), ~ FindExternal(t)
      PROVE  RolesInv'
  <2>1. \A u \in User : accounts'[u].exists = accounts[u].exists /\ accounts'[u].admin = accounts[u].admin
    BY <1>4, RolesOfAccounts
  <2>2. \A x \in Thread : InStage(x, "roles", "store")' \/ InStage(x, "complete", "provision")' => Stays(x)
    BY <1>2, <1>4 DEF OthersStay, Entries
  <2> QED
    BY <1>1, <1>2, <1>3, <1>4, <2>1, <2>2 DEF RolesInv, RolesAlone, Met, Stays, Kept, InStage
<1>5. ASSUME NEW t \in Thread, CheckRoles(t) PROVE RolesInv'
  <2>1. /\ UNCHANGED accounts
        /\ (\E x \in Thread : call[x].op = "roles") => Met("roles")'
    BY <1>5 DEF CheckRoles, tables, Met
  <2>2. /\ met \subseteq met' /\ OthersStay(t) /\ Entries(t)
        /\ InStage(t, "roles", "store")' /\ MayHaveRoles(call'[t].user, call'[t].admin)
    BY <1>2, <1>5 DEF ThreadStep, Moves
  <2>3. call'[t].admin \in BOOLEAN
    BY CallsStep, <1>5 DEF Next, CallsOK, CallType
  <2>4. /\ \A x \in Thread : x # t => Stays(x)
        /\ Admins' = Admins
    BY <1>3, <2>1, <2>2 DEF OthersStay
  <2>5. \A x \in Thread : InStage(x, "complete", "provision")' => x # t
    BY <2>2 DEF InStage
  <2>6. \A x \in Thread : InStage(x, "roles", "store")' => accounts[call'[x].user].exists
    BY <2>2, <2>4 DEF RolesInv, MayHaveRoles, Stays, Kept, InStage
  <2>7. RolesAlone /\ ~ Met("roles")' => RolesAlone'
    <3> SUFFICES ASSUME RolesAlone, ~ Met("roles")' PROVE RolesAlone'
      OBVIOUS
    <3>1. \A x \in Thread : InStage(x, "roles", "store")' => x = t
      BY <2>1, <2>4 DEF Stays, Kept, InStage
    <3>2. ~ call'[t].admin => \E u \in Admins : u # call'[t].user
      BY <2>2, <2>3, AnotherAdministrator DEF RolesAlone
    <3>3. \A x \in Thread : InStage(x, "complete", "provision")' => call'[x].user \notin Admins
      BY <2>4, <2>5 DEF RolesAlone, Stays, Kept, InStage
    <3> QED
      BY <2>4, <3>1, <3>2, <3>3 DEF RolesAlone
  <2> QED
    BY <2>1, <2>2, <2>6, <2>7 DEF RolesInv, Met
<1>6. ASSUME NEW t \in Thread, FindExternal(t) PROVE RolesInv'
  <2>1. UNCHANGED <<accounts, met>>
    BY <1>6 DEF FindExternal, tables, history
  <2>2. /\ OthersStay(t) /\ InStage(t, "complete", "find")
        /\ Rests(t) \/ Goes(t, IF accounts[call[t].user].exists THEN "issue" ELSE "provision")
    BY <1>2, <1>6 DEF ThreadStep, Moves, FindExternal
  <2>3. \A x \in Thread : InStage(x, "roles", "store")' => Stays(x)
    BY <2>2 DEF OthersStay, Rests, Goes, Kept, InStage, Idle
  <2>4. \A x \in Thread : InStage(x, "complete", "provision")' =>
           Stays(x) \/ (call'[x].user = call[t].user /\ ~ accounts[call[t].user].exists)
    BY <2>2 DEF OthersStay, Rests, Goes, Kept, InStage, Idle
  <2>5. Admins' = Admins /\ \A u \in User : ~ accounts[u].exists => u \notin Admins
    BY <2>1 DEF Admins
  <2> QED
    BY <1>1, <2>1, <2>3, <2>4, <2>5 DEF RolesInv, RolesAlone, Met, Stays, Kept, InStage
<1>7. ASSUME NEW t \in Thread, StoreRoles(t) PROVE RolesInv'
  <2> DEFINE w == call[t].user
  <2>1. /\ InStage(t, "roles", "store") /\ w \in User /\ accounts[w].exists
        /\ \A u \in User : /\ accounts'[u].exists = accounts[u].exists
                           /\ accounts'[u].admin = IF u = w THEN call[t].admin ELSE accounts[u].admin
        /\ (\E x \in Thread : InStage(x, "complete", "provision") /\ call[x].user = w) => Met("roles")'
    BY <1>1, <1>7 DEF StoreRoles, SetRoles, RolesInv, Met
  <2>2. met \subseteq met' /\ OthersStay(t) /\ Rests(t)
    BY <1>2, <1>7 DEF ThreadStep, Moves
  <2>3. \A x \in Thread : InStage(x, "roles", "store")' \/ InStage(x, "complete", "provision")' => x # t /\ Stays(x)
    BY <2>2 DEF OthersStay, Rests, InStage, Idle
  <2>4. \A u \in User : u \in Admins' <=> IF u = w THEN call[t].admin ELSE u \in Admins
    BY <2>1 DEF Admins
  <2>5. RolesAlone /\ ~ Met("roles")' => RolesAlone'
    <3> SUFFICES ASSUME RolesAlone, ~ Met("roles")' PROVE RolesAlone'
      OBVIOUS
    <3>1. Admins' # {}
      BY <2>1, <2>4 DEF RolesAlone, Admins
    <3>2. \A x \in Thread : ~ InStage(x, "roles", "store")'
      BY <2>1, <2>3 DEF RolesAlone, Stays, Kept, InStage
    <3>3. \A x \in Thread : InStage(x, "complete", "provision")' => call'[x].user \notin Admins'
      BY <1>1, <2>1, <2>3, <2>4 DEF RolesAlone, Stays, Kept, InStage
    <3> QED
      BY <3>1, <3>2, <3>3 DEF RolesAlone
  <2> QED
    BY <1>1, <2>1, <2>2, <2>3, <2>5 DEF RolesInv, Met, Stays, Kept, InStage
<1>8. ASSUME NEW t \in Thread, Provision(t) PROVE RolesInv'
  <2> DEFINE w == call[t].user
  <2>1. /\ InStage(t, "complete", "provision") /\ w \in User
        /\ \A u \in User : /\ accounts'[u].exists <=> u = w \/ accounts[u].exists
                           /\ accounts'[u].admin <=> u # w /\ accounts[u].admin
        /\ met' = met
    BY <1>1, <1>8 DEF Provision, SaveAdminUser, history
  <2>2. OthersStay(t) /\ Goes(t, "issue")
    BY <1>2, <1>8 DEF ThreadStep, Moves
  <2>3. \A x \in Thread : InStage(x, "roles", "store")' \/ InStage(x, "complete", "provision")' => Stays(x)
    BY <2>2 DEF OthersStay, Goes, InStage
  <2>4. w \notin Admins => Admins' = Admins
    BY <2>1 DEF Admins
  <2> QED
    BY <1>1, <2>1, <2>3, <2>4 DEF RolesInv, RolesAlone, Met, Stays, Kept, InStage
<1>9. CASE (LockLapses \/ Expires \/ EndSession \/ UNCHANGED vars) /\ UNCHANGED call
  <2>1. UNCHANGED accounts /\ met \subseteq met'
    BY <1>9 DEF LockLapses, Expires, EndSession, vars, tables, history
  <2> QED
    BY <1>9, <2>1 DEF RolesInv, RolesAlone, Admins, Met, InStage
<1> QED
  BY <1>4, <1>5, <1>6, <1>7, <1>8, <1>9, StepsOfThreads

------------------------------------------------------------------------------
(* The theorems.                                                           *)

\* In the beginning nothing was handed out and nobody has asked for anything.
LEMMA InitTypes == Init => Types
<1> SUFFICES ASSUME Init PROVE Types
  OBVIOUS
<1>1. /\ call \in [Thread -> CallType]
      /\ \A t \in Thread : call[t] = Idle
  BY IdleType DEF Init
<1>2. CallsOK
  BY <1>1, IdleType DEF Init, CallsOK, Idle
<1>3. \A t \in Thread : call[t].user \in User /\ call[t].item \in 0 .. made
  BY <1>1 DEF Idle, Init, User
<1>4. attempts \in [User -> [count : Nat, locked : BOOLEAN]]
  BY DEF Init, Counted
<1>5. TypeOK
  BY <1>3, <1>4 DEF Init, TypeOK
<1> QED
  BY <1>2, <1>5 DEF Types

\* The types hold throughout.
LEMMA TypesHold == Spec => []Types
<1>1. Types /\ [Next]_vars => Types'
  BY CallsStep, TypeStep DEF Types
<1> QED
  BY InitTypes, <1>1, PTL DEF Spec

\* The tables have their types, and only secrets whose code was entered guard
\* an account: enabling takes the secret the request has checked, not the one
\* that is pending by then.
THEOREM AccountsInvariant == Spec => []AccountsInv
<1>1. Init => SecretInv
  BY AccountAssumption DEF Init, SecretInv, EnabledSecretProven, InStage, Idle
<1>2. Types /\ SecretInv /\ [Next]_vars => SecretInv'
  BY SecretStep
<1>3. Types /\ SecretInv => AccountsInv
  BY DEF Types, SecretInv, AccountsInv
<1> QED
  BY TypesHold, <1>1, <1>2, <1>3, PTL DEF Spec

\* An account is locked exactly when as many logins as allowed have failed,
\* unless requests that count failures have overlapped.
THEOREM LockFollowsFailures == Spec => []LockHolds
<1>1. Init => LockInv
  <2> SUFFICES ASSUME Init PROVE LockInv
    OBVIOUS
  <2>1. ~ (0 >= MaxFailures)
    BY AccountAssumption
  <2>2. \A u \in User : attempts[u].count = 0 /\ ~ attempts[u].locked /\ failed[u] = 0
    BY <2>1 DEF Init, Counted
  <2>3. \A t \in Thread : ~ InStage(t, "login", "count")
    BY DEF Init, InStage, Idle
  <2> QED
    BY <2>1, <2>2, <2>3 DEF LockInv
<1>2. Types /\ LockInv /\ [Next]_vars => LockInv'
  BY LockStep
<1>3. LockInv => LockHolds
  BY DEF LockInv, LockHolds, Met
<1> QED
  BY TypesHold, <1>1, <1>2, <1>3, PTL DEF Spec

\* Once a change of the password is through, no session or challenge for the
\* old one is left, but for sign-ins that were in progress during the change.
THEOREM SessionsFollow == Spec => []SessionsFollowPassword
<1>1. Init => PasswordInv
  BY DEF Init, PasswordInv, Idle
<1>2. Types /\ PasswordInv /\ [Next]_vars => PasswordInv'
  BY PasswordStep
<1>3. PasswordInv => SessionsFollowPassword
  BY DEF PasswordInv, ForPassword, SessionsFollowPassword, ChangeInProgress, InStage
<1> QED
  BY TypesHold, <1>1, <1>2, <1>3, PTL DEF Spec

\* A challenge and an OAuth state lead to one session, unless two requests have
\* worked on the same challenge at once.
THEOREM AnswersLeadToOneSession == Spec => []AnsweredOnce
<1>1. Init => AnswerInv
  BY DEF Init, AnswerInv, Once, Answering, InStage, Idle
<1>2. Types /\ AnswerInv /\ [Next]_vars => AnswerInv'
  BY AnswerStep
<1>3. AnswerInv => AnsweredOnce
  BY DEF AnswerInv, Once, Met, AnsweredOnce
<1> QED
  BY TypesHold, <1>1, <1>2, <1>3, PTL DEF Spec

\* Somebody remains administrator, unless changes of roles have overlapped.
THEOREM AdministratorStays == Spec => []AdministratorRemains
<1>1. Init => RolesInv
  <2> SUFFICES ASSUME Init PROVE RolesInv
    OBVIOUS
  <2>1. /\ Root \in User
        /\ \A u \in User : (accounts[u].exists <=> u = Root) /\ (accounts[u].admin <=> u = Root)
        /\ \A t \in Thread : call[t] = Idle
    BY DEF Init, User
  <2>2. \A t \in Thread : ~ InStage(t, "roles", "store") /\ ~ InStage(t, "complete", "provision")
    BY <2>1 DEF InStage, Idle
  <2>3. Root \in Admins
    BY <2>1 DEF Admins
  <2> QED
    BY <2>1, <2>2, <2>3 DEF RolesInv, RolesAlone
<1>2. Types /\ RolesInv /\ [Next]_vars => RolesInv'
  BY RolesStep
<1>3. RolesInv => AdministratorRemains
  BY DEF RolesInv, RolesAlone, Met, AdministratorRemains
<1> QED
  BY TypesHold, <1>1, <1>2, <1>3, PTL DEF Spec
=============================================================================
