--------------------------- MODULE AccountsProofs ---------------------------
(***************************************************************************)
(* Theorems about Accounts, for any customers, calls, devices, currencies  *)
(* and numbers of tries.                                                   *)
(***************************************************************************)
EXTENDS AccountsInvariant, FiniteSetTheorems, WellFoundedInduction, TLAPS

USE AccountsAssumption

-----------------------------------------------------------------------------
(* Codes and bodies.                                                       *)

\* What a call asks has its type, and names what its kind is about.
LEMMA BodyFields ==
    ASSUME TypeOK, NEW r \in Requests
    PROVE  body[r] \in BodyType /\ WellFormed(body[r])
  BY DEF TypeOK

\* A set of positions that is not empty has a last one.
LEMMA MaxOfPositions ==
    ASSUME NEW n \in Nat, NEW S, S \subseteq 1..n, S # {}
    PROVE  Max(S) \in S /\ \A i \in S : i <= Max(S)
<1> DEFINE T == {n - i : i \in S}
           Less == OpToRel(<, Nat)
<1>0. \A i \in S : n - i \in Nat
  OBVIOUS
<1>1. T \subseteq Nat /\ T # {}
  <2>1. T \subseteq Nat
    BY <1>0
  <2>2. PICK i \in S : TRUE
    OBVIOUS
  <2>3. n - i \in T
    OBVIOUS
  <2> QED
    BY <2>1, <2>3
<1>2. \E x \in T : \A y \in T : ~ (<<y, x>> \in Less)
  BY <1>1, NatLessThanWellFounded, WFMin
<1>3. PICK x \in T : \A y \in T : ~ (y < x)
  BY <1>1, <1>2 DEF OpToRel
<1>4. PICK m \in S : x = n - m
  OBVIOUS
<1>5. \A i \in S : m >= i
  <2> SUFFICES ASSUME NEW i \in S PROVE m >= i
    OBVIOUS
  <2>1. n - i \in T /\ ~ (n - i < n - m)
    BY <1>3, <1>4
  <2> QED
    BY <2>1
<1>6. \E k \in S : \A i \in S : k >= i
  BY <1>5
<1>7. Max(S) \in S /\ \A i \in S : Max(S) >= i
  BY <1>6 DEF Max
<1> QED
  BY <1>7

LEMMA NewestIsUnused ==
    ASSUME TypeOK, NEW r \in Requests, \E i \in DOMAIN codes : OfCall(r, codes[i]) /\ ~ codes[i].used
    PROVE  Newest(r) \in DOMAIN codes /\ OfCall(r, codes[Newest(r)]) /\ ~ codes[Newest(r)].used
<1> DEFINE S == {i \in DOMAIN codes : OfCall(r, codes[i]) /\ ~ codes[i].used}
<1>1. Len(codes) \in Nat /\ S \subseteq 1..Len(codes) /\ S # {}
  BY DEF TypeOK
<1>2. Max(S) \in S
  BY <1>1, MaxOfPositions
<1> QED
  BY <1>2 DEF Newest

\* The two ways to write the codes keep their number, address and purpose.
LEMMA RetiredType ==
    ASSUME TypeOK, NEW r \in Requests
    PROVE  /\ Retired(r) \in Seq(CodeType) /\ DOMAIN Retired(r) = DOMAIN codes
           /\ \A i \in DOMAIN codes : /\ Retired(r)[i].user = codes[i].user
                                      /\ Retired(r)[i].purpose = codes[i].purpose
                                      /\ Retired(r)[i].attempts = codes[i].attempts
<1>1. codes \in [1..Len(codes) -> CodeType] /\ Len(codes) \in Nat
  BY DEF TypeOK
<1>2. \A i \in DOMAIN codes : OfCall(r, codes[i]) \in BOOLEAN
  BY DEF OfCall
<1>3. \A i \in DOMAIN codes : [codes[i] EXCEPT !.used = @ \/ OfCall(r, codes[i])] \in CodeType
  BY <1>1, <1>2 DEF CodeType
<1>4. Retired(r) \in [1..Len(codes) -> CodeType]
  BY <1>1, <1>3 DEF Retired
<1>5. \A i \in DOMAIN codes : /\ Retired(r)[i].user = codes[i].user
                              /\ Retired(r)[i].purpose = codes[i].purpose
                              /\ Retired(r)[i].attempts = codes[i].attempts
  BY <1>1 DEF Retired, CodeType
<1> QED
  BY <1>1, <1>4, <1>5

LEMMA AfterTryType ==
    ASSUME TypeOK, NEW r \in Requests, NEW valid \in BOOLEAN
    PROVE  /\ AfterTry(r, valid) \in Seq(CodeType) /\ DOMAIN AfterTry(r, valid) = DOMAIN codes
           /\ \A i \in DOMAIN codes : /\ AfterTry(r, valid)[i].user = codes[i].user
                                      /\ AfterTry(r, valid)[i].purpose = codes[i].purpose
                                      /\ AfterTry(r, valid)[i].attempts >= codes[i].attempts
           /\ seen[r] \in DOMAIN codes => AfterTry(r, valid)[seen[r]].attempts > 0
<1>1. codes \in [1..Len(codes) -> CodeType] /\ Len(codes) \in Nat
  BY DEF TypeOK
<1>2. \A c \in CodeType : /\ Tried(c, valid) \in CodeType
                          /\ Tried(c, valid).user = c.user /\ Tried(c, valid).purpose = c.purpose
                          /\ Tried(c, valid).attempts = c.attempts + 1 /\ c.attempts \in Nat
  BY DEF CodeType, Tried
<1>3. \A i \in DOMAIN codes :
          /\ AfterTry(r, valid)[i] = IF i = seen[r] THEN Tried(codes[i], valid) ELSE codes[i]
          /\ codes[i] \in CodeType
  BY <1>1 DEF AfterTry
<1>4. AfterTry(r, valid) \in [1..Len(codes) -> CodeType]
  BY <1>1, <1>2 DEF AfterTry
<1>5. \A i \in DOMAIN codes : /\ AfterTry(r, valid)[i].user = codes[i].user
                              /\ AfterTry(r, valid)[i].purpose = codes[i].purpose
                              /\ AfterTry(r, valid)[i].attempts >= codes[i].attempts
                              /\ i = seen[r] => AfterTry(r, valid)[i].attempts > 0
  BY <1>2, <1>3
<1> QED
  BY <1>1, <1>4, <1>5

-----------------------------------------------------------------------------
(* The steps of a call, by what they are about.                            *)

Moves(r) ==
    \/ RegisterRead(r) \/ EnsureRead(r) \/ LoginStart(r) \/ LoginAccept(r)
    \/ ForgotRead(r) \/ Authenticate(r) \/ Fail(r)

Codes(r) ==
    \/ RetireCodes(r) \/ CreateCode(r) \/ MailCode(r) \/ FindCode(r) \/ ConsumeCode(r)
    \/ MissCode(r) \/ VerifyRead(r) \/ ResetRead(r) \/ ForgotRetire(r)

PeopleWrites(r) ==
    \/ RegisterInsert(r) \/ Activate(r) \/ EnsureCreate(r) \/ ResetPassword(r)
    \/ LoginReject(r)

SessionSteps(r) ==
    \/ LoginDevice(r) \/ LoginSession(r) \/ RefreshRead(r) \/ RefreshRotate(r)
    \/ Logout(r) \/ RevokeSessions(r)
    \/ RegisterDevice(r) \/ TrustDevice(r) \/ RemoveDevice(r)

MfaSteps(r) ==
    \/ MfaEnableRead(r) \/ MfaStore(r) \/ MfaClear(r) \/ MfaConfirmRead(r)
    \/ MfaConfirmCommit(r) \/ MfaDisableRead(r) \/ MfaDisableCommit(r)
    \/ LoginFactor(r) \/ LoginSpend(r)

KycSteps(r) ==
    \/ KycSubmitRead(r) \/ KycUpload(r) \/ KycProgress(r)
    \/ DecideRead(r) \/ Approve(r) \/ Reject(r)

WalletSteps(r) ==
    \/ CreateRead(r) \/ CreateWallet(r) \/ PrimaryRead(r) \/ SetPrimary(r)
    \/ SetPin(r) \/ ReadPin(r) \/ MissPin(r) \/ ClearPin(r)

Step(r) ==
    \/ Moves(r) \/ Codes(r) \/ PeopleWrites(r) \/ SessionSteps(r)
    \/ MfaSteps(r) \/ KycSteps(r) \/ WalletSteps(r)

-----------------------------------------------------------------------------
(* The types.                                                              *)

\* A call that only moves on, or ends, or looks at its rows.
LEMMA MoveType ==
    ASSUME TypeOK, NEW r \in Requests, NEW here, NEW next \in Labels, Goto(r, here, next),
           UNCHANGED <<people, otp, logins, mfa, document, funds, pin, body, seen, row, ghosts>>
    PROVE  TypeOK'
  BY DEF TypeOK, Goto, people, otp, logins, mfa, funds, ghosts, marks

\* A call that notes a number or a row.
LEMMA NoteType ==
    ASSUME TypeOK, NEW r \in Requests, NEW here, NEW next \in Labels, Goto(r, here, next),
           UNCHANGED <<people, otp, logins, mfa, document, funds, pin, body, ghosts>>,
           \/ UNCHANGED row /\ \E i \in Nat : seen' = [seen EXCEPT ![r] = i]
           \/ UNCHANGED seen /\ \E x \in Tokens \cup Contents \cup {None} : row' = [row EXCEPT ![r] = x]
    PROVE  TypeOK'
<1>1. seen' \in [Requests -> Nat] /\ row' \in [Requests -> Tokens \cup Contents \cup {None}]
  <2>1. CASE UNCHANGED row /\ \E i \in Nat : seen' = [seen EXCEPT ![r] = i]
    BY <2>1 DEF TypeOK
  <2>2. CASE UNCHANGED seen /\ \E x \in Tokens \cup Contents \cup {None} : row' = [row EXCEPT ![r] = x]
    BY <2>2 DEF TypeOK
  <2> QED
    BY <2>1, <2>2
<1>2. pc' \in [Requests -> Labels]
  BY DEF TypeOK, Goto
<1> QED
  BY <1>1, <1>2 DEF TypeOK, people, otp, logins, mfa, funds, ghosts, marks

\* A call that writes the codes, or mails one.
LEMMA CodeWriteType ==
    ASSUME TypeOK, NEW r \in Requests, NEW here, NEW next \in Labels, Goto(r, here, next),
           codes' \in Seq(CodeType), DOMAIN codes \subseteq DOMAIN codes',
           mailed' \subseteq DOMAIN codes, seen' \in [Requests -> Nat],
           UNCHANGED <<people, logins, mfa, document, funds, pin, body, row, ghosts>>
    PROVE  TypeOK'
  BY DEF TypeOK, Goto, people, logins, mfa, funds, ghosts, marks

LEMMA AuthMoveType ==
    ASSUME TypeOK, NEW r \in Requests, Moves(r)
    PROVE  TypeOK'
<1>0. CASE EnsureRead(r)
  <2>1. MadeBy(body[r].user) \subseteq Requests
    BY DEF MadeBy
  <2>2. before' \in [Requests -> SUBSET Requests] /\ pc' \in [Requests -> Labels]
    BY <1>0, <2>1 DEF EnsureRead, Goto, TypeOK, Labels
  <2> QED
    BY <1>0, <2>2 DEF EnsureRead, TypeOK, people, otp, logins, mfa, funds
<1>1. \A here \in Labels, next \in Labels : Goto(r, here, next)
         /\ UNCHANGED <<people, otp, logins, mfa, document, funds, pin, body, seen, row, ghosts>>
         => TypeOK'
  BY MoveType
<1>2. pc[r] \in Labels
  BY DEF TypeOK
<1> QED
  BY <1>0, <1>1, <1>2 DEF Moves, RegisterRead, LoginStart, LoginAccept, ForgotRead, Authenticate,
                          Fail, Labels, Goto

LEMMA CodesType ==
    ASSUME TypeOK, Flow, NEW r \in Requests, Codes(r)
    PROVE  TypeOK'
<1> USE DEF Labels
<1>0. /\ codes \in Seq(CodeType) /\ mailed \subseteq DOMAIN codes /\ seen \in [Requests -> Nat]
      /\ \A i \in {0} \cup DOMAIN codes : i \in Nat
  BY DEF TypeOK
<1>1. CASE RetireCodes(r) \/ ForgotRetire(r)
  BY <1>0, <1>1, RetiredType, CodeWriteType DEF RetireCodes, ForgotRetire
<1>2. CASE CreateCode(r)
  <2>1. [user |-> body[r].user, purpose |-> Purpose(r), attempts |-> 0, used |-> FALSE] \in CodeType
    BY BodyFields DEF BodyType, CodeType, Purpose, Purposes
  <2>2. codes' \in Seq(CodeType) /\ DOMAIN codes \subseteq DOMAIN codes'
    BY <1>0, <1>2, <2>1 DEF CreateCode
  <2>3. seen' \in [Requests -> Nat]
    BY <1>0, <1>2 DEF CreateCode
  <2> QED
    BY <1>0, <1>2, <2>2, <2>3, CodeWriteType DEF CreateCode
<1>3. CASE MailCode(r)
  <2>1. seen[r] \in DOMAIN codes
    BY <1>3 DEF Flow, MailCode, Goto
  <2> QED
    BY <1>0, <1>3, <2>1, CodeWriteType DEF MailCode
<1>4. CASE FindCode(r)
  <2>1. Newest(r) \in Nat
    BY <1>0, <1>4, NewestIsUnused DEF FindCode
  <2> QED
    BY <1>4, <2>1, NoteType DEF FindCode, otp
<1>5. CASE ConsumeCode(r) \/ MissCode(r)
  BY <1>0, <1>5, AfterTryType, CodeWriteType DEF ConsumeCode, MissCode
<1>6. CASE VerifyRead(r) \/ ResetRead(r)
  BY <1>0, <1>6, NoteType DEF VerifyRead, ResetRead
<1> QED
  BY <1>1, <1>2, <1>3, <1>4, <1>5, <1>6 DEF Codes

LEMMA PeopleType ==
    ASSUME TypeOK, NEW r \in Requests, PeopleWrites(r)
    PROVE  TypeOK'
<1> USE BodyFields DEF TypeOK, Goto, Labels, BodyType, people, otp, logins, mfa, funds, ghosts, marks
<1>1. CASE RegisterInsert(r)
  BY <1>1 DEF RegisterInsert
<1>2. CASE Activate(r)
  <2>1. tier' \in [Users -> 0..2] /\ status' \in [Users -> {"NONE", "PENDING", "ACTIVE"}]
    BY <1>2 DEF Activate
  <2> QED
    BY <1>2, <2>1 DEF Activate
<1>3. CASE EnsureCreate(r)
  BY <1>3 DEF EnsureCreate
<1>4. CASE ResetPassword(r)
  BY <1>4 DEF ResetPassword
<1>5. CASE LoginReject(r)
  BY <1>5 DEF LoginReject
<1> QED
  BY <1>1, <1>2, <1>3, <1>4, <1>5 DEF PeopleWrites

\* One field of a session row changes.
LEMMA SessionUpdate ==
    ASSUME NEW s \in SessionType
    PROVE  /\ \A t \in Tokens : [s EXCEPT !.token = t] \in SessionType
           /\ [s EXCEPT !.status = "REVOKED"] \in SessionType
  BY DEF SessionType

LEMMA SessionsType ==
    ASSUME TypeOK, NEW r \in Requests, SessionSteps(r)
    PROVE  TypeOK'
<1> USE DEF people, otp, logins, mfa, funds, ghosts, marks, Goto, Labels
<1>0. /\ r \in Tokens /\ body[r] \in BodyType /\ WellFormed(body[r])
      /\ sessions \in [Tokens -> SessionType]
  BY BodyFields DEF TypeOK, Tokens
<1>1. CASE LoginDevice(r) \/ RegisterDevice(r)
  <2>0. body[r].user \in Users
    BY <1>0 DEF BodyType
  <2>1. device' \in [Devices -> Users \cup {None}]
    <3>1. device' = [device EXCEPT ![body[r].device] =
                       IF device[body[r].device] = None THEN body[r].user ELSE device[body[r].device]]
      BY <1>1 DEF LoginDevice, RegisterDevice, UpsertDevice
    <3>2. device \in [Devices -> Users \cup {None}]
      BY DEF TypeOK
    <3> HIDE DEF people, otp, logins, mfa, funds, ghosts, marks, Goto, Labels
    <3> QED
      BY <2>0, <3>1, <3>2
  <2>2. pc' \in [Requests -> Labels]
    BY <1>1 DEF TypeOK, LoginDevice, RegisterDevice
  <2> QED
    BY <1>1, <2>1, <2>2 DEF TypeOK, LoginDevice, RegisterDevice
<1>2. CASE LoginSession(r)
  <2>1. [status |-> "ACTIVE", user |-> body[r].user, token |-> r, device |-> body[r].device,
         password |-> body[r].password] \in SessionType
    BY <1>0 DEF SessionType, BodyType
  <2>2. sessions' \in [Tokens -> SessionType]
    BY <1>0, <1>2, <2>1 DEF LoginSession
  <2> QED
    BY <1>2, <2>2 DEF TypeOK, LoginSession
<1>3. CASE RefreshRead(r)
  BY <1>3, NoteType DEF RefreshRead
<1>4. CASE RefreshRotate(r)
  <2>1. sessions' \in [Tokens -> SessionType]
    BY <1>0, <1>4, SessionUpdate DEF RefreshRotate, Rotated
  <2> QED
    BY <1>4, <2>1 DEF TypeOK, RefreshRotate
<1>5. CASE Logout(r) \/ RevokeSessions(r)
  <2>1. sessions' \in [Tokens -> SessionType]
    BY <1>0, <1>5, SessionUpdate DEF Logout, LoggedOut, RevokeSessions
  <2>2. pc' \in [Requests -> Labels]
    BY <1>5 DEF TypeOK, Logout, RevokeSessions
  <2> QED
    BY <1>5, <2>1, <2>2 DEF TypeOK, Logout, RevokeSessions
<1>6. CASE TrustDevice(r)
  BY <1>0, <1>6 DEF TypeOK, TrustDevice, WellFormed, Is
<1>7. CASE RemoveDevice(r)
  <2>1. NoSession \in SessionType
    BY DEF NoSession, SessionType
  <2>2. sessions' \in [Tokens -> SessionType]
    BY <1>0, <1>7, <2>1 DEF RemoveDevice
  <2> QED
    BY <1>7, <2>2 DEF TypeOK, RemoveDevice
<1> QED
  BY <1>1, <1>2, <1>3, <1>4, <1>5, <1>6, <1>7 DEF SessionSteps

LEMMA MfaType ==
    ASSUME TypeOK, Flow, NEW r \in Requests, MfaSteps(r)
    PROVE  TypeOK'
<1> USE DEF Goto, Labels, people, otp, logins, mfa, funds, ghosts, marks
<1>0. /\ body[r].user \in Users
      /\ secret \in [Users -> SecretType] /\ backup \in [Requests -> BackupType]
      /\ NoBackup \in BackupType /\ NoSecret \in SecretType
      /\ \A id : WithoutCodes(id) \in [Requests -> BackupType]
  <2>1. body[r].user \in Users
    BY BodyFields DEF BodyType
  <2>2. NoBackup \in BackupType /\ NoSecret \in SecretType
    BY DEF NoBackup, NoSecret, BackupType, SecretType
  <2> QED
    BY <2>1, <2>2 DEF TypeOK, WithoutCodes
<1>1. CASE MfaEnableRead(r)
  BY <1>1, MoveType DEF MfaEnableRead
<1>2. CASE MfaStore(r)
  <2>1. [id |-> IF secret[body[r].user].id = None THEN r ELSE secret[body[r].user].id,
         key |-> r, enabled |-> FALSE] \in SecretType
    BY <1>0 DEF SecretType
  <2>2. secret' \in [Users -> SecretType]
    BY <1>0, <1>2, <2>1 DEF MfaStore
  <2>3. crossed' \in [Users -> SUBSET {"mfa", "kyc"}]
    BY <1>0, <1>2 DEF TypeOK, MfaStore, Restarted
  <2> QED
    BY <1>2, <2>2, <2>3 DEF TypeOK, MfaStore
<1>3. CASE MfaClear(r)
  <2>1. backup' \in [Requests -> BackupType]
    BY <1>0, <1>3 DEF MfaClear
  <2>2. crossed' \in [Users -> SUBSET {"mfa", "kyc"}]
    BY <1>0, <1>3 DEF TypeOK, MfaClear, Restarted
  <2> QED
    BY <1>3, <2>1, <2>2 DEF TypeOK, MfaClear
<1>4. CASE MfaConfirmRead(r) \/ MfaDisableRead(r) \/ LoginFactor(r)
  <2>1. secret[body[r].user].id \in Tokens \cup Contents \cup {None}
    BY <1>0 DEF SecretType, Tokens
  <2> QED
    BY <1>4, <2>1, NoteType DEF MfaConfirmRead, MfaDisableRead, LoginFactor
<1>5. CASE MfaConfirmCommit(r)
  <2>1. row[r] \in Requests
    BY <1>5 DEF MfaConfirmCommit, Flow
  <2>2. [of |-> row[r], used |-> FALSE] \in BackupType
    BY <2>1 DEF BackupType
  <2>3. backup' \in [Requests -> BackupType]
    BY <1>0, <1>5, <2>2 DEF MfaConfirmCommit
  <2>4. [secret[body[r].user] EXCEPT !.enabled = TRUE] \in SecretType
    BY <1>0 DEF SecretType
  <2>5. secret' \in [Users -> SecretType]
    BY <1>0, <1>5, <2>4 DEF MfaConfirmCommit
  <2> QED
    BY <1>0, <1>5, <2>3, <2>5 DEF TypeOK, MfaConfirmCommit
<1>6. CASE MfaDisableCommit(r)
  <2>1. secret' \in [Users -> SecretType] /\ backup' \in [Requests -> BackupType]
    BY <1>0, <1>6 DEF MfaDisableCommit
  <2> QED
    BY <1>6, <2>1 DEF TypeOK, MfaDisableCommit
<1>7. CASE LoginSpend(r)
  <2>1. \A q \in Requests : [backup[q] EXCEPT !.used = TRUE] \in BackupType
    BY <1>0 DEF BackupType
  <2>2. backup' \in [Requests -> BackupType]
    BY <1>0, <1>7, <2>1 DEF LoginSpend
  <2> QED
    BY <1>7, <2>2 DEF TypeOK, LoginSpend
<1> QED
  BY <1>1, <1>2, <1>3, <1>4, <1>5, <1>6, <1>7 DEF MfaSteps

\* One field of a document row changes.
LEMMA DocumentUpdate ==
    ASSUME NEW d \in DocumentType
    PROVE  /\ [d EXCEPT !.verified = TRUE] \in DocumentType
           /\ [d EXCEPT !.rejected = TRUE] \in DocumentType
           /\ [d EXCEPT !.verified = TRUE].verified
           /\ [d EXCEPT !.rejected = TRUE].verified = d.verified
  BY DEF DocumentType

LEMMA KycType ==
    ASSUME TypeOK, NEW r \in Requests, KycSteps(r)
    PROVE  TypeOK'
<1> USE DEF Goto, Labels, people, otp, logins, mfa, funds, ghosts, marks
<1>0. /\ body[r].user \in Users /\ body[r].content \in Contents \cup {None}
      /\ document \in [Users -> DocumentType]
      /\ document[body[r].user].content \in Contents \cup {None}
  <2>1. body[r].user \in Users /\ body[r].content \in Contents \cup {None}
    BY BodyFields DEF BodyType
  <2> QED
    BY <2>1 DEF TypeOK, DocumentType
<1>1. ASSUME NEW changed, Overtaken(r, changed) PROVE crossed' \in [Users -> SUBSET {"mfa", "kyc"}]
  BY <1>0, <1>1 DEF TypeOK, Overtaken
<1>2. CASE KycSubmitRead(r)
  BY <1>2, MoveType DEF KycSubmitRead
<1>3. CASE KycUpload(r)
  <2>1. Uploaded(r) \in DocumentType
    BY <1>0 DEF Uploaded, DocumentType
  <2>2. document' \in [Users -> DocumentType]
    BY <1>0, <1>3, <2>1 DEF KycUpload
  <2> QED
    BY <1>1, <1>3, <2>2 DEF TypeOK, KycUpload
<1>4. CASE KycProgress(r)
  BY <1>0, <1>1, <1>4 DEF TypeOK, KycProgress
<1>5. CASE DecideRead(r)
  <2>1. document[body[r].user].content \in Tokens \cup Contents \cup {None}
    BY <1>0
  <2> QED
    BY <1>5, <2>1, NoteType DEF DecideRead
<1>6. CASE Approve(r)
  <2>1. document' \in [Users -> DocumentType]
    BY <1>0, <1>6, DocumentUpdate DEF Approve
  <2>2. kyc' \in [Users -> {"NOT_STARTED", "IN_PROGRESS", "VERIFIED", "REJECTED"}]
    BY <1>6 DEF TypeOK, Approve
  <2>3. tier' \in [Users -> 0..2]
    <3>1. tier \in [Users -> 0..2] /\ tier' = [tier EXCEPT ![body[r].user] = 2] /\ 2 \in 0..2
      BY <1>6 DEF TypeOK, Approve
    <3> QED
      BY <3>1
  <2> QED
    BY <1>1, <1>6, <2>1, <2>2, <2>3 DEF TypeOK, Approve
<1>7. CASE Reject(r)
  <2>1. document' \in [Users -> DocumentType]
    BY <1>0, <1>7, DocumentUpdate DEF Reject
  <2>2. kyc' \in [Users -> {"NOT_STARTED", "IN_PROGRESS", "VERIFIED", "REJECTED"}]
    BY <1>7 DEF TypeOK, Reject
  <2> QED
    BY <1>1, <1>7, <2>1, <2>2 DEF TypeOK, Reject
<1> QED
  BY <1>2, <1>3, <1>4, <1>5, <1>6, <1>7 DEF KycSteps

LEMMA WalletAccessType ==
    ASSUME TypeOK, Flow, NEW r \in Requests, WalletSteps(r)
    PROVE  TypeOK'
<1> USE DEF Goto, Labels, people, otp, logins, mfa, funds, ghosts, marks
<1>0. /\ body[r].user \in Users /\ pin \in [Users -> PinType] /\ seen[r] \in Nat
      /\ wallets \in [Users -> SUBSET Currencies] /\ primary \in [Users -> SUBSET Currencies]
  <2>1. body[r].user \in Users
    BY BodyFields DEF BodyType
  <2> QED
    BY <2>1 DEF TypeOK
<1>1. CASE CreateRead(r) \/ PrimaryRead(r)
  BY <1>1, MoveType DEF CreateRead, PrimaryRead
<1>2. CASE CreateWallet(r)
  <2>1. body[r].currency \in Currencies
    BY <1>2, BodyFields DEF CreateWallet, Flow, Is, WellFormed
  <2>2. wallets' \in [Users -> SUBSET Currencies]
    <3>1. wallets' = [wallets EXCEPT ![body[r].user] = wallets[body[r].user] \cup {body[r].currency}]
      BY <1>2 DEF CreateWallet
    <3>2. wallets[body[r].user] \cup {body[r].currency} \in SUBSET Currencies
      BY <1>0, <2>1
    <3> QED
      BY <1>0, <3>1, <3>2
  <2> QED
    BY <1>2, <2>2 DEF TypeOK, CreateWallet
<1>3. CASE SetPrimary(r)
  <2>1. body[r].currency \in Currencies
    BY <1>0, <1>3 DEF SetPrimary, Flow, TypeOK
  <2>2. primary' \in [Users -> SUBSET Currencies]
    BY <1>0, <1>3, <2>1 DEF SetPrimary
  <2> QED
    BY <1>3, <2>2 DEF TypeOK, SetPrimary
<1>4. CASE SetPin(r)
  <2>1. [set |-> TRUE, attempts |-> 0, locked |-> FALSE] \in PinType
    BY DEF PinType
  <2>2. pin' \in [Users -> PinType]
    BY <1>0, <1>4, <2>1 DEF SetPin
  <2> QED
    BY <1>4, <2>2 DEF TypeOK, SetPin
<1>5. CASE ReadPin(r)
  <2>1. pin[body[r].user].attempts \in Nat
    BY <1>0 DEF PinType
  <2>2. (IF body[r].right THEN AfterPin(r) ELSE "wrong") \in Labels
    BY DEF AfterPin
  <2> HIDE DEF Goto, Labels, people, otp, logins, mfa, funds, ghosts, marks
  <2> DEFINE next == IF body[r].right THEN AfterPin(r) ELSE "wrong"
  <2>3. /\ Goto(r, "enter", next) /\ next \in Labels
        /\ \E i \in Nat : seen' = [seen EXCEPT ![r] = i]
        /\ UNCHANGED <<people, otp, logins, mfa, document, funds, pin, body, row, ghosts>>
    BY <1>5, <2>1, <2>2 DEF ReadPin
  <2> HIDE DEF next
  <2> QED
    BY <2>3, NoteType
<1>6. CASE MissPin(r)
  <2>1. Counted(r) \in Nat /\ LocksPin(r) \in BOOLEAN
    BY <1>0 DEF Counted, LocksPin, PinType
  <2>2. pin[body[r].user].set \in BOOLEAN
    BY <1>0 DEF PinType
  <2>3. [set |-> pin[body[r].user].set, attempts |-> Counted(r), locked |-> LocksPin(r)] \in PinType
    BY <2>1, <2>2 DEF PinType
  <2>4. pin' \in [Users -> PinType]
    BY <1>0, <1>6, <2>3 DEF MissPin
  <2> QED
    BY <1>6, <2>4 DEF TypeOK, MissPin
<1>7. CASE ClearPin(r)
  <2>1. [set |-> pin[body[r].user].set, attempts |-> 0, locked |-> FALSE] \in PinType
    BY <1>0 DEF PinType
  <2>2. pin' \in [Users -> PinType]
    BY <1>0, <1>7, <2>1 DEF ClearPin
  <2> QED
    BY <1>7, <2>2 DEF TypeOK, ClearPin
<1> QED
  BY <1>1, <1>2, <1>3, <1>4, <1>5, <1>6, <1>7 DEF WalletSteps

LEMMA ExpiryType ==
    ASSUME TypeOK, NEW u \in Users, PinLockExpires(u)
    PROVE  TypeOK'
<1>1. [set |-> pin[u].set, attempts |-> pin[u].attempts, locked |-> FALSE] \in PinType
  BY DEF TypeOK, PinType
<1>2. pin' \in [Users -> PinType]
  BY <1>1 DEF TypeOK, PinLockExpires
<1> QED
  BY <1>2 DEF TypeOK, PinLockExpires, people, otp, logins, mfa, funds, ghosts, marks

LEMMA StepCases ==
    ASSUME Next
    PROVE  (\E r \in Requests : Step(r)) \/ (\E u \in Users : PinLockExpires(u))
  BY DEF Next, AuthNext, MfaNext, KycNext, WalletAccessNext, Step, Moves, Codes, PeopleWrites,
         SessionSteps, MfaSteps, KycSteps, WalletSteps

LEMMA TypeStep ==
    ASSUME TypeOK, Flow, Next
    PROVE  TypeOK'
  BY StepCases, AuthMoveType, CodesType, PeopleType, SessionsType, MfaType, KycType,
     WalletAccessType, ExpiryType DEF Step

-----------------------------------------------------------------------------
(* What every step leaves alone.                                           *)

\* A step is of a call that has not ended, and of no other call.
LEMMA Frame ==
    ASSUME TypeOK, NEW r \in Requests, Step(r)
    PROVE  /\ body' = body
           /\ pc[r] \notin {"answered", "failed"}
           /\ \A q \in Requests \ {r} : pc'[q] = pc[q] /\ seen'[q] = seen[q] /\ row'[q] = row[q]
<1> USE DEF Goto
<1>0. pc \in [Requests -> Labels] /\ seen \in [Requests -> Nat] /\ row \in [Requests -> Tokens \cup Contents \cup {None}]
  BY DEF TypeOK
<1>1. CASE Moves(r)
  BY <1>0, <1>1 DEF Moves, RegisterRead, EnsureRead, LoginStart, LoginAccept, ForgotRead,
                    Authenticate, Fail
<1>2. CASE Codes(r)
  BY <1>0, <1>2 DEF Codes, RetireCodes, CreateCode, MailCode, FindCode, ConsumeCode, MissCode,
                    VerifyRead, ResetRead, ForgotRetire
<1>3. CASE PeopleWrites(r)
  BY <1>0, <1>3 DEF PeopleWrites, RegisterInsert, Activate, EnsureCreate, ResetPassword, LoginReject
<1>4. CASE SessionSteps(r)
  BY <1>0, <1>4 DEF SessionSteps, LoginDevice, LoginSession, RefreshRead, RefreshRotate, Logout,
                    RevokeSessions, RegisterDevice, TrustDevice, RemoveDevice
<1>5. CASE MfaSteps(r)
  BY <1>0, <1>5 DEF MfaSteps, MfaEnableRead, MfaStore, MfaClear, MfaConfirmRead, MfaConfirmCommit,
                    MfaDisableRead, MfaDisableCommit, LoginFactor, LoginSpend
<1>6. CASE KycSteps(r)
  BY <1>0, <1>6 DEF KycSteps, KycSubmitRead, KycUpload, KycProgress, DecideRead, Approve, Reject
<1>7. CASE WalletSteps(r)
  BY <1>0, <1>7 DEF WalletSteps, CreateRead, CreateWallet, PrimaryRead, SetPrimary, SetPin, ReadPin,
                    MissPin, ClearPin
<1> QED
  BY <1>1, <1>2, <1>3, <1>4, <1>5, <1>6, <1>7 DEF Step

\* Only the steps named write the tables named.
LEMMA WhoWrites ==
    ASSUME NEW r \in Requests, Step(r)
    PROVE  /\ LoginSession(r) \/ RefreshRotate(r) \/ Logout(r) \/ RevokeSessions(r)
              \/ RemoveDevice(r) \/ UNCHANGED sessions
           /\ Codes(r) \/ UNCHANGED <<codes, mailed>>
           /\ RegisterInsert(r) \/ Activate(r) \/ UNCHANGED status
           /\ Activate(r) \/ Approve(r) \/ UNCHANGED tier
           /\ KycUpload(r) \/ Approve(r) \/ Reject(r) \/ UNCHANGED document
           /\ EnsureCreate(r) \/ CreateWallet(r) \/ UNCHANGED wallets
           /\ EnsureCreate(r) \/ SetPrimary(r) \/ UNCHANGED primary
           /\ SetPin(r) \/ MissPin(r) \/ ClearPin(r) \/ UNCHANGED pin
           /\ MissPin(r) \/ UNCHANGED missed
           /\ Activate(r) \/ UNCHANGED activated
           /\ EnsureRead(r) \/ UNCHANGED before
           /\ KycProgress(r) \/ Approve(r) \/ Reject(r) \/ UNCHANGED kyc
           /\ MfaStore(r) \/ MfaClear(r) \/ KycUpload(r) \/ KycProgress(r) \/ Approve(r)
              \/ Reject(r) \/ UNCHANGED crossed
           /\ MfaConfirmCommit(r) \/ MfaDisableCommit(r) \/ UNCHANGED mfaOn
           /\ MfaStore(r) \/ MfaConfirmCommit(r) \/ MfaDisableCommit(r) \/ UNCHANGED secret
           /\ MfaClear(r) \/ MfaConfirmCommit(r) \/ MfaDisableCommit(r) \/ LoginSpend(r)
              \/ UNCHANGED backup
<1> USE DEF people, otp, logins, mfa, funds, ghosts, marks
<1>1. CASE Moves(r)
  BY <1>1 DEF Moves, RegisterRead, EnsureRead, LoginStart, LoginAccept, ForgotRead,
                    Authenticate, Fail
<1>2. CASE Codes(r)
  BY <1>2 DEF Codes, RetireCodes, CreateCode, MailCode, FindCode, ConsumeCode, MissCode,
                    VerifyRead, ResetRead, ForgotRetire
<1>3. CASE PeopleWrites(r)
  BY <1>3 DEF PeopleWrites, RegisterInsert, Activate, EnsureCreate, ResetPassword, LoginReject
<1>4. CASE SessionSteps(r)
  BY <1>4 DEF SessionSteps, LoginDevice, LoginSession, RefreshRead, RefreshRotate, Logout,
                    RevokeSessions, RegisterDevice, TrustDevice, RemoveDevice
<1>5. CASE MfaSteps(r)
  BY <1>5 DEF MfaSteps, MfaEnableRead, MfaStore, MfaClear, MfaConfirmRead, MfaConfirmCommit,
                    MfaDisableRead, MfaDisableCommit, LoginFactor, LoginSpend
<1>6. CASE KycSteps(r)
  BY <1>6 DEF KycSteps, KycSubmitRead, KycUpload, KycProgress, DecideRead, Approve, Reject
<1>7. CASE WalletSteps(r)
  BY <1>7 DEF WalletSteps, CreateRead, CreateWallet, PrimaryRead, SetPrimary, SetPin, ReadPin,
                    MissPin, ClearPin
<1> QED
  BY <1>1, <1>2, <1>3, <1>4, <1>5, <1>6, <1>7 DEF Step

\* A call gets where the invariant looks at it by the steps named only, and
\* leaves there by those named.
LEMMA Landing ==
    ASSUME TypeOK, NEW r \in Requests, Step(r)
    PROVE  /\ pc'[r] = "enter" => LoginStart(r) \/ Authenticate(r)
           /\ pc'[r] = "mfa" => LoginAccept(r)
           /\ pc'[r] = "spend" => LoginFactor(r)
           /\ pc'[r] = "device" => LoginAccept(r) \/ LoginSpend(r)
           /\ pc'[r] = "session" => LoginDevice(r)
           /\ pc'[r] = "rotate" => RefreshRead(r)
           /\ pc'[r] = "activate" => ConsumeCode(r)
           /\ pc'[r] = "wallet" => Activate(r)
           /\ pc'[r] = "grant" => EnsureRead(r)
           /\ pc'[r] = "create" => CreateRead(r)
           /\ pc'[r] = "primary" => PrimaryRead(r)
           /\ pc'[r] = "mail" => CreateCode(r)
           /\ pc'[r] = "enable" => MfaConfirmRead(r)
           /\ pc'[r] = "find" => VerifyRead(r) \/ ResetRead(r)
           /\ pc'[r] = "mark" => FindCode(r)
           /\ pc'[r] = "wrong" => ReadPin(r)
           /\ pc'[r] = "upload" => KycSubmitRead(r)
           /\ pc'[r] = "progress" => KycUpload(r)
           /\ pc[r] = "progress" => KycProgress(r) \/ Fail(r)
           /\ pc[r] = "wallet" => EnsureRead(r) \/ Fail(r)
           /\ pc[r] = "grant" => EnsureCreate(r) \/ Fail(r)
           /\ Is(r, "LOGOUT") /\ pc[r] = "idle" => Authenticate(r) \/ Fail(r)
           /\ Is(r, "LOGOUT") /\ pc[r] = "enter" => Logout(r) \/ Fail(r)
           /\ Is(r, "WALLET_PRIMARY") /\ pc[r] = "idle" => Authenticate(r) \/ Fail(r)
           /\ Is(r, "WALLET_PRIMARY") /\ pc[r] = "enter" => PrimaryRead(r) \/ Fail(r)
           /\ pc[r] = "primary" => SetPrimary(r) \/ Fail(r)
<1> USE DEF Goto, Is, CustomerKinds, ReviewKinds, PinKinds, AfterPin
<1>0. pc \in [Requests -> Labels]
  BY DEF TypeOK
<1>1. CASE Moves(r)
  BY <1>0, <1>1 DEF Moves, RegisterRead, EnsureRead, LoginStart, LoginAccept, ForgotRead,
                    Authenticate, Fail
<1>2. CASE Codes(r)
  BY <1>0, <1>2 DEF Codes, RetireCodes, CreateCode, MailCode, FindCode, ConsumeCode, MissCode,
                    VerifyRead, ResetRead, ForgotRetire
<1>3. CASE PeopleWrites(r)
  BY <1>0, <1>3 DEF PeopleWrites, RegisterInsert, Activate, EnsureCreate, ResetPassword, LoginReject
<1>4. CASE SessionSteps(r)
  BY <1>0, <1>4 DEF SessionSteps, LoginDevice, LoginSession, RefreshRead, RefreshRotate, Logout,
                    RevokeSessions, RegisterDevice, TrustDevice, RemoveDevice
<1>5. CASE MfaSteps(r)
  BY <1>0, <1>5 DEF MfaSteps, MfaEnableRead, MfaStore, MfaClear, MfaConfirmRead, MfaConfirmCommit,
                    MfaDisableRead, MfaDisableCommit, LoginFactor, LoginSpend
<1>6. CASE KycSteps(r)
  BY <1>0, <1>6 DEF KycSteps, KycSubmitRead, KycUpload, KycProgress, DecideRead, Approve, Reject
<1>7. CASE WalletSteps(r)
  BY <1>0, <1>7 DEF WalletSteps, CreateRead, CreateWallet, PrimaryRead, SetPrimary, SetPin, ReadPin,
                    MissPin, ClearPin
<1> QED
  BY <1>1, <1>2, <1>3, <1>4, <1>5, <1>6, <1>7 DEF Step

\* Codes are added, mailed and tried, and otherwise stay what they are.
LEMMA CodesKept ==
    ASSUME TypeOK, Flow, NEW r \in Requests, Step(r)
    PROVE  /\ DOMAIN codes \subseteq DOMAIN codes' /\ mailed \subseteq mailed'
           /\ \A i \in DOMAIN codes : /\ codes'[i].user = codes[i].user
                                      /\ codes'[i].purpose = codes[i].purpose
                                      /\ codes'[i].attempts >= codes[i].attempts
<1>0. \A i \in DOMAIN codes : codes[i].attempts \in Nat
  <2>1. codes \in [1..Len(codes) -> CodeType]
    BY DEF TypeOK
  <2> QED
    BY <2>1 DEF CodeType
<1>1. CASE ~ Codes(r)
  BY <1>0, <1>1, WhoWrites
<1>2. CASE RetireCodes(r) \/ ForgotRetire(r)
  BY <1>0, <1>2, RetiredType DEF RetireCodes, ForgotRetire, otp
<1>3. CASE CreateCode(r)
  <2>1. codes \in Seq(CodeType)
    BY DEF TypeOK
  <2>2. /\ DOMAIN codes \subseteq DOMAIN codes'
        /\ \A i \in DOMAIN codes : codes'[i] = codes[i]
    BY <1>3, <2>1 DEF CreateCode
  <2> QED
    BY <1>0, <1>3, <2>2 DEF CreateCode
<1>4. CASE MailCode(r)
  BY <1>0, <1>4 DEF MailCode
<1>5. CASE ConsumeCode(r) \/ MissCode(r)
  BY <1>5, AfterTryType DEF ConsumeCode, MissCode
<1>6. CASE FindCode(r) \/ VerifyRead(r) \/ ResetRead(r)
  BY <1>0, <1>6 DEF FindCode, VerifyRead, ResetRead, otp
<1> QED
  BY <1>1, <1>2, <1>3, <1>4, <1>5, <1>6 DEF Codes

\* Wallets are only added: the first one, or the one a call asked for.
LEMMA WalletsKept ==
    ASSUME TypeOK, NEW r \in Requests, Step(r), NEW u \in Users
    PROVE  /\ wallets[u] \subseteq wallets'[u]
           /\ \A c \in wallets'[u] \ wallets[u] :
                 /\ u = body[r].user
                 /\ \/ EnsureCreate(r) /\ c = OpeningWallet
                    \/ CreateWallet(r) /\ c = body[r].currency
<1>1. wallets \in [Users -> SUBSET Currencies]
  BY DEF TypeOK
<1>2. ASSUME NEW c, wallets' = [wallets EXCEPT ![body[r].user] = wallets[body[r].user] \cup {c}]
      PROVE  wallets[u] \subseteq wallets'[u] /\ \A d \in wallets'[u] \ wallets[u] : u = body[r].user /\ d = c
  BY <1>1, <1>2
<1>3. CASE EnsureCreate(r)
  <2>1. wallets' = [wallets EXCEPT ![body[r].user] = wallets[body[r].user] \cup {OpeningWallet}]
    BY <1>3 DEF EnsureCreate
  <2> QED
    BY <1>2, <1>3, <2>1
<1>4. CASE CreateWallet(r)
  <2>1. wallets' = [wallets EXCEPT ![body[r].user] = wallets[body[r].user] \cup {body[r].currency}]
    BY <1>4 DEF CreateWallet
  <2> QED
    BY <1>2, <1>4, <2>1
<1>5. CASE UNCHANGED wallets
  BY <1>5
<1> QED
  BY <1>3, <1>4, <1>5, WhoWrites

\* Documents that are verified stay so.
LEMMA VerifiedKept ==
    ASSUME TypeOK, NEW r \in Requests, Step(r), NEW u \in Users, document[u].verified
    PROVE  document'[u].verified
<1>1. /\ document \in [Users -> DocumentType] /\ document[u] \in DocumentType
      /\ body[r].content \in Contents \cup {None}
  BY BodyFields DEF TypeOK, BodyType
<1>2. CASE KycUpload(r)
  <2>1. document' = [document EXCEPT ![body[r].user] = Uploaded(r)]
    BY <1>2 DEF KycUpload
  <2>2. CASE u = body[r].user
    <3>1. document'[u] = Uploaded(r)
      BY <1>1, <2>1, <2>2
    <3> QED
      BY <2>2, <3>1 DEF Uploaded
  <2>3. CASE u # body[r].user
    BY <1>1, <2>1, <2>3
  <2> QED
    BY <2>2, <2>3
<1>3. CASE Approve(r)
  <2>1. document' = [document EXCEPT ![body[r].user] = [document[body[r].user] EXCEPT !.verified = TRUE]]
    BY <1>3 DEF Approve
  <2>2. CASE u = body[r].user
    <3>1. document'[u] = [document[u] EXCEPT !.verified = TRUE]
      BY <1>1, <2>1, <2>2
    <3> QED
      BY <1>1, <3>1, DocumentUpdate
  <2>3. CASE u # body[r].user
    BY <1>1, <2>1, <2>3
  <2> QED
    BY <2>2, <2>3
<1>4. CASE Reject(r)
  <2>1. document' = [document EXCEPT ![body[r].user] = [document[body[r].user] EXCEPT !.rejected = TRUE]]
    BY <1>4 DEF Reject
  <2> QED
    BY <1>1, <2>1, DocumentUpdate
<1> QED
  BY <1>2, <1>3, <1>4, WhoWrites

\* Where there is a document there will be one.
LEMMA ContentKept ==
    ASSUME TypeOK, Flow, NEW r \in Requests, Step(r), NEW u \in Users
    PROVE  /\ document[u].content # None => document'[u].content # None
           /\ KycUpload(r) /\ body[r].user = u => document'[u].content # None
<1>1. document \in [Users -> DocumentType] /\ document[u] \in DocumentType
  BY DEF TypeOK
<1>2. CASE KycUpload(r)
  <2>1. document' = [document EXCEPT ![body[r].user] = Uploaded(r)]
    BY <1>2 DEF KycUpload
  <2>2. body[r].content \in Contents /\ None \notin Contents
    BY <1>2, BodyFields DEF KycUpload, Goto, Flow, Is, WellFormed
  <2>3. Uploaded(r).content # None
    BY <2>2 DEF Uploaded
  <2> QED
    BY <1>1, <2>1, <2>3
<1>3. CASE Approve(r) \/ Reject(r)
  <2>1. document'[u] = document[u] \/ document'[u] = [document[u] EXCEPT !.verified = TRUE]
        \/ document'[u] = [document[u] EXCEPT !.rejected = TRUE]
    BY <1>1, <1>3 DEF Approve, Reject
  <2>2. document'[u].content = document[u].content
    BY <1>1, <2>1 DEF DocumentType
  <2>3. ~ KycUpload(r)
    BY <1>3 DEF Approve, Reject, KycUpload, Goto
  <2> QED
    BY <2>2, <2>3
<1>4. CASE UNCHANGED document /\ ~ KycUpload(r)
  BY <1>4
<1> QED
  BY <1>2, <1>3, <1>4, WhoWrites

-----------------------------------------------------------------------------
(* The parts of the invariant.                                             *)

LEMMA FlowStep ==
    ASSUME TypeOK, Flow, Next
    PROVE  Flow'
<1>1. CASE \E u \in Users : PinLockExpires(u)
  BY <1>1 DEF PinLockExpires, Flow, Is, people, otp, logins, mfa, funds, ghosts, marks
<1>2. ASSUME NEW r \in Requests, Step(r) PROVE Flow'
  <2> SUFFICES ASSUME NEW q \in Requests
      PROVE  /\ pc'[q] \in {"mfa", "spend", "device", "session"} => Is(q, "LOGIN")
             /\ pc'[q] = "rotate" => Is(q, "REFRESH") /\ row'[q] \in Tokens
             /\ pc'[q] = "enter" => Is(q, "LOGIN") \/ body[q].kind \in CustomerKinds
             /\ pc'[q] \in {"activate", "wallet", "grant"} => Is(q, "VERIFY_EMAIL")
             /\ pc'[q] = "create" => Is(q, "WALLET_CREATE")
             /\ pc'[q] = "primary" => body[q].currency \in wallets'[body[q].user]
             /\ pc'[q] = "mail" => seen'[q] \in DOMAIN codes'
             /\ pc'[q] = "enable" => row'[q] \in Requests
             /\ pc'[q] \in {"upload", "progress"} => Is(q, "KYC_SUBMIT")
             /\ pc'[q] = "progress" => document'[body[q].user].content # None
             /\ Is(q, "LOGOUT") => pc'[q] \in {"idle", "enter", "answered", "failed"}
             /\ Is(q, "WALLET_PRIMARY") =>
                    pc'[q] \in {"idle", "enter", "primary", "answered", "failed"}
    BY <1>2, Frame DEF Flow, Is
  <2>1. body[q].user \in Users
    BY BodyFields DEF BodyType
  <2>2. CASE q # r
    BY <1>2, <2>1, <2>2, Frame, CodesKept, WalletsKept, ContentKept DEF Flow
  <2>3. CASE q = r
    <3>1. pc'[r] \in {"mfa", "spend", "device", "session"} => Is(r, "LOGIN")
      BY <1>2, Landing DEF Flow, LoginAccept, LoginFactor, LoginSpend, LoginDevice, Goto
    <3>2. pc'[r] = "rotate" => Is(r, "REFRESH") /\ row'[r] \in Tokens
      BY <1>2, Landing DEF RefreshRead, TypeOK
    <3>3. pc'[r] = "enter" => Is(r, "LOGIN") \/ body[r].kind \in CustomerKinds
      BY <1>2, Landing DEF LoginStart, Authenticate
    <3>4. pc'[r] \in {"activate", "wallet", "grant"} => Is(r, "VERIFY_EMAIL")
      <4>1. CASE ConsumeCode(r)
        BY <1>2, <4>1, Landing DEF ConsumeCode, Goto, TypeOK
      <4>2. CASE Activate(r) \/ EnsureRead(r)
        BY <4>2 DEF Activate, EnsureRead, Goto, Flow
      <4> QED
        BY <1>2, <4>1, <4>2, Landing
    <3>5. pc'[r] = "create" => Is(r, "WALLET_CREATE")
      BY <1>2, Landing DEF CreateRead
    <3>6. pc'[r] = "primary" => body[r].currency \in wallets'[body[r].user]
      BY <1>2, <2>1, <2>3, Landing, WalletsKept DEF PrimaryRead
    <3>7. pc'[r] = "mail" => seen'[r] \in DOMAIN codes'
      <4> SUFFICES ASSUME CreateCode(r) PROVE seen'[r] \in DOMAIN codes'
        BY <1>2, Landing
      <4>1. codes \in Seq(CodeType) /\ seen \in [Requests -> Nat]
        BY DEF TypeOK
      <4> QED
        BY <4>1 DEF CreateCode
    <3>8. pc'[r] = "enable" => row'[r] \in Requests
      <4> SUFFICES ASSUME MfaConfirmRead(r) PROVE row'[r] \in Requests
        BY <1>2, Landing
      <4>1. secret[body[r].user].id \in Requests \cup {None} /\ row'[r] = secret[body[r].user].id
        BY <2>1, <2>3 DEF MfaConfirmRead, TypeOK, SecretType
      <4> QED
        BY <4>1 DEF MfaConfirmRead
    <3>9. Is(r, "LOGOUT") => pc'[r] \in {"idle", "enter", "answered", "failed"}
      <4> SUFFICES ASSUME Is(r, "LOGOUT") PROVE pc'[r] \in {"idle", "enter", "answered", "failed"}
        OBVIOUS
      <4>1. pc[r] \in {"idle", "enter"}
        BY <1>2, Frame DEF Flow
      <4>2. Authenticate(r) \/ Logout(r) \/ Fail(r)
        BY <1>2, <4>1, Landing
      <4> QED
        BY <4>2 DEF Authenticate, Logout, Fail, Goto, TypeOK
    <3>10. pc'[r] \in {"upload", "progress"} => Is(r, "KYC_SUBMIT")
      BY <1>2, Landing DEF KycSubmitRead, KycUpload, Goto, Flow
    <3>11. pc'[r] = "progress" => document'[body[r].user].content # None
      BY <1>2, <2>1, <2>3, Landing, ContentKept
    <3>12. Is(r, "WALLET_PRIMARY") => pc'[r] \in {"idle", "enter", "primary", "answered", "failed"}
      <4> SUFFICES ASSUME Is(r, "WALLET_PRIMARY")
          PROVE  pc'[r] \in {"idle", "enter", "primary", "answered", "failed"}
        OBVIOUS
      <4>1. pc[r] \in {"idle", "enter", "primary"}
        BY <1>2, Frame DEF Flow
      <4>2. Authenticate(r) \/ PrimaryRead(r) \/ SetPrimary(r) \/ Fail(r)
        BY <1>2, <4>1, Landing
      <4> QED
        BY <4>2 DEF Authenticate, PrimaryRead, SetPrimary, Fail, Goto, TypeOK
    <3> QED
      BY <2>3, <3>1, <3>2, <3>3, <3>4, <3>5, <3>6, <3>7, <3>8, <3>9, <3>10, <3>11, <3>12
  <2> QED
    BY <2>2, <2>3
<1> QED
  BY <1>1, <1>2, StepCases

LEMMA PrimaryStep ==
    ASSUME AccountsTypeOK, Flow, Next
    PROVE  \A u \in Users : primary'[u] \subseteq wallets'[u]
<1> SUFFICES ASSUME NEW u \in Users PROVE primary'[u] \subseteq wallets'[u]
  OBVIOUS
<1>0. /\ TypeOK /\ primary[u] \subseteq wallets[u]
      /\ primary \in [Users -> SUBSET Currencies] /\ wallets \in [Users -> SUBSET Currencies]
  BY DEF AccountsTypeOK, TypeOK
<1>1. CASE \E v \in Users : PinLockExpires(v)
  BY <1>0, <1>1 DEF PinLockExpires, funds
<1>2. ASSUME NEW r \in Requests, Step(r) PROVE primary'[u] \subseteq wallets'[u]
  <2>1. wallets[u] \subseteq wallets'[u]
    BY <1>0, <1>2, WalletsKept
  <2>2. CASE EnsureCreate(r)
    BY <1>0, <2>2 DEF EnsureCreate
  <2>3. CASE SetPrimary(r)
    BY <1>0, <2>1, <2>3 DEF SetPrimary, Flow, Goto
  <2> QED
    BY <1>0, <1>2, <2>1, <2>2, <2>3, WhoWrites
<1> QED
  BY <1>1, <1>2, StepCases

\* Tokens that were given stay given, and stay tokens of their session.
LEMMA GivenKept ==
    ASSUME TypeOK, NEW r \in Requests, Step(r), NEW t, Given(t)
    PROVE  Given(t)' /\ SessionOf(t)' = SessionOf(t) /\ t # r
<1>1. t # r
  BY Frame DEF Given, AccountsAssumption
<1>2. body' = body /\ \A q \in Requests \ {r} : pc'[q] = pc[q] /\ row'[q] = row[q]
  BY Frame
<1> QED
  BY <1>1, <1>2 DEF Given, SessionOf, Is

\* What a step may do to a session.
LEMMA SessionCases ==
    ASSUME TypeOK, SessionsOK, NEW r \in Requests, Step(r), NEW s \in Tokens
    PROVE  \/ sessions'[s] = sessions[s]
           \/ /\ LoginSession(r) /\ s = r
              /\ sessions'[s].status = "ACTIVE"
              /\ sessions'[s].user = body[r].user /\ sessions'[s].token = r
           \/ /\ RefreshRotate(r) /\ s = row[r] /\ sessions[s].status # "NONE"
              /\ sessions'[s].status = sessions[s].status
              /\ sessions'[s].user = sessions[s].user /\ sessions'[s].token = r
           \/ /\ sessions[s].status # "NONE" /\ sessions'[s].status = "REVOKED"
              /\ sessions'[s].user = sessions[s].user /\ sessions'[s].token = sessions[s].token
           \/ sessions'[s] = NoSession
<1>0. /\ sessions \in [Tokens -> SessionType] /\ sessions[s] \in SessionType
      /\ body[r].user \in Users /\ None \notin Users
  BY BodyFields DEF TypeOK, BodyType
<1>1. CASE LoginSession(r)
  BY <1>0, <1>1 DEF LoginSession
<1>2. CASE RefreshRotate(r)
  <2>1. CASE s = row[r]
    <3>1. sessions'[s] = [sessions[s] EXCEPT !.token = r]
      BY <1>0, <1>2, <2>1 DEF RefreshRotate, Rotated
    <3> QED
      BY <1>0, <1>2, <2>1, <3>1 DEF RefreshRotate, SessionType
  <2>2. CASE s # row[r]
    BY <1>0, <1>2, <2>2 DEF RefreshRotate, Rotated
  <2> QED
    BY <2>1, <2>2
<1>3. CASE Logout(r) \/ RevokeSessions(r)
  <2>1. CASE sessions'[s] = [sessions[s] EXCEPT !.status = "REVOKED"] /\ sessions[s].user = body[r].user
    <3>1. sessions[s].status # "NONE"
      BY <1>0, <2>1 DEF SessionsOK
    <3> QED
      BY <1>0, <2>1, <3>1 DEF SessionType
  <2> QED
    BY <1>3, <2>1 DEF Logout, LoggedOut, RevokeSessions
<1>4. CASE RemoveDevice(r)
  BY <1>4 DEF RemoveDevice
<1> QED
  BY <1>1, <1>2, <1>3, <1>4, WhoWrites

\* Only the call that makes a token makes it live, and it has not been answered.
LEMMA LiveStep ==
    ASSUME TypeOK, SessionsOK, NEW r \in Requests, Step(r), NEW t, Given(t), ~ Live(t)
    PROVE  ~ Live(t)'
<1> SUFFICES ASSUME NEW s \in Tokens, sessions'[s].status = "ACTIVE", sessions'[s].token = t
             PROVE  FALSE
  BY DEF Live, Accepted
<1>1. t # r
  BY GivenKept
<1>2. sessions'[s] # NoSession
  BY DEF NoSession
<1>3. sessions'[s] = sessions[s]
  BY <1>1, <1>2, SessionCases
<1> QED
  BY <1>3 DEF Live, Accepted

LEMMA SessionsStep ==
    ASSUME TypeOK, Flow, SessionsOK, Next
    PROVE  SessionsOK'
<1>1. CASE \E u \in Users : PinLockExpires(u)
  BY <1>1 DEF PinLockExpires, SessionsOK, SessionOK, SessionOf, UserOf, Given, Is, logins
<1>2. ASSUME NEW r \in Requests, Step(r) PROVE SessionsOK'
  <2> SUFFICES ASSUME NEW s \in Tokens
      PROVE  \/ sessions'[s].status = "NONE" /\ sessions'[s].user = None
             \/ sessions'[s].status # "NONE" /\ SessionOK(s)'
    BY DEF SessionsOK
  <2>1. body' = body /\ UserOf(s)' = UserOf(s)
    BY <1>2, Frame DEF UserOf
  <2>2. r \in Tokens /\ r \notin Registered
    BY DEF Tokens, AccountsAssumption
  <2>3. CASE sessions'[s] = sessions[s]
    <3>1. CASE sessions[s].status # "NONE"
      BY <1>2, <2>1, <2>3, <3>1, GivenKept DEF SessionsOK, SessionOK, Is
    <3> QED
      BY <2>3, <3>1 DEF SessionsOK
  <2>4. CASE /\ LoginSession(r) /\ s = r
             /\ sessions'[s].status = "ACTIVE"
             /\ sessions'[s].user = body[r].user /\ sessions'[s].token = r
    <3>1. Is(r, "LOGIN") /\ pc'[r] = "answered"
      BY <2>4 DEF LoginSession, Goto, Flow, TypeOK
    <3> QED
      BY <2>1, <2>2, <2>4, <3>1 DEF SessionOK, SessionOf, UserOf, Given, Is
  <2>5. CASE /\ RefreshRotate(r) /\ s = row[r] /\ sessions[s].status # "NONE"
             /\ sessions'[s].status = sessions[s].status
             /\ sessions'[s].user = sessions[s].user /\ sessions'[s].token = r
    <3>1. Is(r, "REFRESH") /\ pc'[r] = "answered" /\ row' = row
      BY <2>5 DEF RefreshRotate, Goto, Flow, TypeOK
    <3>2. SessionOf(r)' = s /\ Given(r)'
      BY <2>1, <2>5, <3>1 DEF SessionOf, Given, Is
    <3>3. SessionOK(s)
      BY <2>5 DEF SessionsOK
    <3>4. Given(s)'
      BY <1>2, <3>3, GivenKept DEF SessionOK
    <3> QED
      BY <2>1, <2>2, <2>5, <3>2, <3>3, <3>4 DEF SessionOK, Is
  <2>6. CASE /\ sessions[s].status # "NONE" /\ sessions'[s].status = "REVOKED"
             /\ sessions'[s].user = sessions[s].user /\ sessions'[s].token = sessions[s].token
    <3>1. SessionOK(s)
      BY <2>6 DEF SessionsOK
    <3> QED
      BY <1>2, <2>1, <2>6, <3>1, GivenKept DEF SessionOK, Is
  <2>7. CASE sessions'[s] = NoSession
    BY <2>7 DEF NoSession
  <2> QED
    BY <1>2, <2>3, <2>4, <2>5, <2>6, <2>7, SessionCases
<1> QED
  BY <1>1, <1>2, StepCases

LEMMA BearersStep ==
    ASSUME TypeOK, Flow, SessionsOK, BearersOK, Next
    PROVE  BearersOK'
<1>1. CASE \E u \in Users : PinLockExpires(u)
  BY <1>1 DEF PinLockExpires, BearersOK, Live, Accepted, SessionOf, UserOf, Given, Is, logins
<1>2. ASSUME NEW r \in Requests, Step(r) PROVE BearersOK'
  <2>0. body' = body /\ \A q \in Requests \ {r} : pc'[q] = pc[q]
    BY <1>2, Frame
  <2>1. ASSUME NEW q \in Requests, pc'[q] = "enter", body[q].kind \in CustomerKinds
        PROVE  /\ body[q].token \in Tokens /\ Given(body[q].token)'
               /\ UserOf(SessionOf(body[q].token))' = body[q].user
    <3>1. /\ body[q].token \in Tokens /\ Given(body[q].token)
          /\ UserOf(SessionOf(body[q].token)) = body[q].user
      <4>1. CASE q # r
        BY <2>0, <2>1, <4>1 DEF BearersOK
      <4>2. CASE q = r
        <5>1. Authenticate(r)
          BY <1>2, <2>1, <4>2, Landing DEF LoginStart, Is, CustomerKinds, MfaKinds, PinKinds
        <5>2. PICK s \in Tokens : Accepted(s, body[r].token) /\ sessions[s].user = body[r].user
          BY <5>1 DEF Authenticate
        <5>3. SessionOK(s)
          BY <5>2 DEF SessionsOK, Accepted
        <5> QED
          BY <4>2, <5>2, <5>3 DEF SessionOK, Accepted
      <4> QED
        BY <4>1, <4>2
    <3>2. PICK t : t = body[q].token /\ t = body'[q].token
      BY <2>0
    <3>3. Given(t)' /\ SessionOf(t)' = SessionOf(t)
      BY <1>2, <3>1, <3>2, GivenKept
    <3> QED
      BY <2>0, <3>1, <3>2, <3>3 DEF UserOf
  <2>2. ASSUME NEW q \in Requests, Is(q, "LOGOUT"), pc'[q] = "answered"
        PROVE  /\ body[q].token \in Tokens /\ Given(body[q].token)'
               /\ ~ Live(body[q].token)'
    <3>0. PICK t : t = body[q].token /\ t = body'[q].token
      BY <2>0
    <3>1. CASE pc[q] = "answered"
      <4>1. t \in Tokens /\ Given(t) /\ ~ Live(t)
        BY <2>2, <3>0, <3>1 DEF BearersOK
      <4>2. Given(t)' /\ ~ Live(t)'
        BY <1>2, <4>1, GivenKept, LiveStep
      <4> QED
        BY <3>0, <4>1, <4>2
    <3>2. CASE pc[q] # "answered"
      <4>1. q = r /\ pc[r] \in {"idle", "enter"}
        BY <1>2, <2>0, <2>2, <3>2, Frame DEF Flow
      <4>2. Logout(r)
        <5>1. Authenticate(r) \/ Logout(r) \/ Fail(r)
          BY <1>2, <2>2, <4>1, Landing
        <5>2. ~ Authenticate(r) /\ ~ Fail(r)
          BY <2>2, <4>1 DEF Authenticate, Fail, Goto, TypeOK
        <5> QED
          BY <5>1, <5>2
      <4>3. /\ body[r].token \in Tokens /\ Given(body[r].token)
            /\ UserOf(SessionOf(body[r].token)) = body[r].user
        BY <4>2 DEF Logout, Is, Goto, BearersOK, CustomerKinds
      <4>4. ASSUME NEW s \in Tokens, sessions'[s].status = "ACTIVE", sessions'[s].token = body[r].token
            PROVE  FALSE
        <5>1. sessions[s].status = "ACTIVE" /\ sessions[s].token = body[r].token
          BY <1>2, <4>2, <4>3, <4>4, SessionCases, GivenKept
             DEF Logout, LoginSession, RefreshRotate, Goto, NoSession
        <5>2. SessionOK(s)
          BY <5>1 DEF SessionsOK
        <5>3. sessions[s].user = body[r].user
          BY <4>3, <5>1, <5>2 DEF SessionOK
        <5>4. sessions'[s] = [sessions[s] EXCEPT !.status = "REVOKED"] /\ sessions[s] \in SessionType
          BY <4>2, <5>1, <5>3 DEF Logout, LoggedOut, TypeOK
        <5> QED
          BY <4>4, <5>4 DEF SessionType
      <4>5. Given(t)' /\ ~ Live(t)'
        BY <1>2, <3>0, <4>1, <4>3, <4>4, GivenKept DEF Live, Accepted
      <4> QED
        BY <3>0, <4>1, <4>3, <4>5
    <3> QED
      BY <3>1, <3>2
  <2> QED
    BY <2>0, <2>1, <2>2 DEF BearersOK, Is
<1> QED
  BY <1>1, <1>2, StepCases

\* What was tried stays tried.
LEMMA TriedKept ==
    ASSUME TypeOK, Flow, NEW r \in Requests, Step(r), NEW u \in Users, TriedByMail(u)
    PROVE  TriedByMail(u)'
<1>1. PICK i \in mailed : codes[i].user = u /\ codes[i].purpose = "EMAIL_VERIFY" /\ codes[i].attempts > 0
  BY DEF TriedByMail
<1>2. i \in DOMAIN codes /\ codes[i].attempts \in Nat
  <2>1. codes \in [1..Len(codes) -> CodeType] /\ mailed \subseteq DOMAIN codes
    BY DEF TypeOK
  <2> QED
    BY <2>1 DEF CodeType
<1>3. i \in mailed' /\ codes'[i].user = u /\ codes'[i].purpose = "EMAIL_VERIFY"
      /\ codes'[i].attempts >= codes[i].attempts /\ i \in DOMAIN codes'
  BY <1>1, <1>2, CodesKept
<1>4. codes'[i].attempts \in Nat
  <2>1. TypeOK'
    BY AuthMoveType, CodesType, PeopleType, SessionsType, MfaType, KycType, WalletAccessType
       DEF Step
  <2>2. codes' \in [1..Len(codes') -> CodeType]
    BY <2>1 DEF TypeOK
  <2> QED
    BY <1>3, <2>2 DEF CodeType
<1> QED
  BY <1>1, <1>2, <1>3, <1>4 DEF TriedByMail

LEMMA CodesStep ==
    ASSUME TypeOK, Flow, CodesOK, Next
    PROVE  CodesOK'
<1>0. mailed \subseteq DOMAIN codes /\ seen \in [Requests -> Nat] /\ pc \in [Requests -> Labels]
  BY DEF TypeOK
<1>1. CASE \E u \in Users : PinLockExpires(u)
  BY <1>1 DEF PinLockExpires, CodesOK, TriedByMail, OfCall, Purpose, otp
<1>2. ASSUME NEW r \in Requests, Step(r) PROVE CodesOK'
  <2>0. body' = body /\ \A q \in Requests \ {r} : pc'[q] = pc[q] /\ seen'[q] = seen[q]
    BY <1>2, Frame
  <2>1. ASSUME NEW q \in Requests, pc'[q] = "find"
        PROVE  seen'[q] = 0 \/ (seen'[q] \in mailed' /\ codes'[seen'[q]].user = body[q].user)
    <3>1. CASE q # r
      <4>1. seen[q] = 0 \/ (seen[q] \in mailed /\ codes[seen[q]].user = body[q].user)
        BY <2>0, <2>1, <3>1 DEF CodesOK
      <4>2. seen'[q] = seen[q] /\ mailed \subseteq mailed'
        BY <1>2, <2>0, <3>1, CodesKept
      <4>3. \A i \in mailed : codes'[i].user = codes[i].user
        BY <1>0, <1>2, CodesKept
      <4> QED
        BY <4>1, <4>2, <4>3
    <3>2. CASE q = r
      <4>1. VerifyRead(r) \/ ResetRead(r)
        BY <1>2, <2>1, <3>2, Landing
      <4>2. PICK i \in {0} \cup DOMAIN codes : Typed(r, i) /\ seen' = [seen EXCEPT ![r] = i]
        BY <4>1 DEF VerifyRead, ResetRead
      <4>3. UNCHANGED <<codes, mailed>>
        BY <4>1 DEF VerifyRead, ResetRead, otp
      <4>4. seen'[q] = i
        BY <1>0, <3>2, <4>2
      <4>5. i = 0 \/ (i \in mailed /\ codes[i].user = body[r].user)
        BY <4>2 DEF Typed
      <4> QED
        BY <3>2, <4>3, <4>4, <4>5
    <3> QED
      BY <3>1, <3>2
  <2>2. ASSUME NEW q \in Requests, pc'[q] = "mark"
        PROVE  /\ seen'[q] \in mailed'
               /\ codes'[seen'[q]].user = body[q].user
               /\ codes'[seen'[q]].purpose = Purpose(q)
    <3>1. CASE q # r
      BY <1>0, <1>2, <2>0, <2>2, <3>1, CodesKept DEF CodesOK, OfCall
    <3>2. CASE q = r
      <4>1. FindCode(r)
        BY <1>2, <2>2, <3>2, Landing
      <4>2. /\ Newest(r) \in DOMAIN codes /\ OfCall(r, codes[Newest(r)])
            /\ seen' = [seen EXCEPT ![r] = Newest(r)]
            /\ UNCHANGED <<codes, mailed>>
        BY <4>1, NewestIsUnused DEF FindCode, otp
      <4>3. pc[r] = "find" /\ seen[r] = Newest(r)
        BY <1>0, <2>2, <3>2, <4>1 DEF FindCode, Goto
      <4>4. seen[r] \in mailed
        <5>1. DOMAIN codes = 1..Len(codes)
          BY DEF TypeOK
        <5> QED
          BY <4>2, <4>3, <5>1 DEF CodesOK
      <4> QED
        BY <1>0, <3>2, <4>2, <4>3, <4>4 DEF OfCall
    <3> QED
      BY <3>1, <3>2
  <2>3. ASSUME NEW q \in Requests, pc'[q] = "activate"
        PROVE  TriedByMail(body[q].user)'
    <3>0. PICK u \in Users : u = body[q].user /\ u = body'[q].user
      BY <2>0, BodyFields DEF BodyType
    <3>1. CASE q # r
      BY <1>2, <2>0, <2>3, <3>0, <3>1, TriedKept DEF CodesOK
    <3>2. CASE q = r
      <4>1. ConsumeCode(r)
        BY <1>2, <2>3, <3>2, Landing
      <4>2. Is(r, "VERIFY_EMAIL") /\ pc[r] = "mark"
        BY <1>0, <2>3, <3>2, <4>1 DEF ConsumeCode, Goto
      <4>3. seen[r] \in mailed /\ codes[seen[r]].user = u /\ codes[seen[r]].purpose = "EMAIL_VERIFY"
        BY <3>0, <3>2, <4>2 DEF CodesOK, OfCall, Purpose, Is
      <4>4. /\ mailed' = mailed /\ codes'[seen[r]].user = u
            /\ codes'[seen[r]].purpose = "EMAIL_VERIFY" /\ codes'[seen[r]].attempts > 0
        BY <1>0, <4>1, <4>3, AfterTryType DEF ConsumeCode
      <4>5. TriedByMail(u)'
        BY <4>3, <4>4 DEF TriedByMail
      <4> QED
        BY <3>0, <4>5
    <3> QED
      BY <3>1, <3>2
  <2> QED
    BY <2>0, <2>1, <2>2, <2>3 DEF CodesOK, OfCall, Purpose
<1> QED
  BY <1>1, <1>2, StepCases

LEMMA ActivationStep ==
    ASSUME TypeOK, Flow, CodesOK, ActivatedByMail, Next
    PROVE  ActivatedByMail'
<1> SUFFICES ASSUME NEW u \in Users \ Registered, status'[u] = "ACTIVE"
    PROVE  TriedByMail(u)'
  BY DEF ActivatedByMail, TriedByMail
<1>1. CASE \E v \in Users : PinLockExpires(v)
  BY <1>1 DEF PinLockExpires, ActivatedByMail, TriedByMail, people, otp
<1>2. ASSUME NEW r \in Requests, Step(r) PROVE TriedByMail(u)'
  <2>0. status \in [Users -> {"NONE", "PENDING", "ACTIVE"}] /\ u \in Users
    BY DEF TypeOK
  <2>1. CASE status[u] = "ACTIVE"
    BY <1>2, <2>0, <2>1, TriedKept DEF ActivatedByMail, TriedByMail
  <2>2. CASE status[u] # "ACTIVE"
    <3>1. Activate(r) /\ body[r].user = u
      BY <1>2, <2>0, <2>2, WhoWrites DEF RegisterInsert, Activate
    <3>2. TriedByMail(u)
      BY <3>1 DEF CodesOK, Activate, Goto
    <3> QED
      BY <1>2, <2>0, <3>2, TriedKept
  <2> QED
    BY <2>1, <2>2
<1> QED
  BY <1>1, <1>2, StepCases

LEMMA TierStep ==
    ASSUME TypeOK, Flow, TierKnown, TierEarned, Next
    PROVE  TierKnown' /\ TierEarned'
<1>0. /\ tier \in [Users -> 0..2] /\ wallets \in [Users -> SUBSET Currencies]
      /\ \A q \in Requests : body[q].user \in Users
  BY BodyFields DEF TypeOK, BodyType
<1>1. CASE \E v \in Users : PinLockExpires(v)
  BY <1>1 DEF PinLockExpires, TierKnown, TierEarned, people, funds
<1>2. ASSUME NEW r \in Requests, Step(r) PROVE TierKnown' /\ TierEarned'
  <2>0. body' = body /\ \A q \in Requests \ {r} : pc'[q] = pc[q]
    BY <1>2, Frame
  <2>1. ASSUME NEW q \in Requests, pc'[q] = "create", body[q].currency \notin Allowed[1]
        PROVE  document'[body[q].user].verified
    <3>1. document[body[q].user].verified
      <4>1. CASE q # r
        BY <2>0, <2>1, <4>1 DEF TierKnown
      <4>2. CASE q = r
        <5>1. CreateRead(r)
          BY <1>2, <2>1, <4>2, Landing
        <5>2. body[r].currency \in Allowed[tier[body[r].user]]
          BY <5>1 DEF CreateRead, TierAllows
        <5>3. tier[body[r].user] = 2
          BY <1>0, <2>1, <4>2, <5>2
        <5> QED
          BY <1>0, <4>2, <5>3 DEF TierEarned
      <4> QED
        BY <4>1, <4>2
    <3> QED
      BY <1>0, <1>2, <3>1, VerifiedKept
  <2>2. ASSUME NEW u \in Users, tier'[u] = 2 \/ (wallets'[u] \ Allowed[1]) # {}
        PROVE  document'[u].verified
    <3>1. CASE document[u].verified
      BY <1>2, <3>1, VerifiedKept
    <3>2. CASE ~ document[u].verified
      <4>1. tier[u] # 2 /\ wallets[u] \subseteq Allowed[1]
        BY <3>2 DEF TierEarned
      <4>2. CASE tier'[u] = 2
        <5>1. Approve(r) /\ body[r].user = u
          BY <1>0, <1>2, <4>1, <4>2, WhoWrites DEF Approve, Activate
        <5>2. document' = [document EXCEPT ![u] = [document[u] EXCEPT !.verified = TRUE]]
              /\ document \in [Users -> DocumentType]
          BY <5>1 DEF Approve, TypeOK
        <5>3. document'[u] = [document[u] EXCEPT !.verified = TRUE] /\ document[u] \in DocumentType
          BY <5>2
        <5> QED
          BY <5>3, DocumentUpdate
      <4>3. CASE (wallets'[u] \ Allowed[1]) # {}
        <5>1. PICK c \in wallets'[u] : c \notin Allowed[1] /\ c \notin wallets[u]
          BY <4>1, <4>3
        <5>2. OpeningWallet \in Allowed[1]
          BY DEF AccountsAssumption
        <5>3. u = body[r].user /\ CreateWallet(r) /\ c = body[r].currency
          BY <1>2, <5>1, <5>2, WalletsKept
        <5>4. document[u].verified
          BY <5>1, <5>3 DEF CreateWallet, Goto, TierKnown
        <5> QED
          BY <3>2, <5>4
      <4> QED
        BY <2>2, <4>2, <4>3
    <3> QED
      BY <3>1, <3>2
  <2> QED
    BY <2>0, <2>1, <2>2 DEF TierKnown, TierEarned
<1> QED
  BY <1>1, <1>2, StepCases

\* Nothing takes the last primary wallet away.
LEMMA PrimaryKept ==
    ASSUME TypeOK, NEW r \in Requests, Step(r), NEW u \in Users, primary'[u] = {}
    PROVE  primary[u] = {} /\ ~ (EnsureCreate(r) /\ body[r].user = u)
<1>1. primary \in [Users -> SUBSET Currencies]
  BY DEF TypeOK
<1>2. CASE EnsureCreate(r)
  <2>1. primary' = [primary EXCEPT ![body[r].user] = primary[body[r].user] \cup {OpeningWallet}]
    BY <1>2 DEF EnsureCreate
  <2> QED
    BY <1>1, <2>1
<1>3. CASE SetPrimary(r)
  <2>1. ~ EnsureCreate(r)
    BY <1>3 DEF SetPrimary, EnsureCreate, Goto
  <2> QED
    BY <1>1, <1>3, <2>1 DEF SetPrimary
<1>4. CASE UNCHANGED primary /\ ~ EnsureCreate(r)
  BY <1>4
<1> QED
  BY <1>2, <1>3, <1>4, WhoWrites

LEMMA SecondaryStep ==
    ASSUME TypeOK, Flow, SecondaryMade, Next
    PROVE  SecondaryMade'
<1>1. CASE \E v \in Users : PinLockExpires(v)
  BY <1>1 DEF PinLockExpires, SecondaryMade, Is, funds
<1>2. ASSUME NEW r \in Requests, Step(r) PROVE SecondaryMade'
  <2>0. body' = body /\ pc[r] # "answered" /\ \A q \in Requests \ {r} : pc'[q] = pc[q]
    BY <1>2, Frame
  <2> SUFFICES ASSUME NEW u \in Users, wallets'[u] # {}, primary'[u] = {}
      PROVE  \E q \in Requests : body[q].user = u /\ Is(q, "WALLET_CREATE") /\ pc'[q] = "answered"
    BY <2>0 DEF SecondaryMade, Is
  <2>1. primary[u] = {} /\ ~ (EnsureCreate(r) /\ body[r].user = u)
    BY <1>2, PrimaryKept
  <2>2. CASE wallets[u] # {}
    <3>1. PICK q \in Requests : body[q].user = u /\ Is(q, "WALLET_CREATE") /\ pc[q] = "answered"
      BY <2>1, <2>2 DEF SecondaryMade
    <3> QED
      BY <2>0, <3>1
  <2>3. CASE wallets[u] = {}
    <3>1. PICK c : c \in wallets'[u] \ wallets[u]
      BY <2>3
    <3>2. CreateWallet(r) /\ body[r].user = u
      BY <1>2, <2>1, <3>1, WalletsKept
    <3>3. Is(r, "WALLET_CREATE") /\ pc'[r] = "answered"
      BY <3>2 DEF CreateWallet, Goto, Flow, TypeOK
    <3> QED
      BY <3>2, <3>3
  <2> QED
    BY <2>2, <2>3
<1> QED
  BY <1>1, <1>2, StepCases

\* Choosing a primary wallet leaves one.
LEMMA ChosenLeft ==
    ASSUME TypeOK, Flow, NEW r \in Requests, Step(r), Is(r, "WALLET_PRIMARY"), pc'[r] = "answered"
    PROVE  primary'[body[r].user] # {}
<1>0. body[r].user \in Users /\ primary \in [Users -> SUBSET Currencies]
  BY BodyFields DEF TypeOK, BodyType
<1>1. CASE PrimaryRead(r)
  <2>1. body[r].currency \in primary[body[r].user]
    BY <1>1 DEF PrimaryRead, Goto, TypeOK
  <2> QED
    BY <1>1, <2>1 DEF PrimaryRead, funds
<1>2. CASE SetPrimary(r)
  BY <1>0, <1>2 DEF SetPrimary
<1>3. pc[r] \in {"idle", "enter", "primary"}
  BY Frame DEF Flow
<1>4. ~ Authenticate(r) /\ ~ Fail(r)
  BY DEF Authenticate, Fail, Goto, TypeOK
<1> QED
  BY <1>1, <1>2, <1>3, <1>4, Landing

\* The verification that has looked has found the wallets made before, if any
\* is there and none is primary.
LEMMA LookedFor ==
    ASSUME TypeOK, SecondaryMade, NEW r \in Requests, EnsureRead(r), pc'[r] = "answered",
           primary[body[r].user] = {}
    PROVE  before'[r] # {}
<1>1. wallets[body[r].user] # {} /\ body[r].user \in Users
  BY BodyFields DEF EnsureRead, Goto, TypeOK, BodyType
<1>2. PICK c \in Requests : body[c].user = body[r].user /\ Is(c, "WALLET_CREATE") /\ pc[c] = "answered"
  BY <1>1 DEF SecondaryMade
<1>3. c \in MadeBy(body[r].user)
  BY <1>2 DEF MadeBy, Is
<1>4. before'[r] = MadeBy(body[r].user)
  BY DEF EnsureRead, TypeOK
<1> QED
  BY <1>3, <1>4

LEMMA ActivationsStep ==
    ASSUME TypeOK, Flow, SecondaryMade, Activations, Next
    PROVE  Activations'
<1>0. /\ primary \in [Users -> SUBSET Currencies] /\ activated \subseteq Requests
      /\ status \in [Users -> {"NONE", "PENDING", "ACTIVE"}]
      /\ \A q \in Requests : body[q].user \in Users
      /\ Registered \subseteq Users
  BY BodyFields DEF TypeOK, BodyType, AccountsAssumption
<1>1. CASE \E v \in Users : PinLockExpires(v)
  BY <1>1 DEF PinLockExpires, Activations, ActivatedBy, Is, people, funds, ghosts, marks
<1>2. ASSUME NEW r \in Requests, Step(r) PROVE Activations'
  <2>0. /\ body' = body /\ pc[r] \notin {"answered", "failed"}
        /\ \A q \in Requests \ {r} : pc'[q] = pc[q]
    BY <1>2, Frame
  <2>1. /\ activated \subseteq activated'
        /\ \A q \in activated' : q \in activated \/ (q = r /\ Activate(r))
    <3>1. CASE Activate(r)
      <4>1. activated' = activated \cup {r}
        BY <3>1 DEF Activate
      <4> QED
        BY <3>1, <4>1
    <3>2. CASE activated' = activated
      BY <3>2
    <3> QED
      BY <1>2, <3>1, <3>2, WhoWrites
  <2>2. \A q \in Requests \ {r} : before'[q] = before[q]
    <3>1. CASE EnsureRead(r)
      <4>1. before' = [before EXCEPT ![r] = MadeBy(body[r].user)]
        BY <3>1 DEF EnsureRead
      <4>2. before \in [Requests -> SUBSET Requests]
        BY DEF TypeOK
      <4> QED
        BY <4>1, <4>2
    <3>2. CASE before' = before
      BY <3>2
    <3> QED
      BY <1>2, <3>1, <3>2, WhoWrites
  <2>3. \A u \in Users : primary'[u] = {} => primary[u] = {}
    BY <1>2, PrimaryKept
  <2>4. ASSUME NEW q \in Requests, pc'[q] \in {"wallet", "grant"} PROVE q \in activated'
    <3>1. CASE q # r
      BY <2>0, <2>1, <2>4, <3>1 DEF Activations
    <3>2. CASE q = r /\ Activate(r)
      BY <3>2 DEF Activate
    <3>3. CASE q = r /\ EnsureRead(r)
      BY <2>1, <3>3 DEF EnsureRead, Goto, Activations
    <3> QED
      BY <1>2, <2>4, <3>1, <3>2, <3>3, Landing
  <2>5. ASSUME NEW q \in activated'
        PROVE  /\ Is(q, "VERIFY_EMAIL")
               /\ pc'[q] \in {"wallet", "grant", "answered", "failed"}
               /\ pc'[q] = "answered" => primary'[body[q].user] # {} \/ before'[q] # {}
    <3>1. CASE q # r
      BY <1>0, <2>0, <2>1, <2>2, <2>3, <2>5, <3>1 DEF Activations
    <3>2. CASE q = r /\ Activate(r)
      BY <3>2 DEF Activate, Goto, Flow, TypeOK
    <3>3. CASE q = r /\ ~ Activate(r)
      <4>1. q \in activated /\ Is(q, "VERIFY_EMAIL") /\ pc[q] \in {"wallet", "grant"}
        BY <2>0, <2>1, <2>5, <3>3 DEF Activations
      <4>2. CASE Fail(r)
        BY <3>3, <4>1, <4>2 DEF Fail, TypeOK
      <4>3. CASE EnsureRead(r)
        <5>1. pc'[r] \in {"grant", "answered"}
          BY <4>3 DEF EnsureRead, Goto, TypeOK
        <5>2. pc'[r] = "answered" => primary[body[r].user] # {} \/ before'[r] # {}
          BY <4>3, LookedFor
        <5> QED
          BY <1>0, <2>3, <3>3, <4>1, <5>1, <5>2
      <4>4. CASE EnsureCreate(r)
        <5>1. pc'[r] = "answered"
          BY <4>4 DEF EnsureCreate, Goto, TypeOK
        <5>2. primary'[body[r].user] # {}
          BY <1>0, <1>2, <4>4, PrimaryKept
        <5> QED
          BY <3>3, <4>1, <5>1, <5>2
      <4> QED
        BY <1>2, <3>3, <4>1, <4>2, <4>3, <4>4, Landing
    <3> QED
      BY <3>1, <3>2, <3>3
  <2>6. ASSUME NEW u \in Users, status'[u] = "ACTIVE", u \notin Registered
        PROVE  \E q \in activated' : body[q].user = u
    <3>1. CASE status[u] = "ACTIVE"
      BY <2>1, <2>6, <3>1 DEF Activations, ActivatedBy
    <3>2. CASE status[u] # "ACTIVE"
      <4>1. Activate(r) /\ body[r].user = u
        BY <1>0, <1>2, <2>6, <3>2, WhoWrites DEF RegisterInsert, Activate
      <4> QED
        BY <4>1 DEF Activate
    <3> QED
      BY <3>1, <3>2
  <2>7. \A u \in Registered : primary'[u] # {}
    BY <1>0, <2>3 DEF Activations
  <2>8. ASSUME NEW q \in Requests, Is(q, "WALLET_PRIMARY"), pc'[q] = "answered"
        PROVE  primary'[body[q].user] # {}
    <3>1. CASE q # r
      BY <1>0, <2>0, <2>3, <2>8, <3>1 DEF Activations
    <3>2. CASE q = r
      BY <1>2, <2>8, <3>2, ChosenLeft
    <3> QED
      BY <3>1, <3>2
  <2> QED
    BY <2>0, <2>4, <2>5, <2>6, <2>7, <2>8 DEF Activations, ActivatedBy, Is
<1> QED
  BY <1>1, <1>2, StepCases

\* The recorded failures of a user are finitely many, never fewer, and one more
\* after a wrong PIN.
LEMMA MissesStep ==
    ASSUME TypeOK, CountersRead, NEW r \in Requests, Step(r), NEW u \in Users
    PROVE  /\ Cardinality(Misses(u)) \in Nat /\ Cardinality(Misses(u))' \in Nat
           /\ Cardinality(Misses(u)) <= Cardinality(Misses(u))'
           /\ MissPin(r) /\ body[r].user = u => Cardinality(Misses(u))' = Cardinality(Misses(u)) + 1
<1>0. body' = body /\ r \notin missed /\ missed \subseteq Requests /\ IsFiniteSet(Requests)
  BY Frame DEF TypeOK, CountersRead, AccountsAssumption
<1>1. IsFiniteSet(Misses(u)) /\ Cardinality(Misses(u)) \in Nat
  BY <1>0, FS_Subset, FS_CardinalityType DEF Misses
<1>2. CASE MissPin(r) /\ body[r].user = u
  <2>1. Misses(u)' = Misses(u) \cup {r} /\ r \notin Misses(u)
    BY <1>0, <1>2 DEF MissPin, Misses
  <2>2. Cardinality(Misses(u) \cup {r}) = Cardinality(Misses(u)) + 1
    BY <1>1, <2>1, FS_AddElement
  <2> QED
    BY <1>1, <2>1, <2>2
<1>3. CASE ~ (MissPin(r) /\ body[r].user = u)
  <2>1. Misses(u)' = Misses(u)
    BY <1>0, <1>3, WhoWrites DEF MissPin, Misses
  <2> QED
    BY <1>1, <1>3, <2>1
<1> QED
  BY <1>2, <1>3

LEMMA CountersStep ==
    ASSUME TypeOK, CountersRead, NoLockWithoutCause, Next
    PROVE  CountersRead' /\ NoLockWithoutCause'
<1>0. /\ pin \in [Users -> PinType] /\ seen \in [Requests -> Nat] /\ PinTries \in Nat
      /\ \A u \in Users : /\ pin[u].attempts \in Nat
                          /\ body \in [Requests -> Bodies]
      /\ \A q \in Requests : body[q].user \in Users
  BY BodyFields DEF TypeOK, PinType, BodyType, AccountsAssumption
<1>1. CASE \E v \in Users : PinLockExpires(v)
  <2>1. PICK v \in Users : PinLockExpires(v)
    BY <1>1
  <2>2. \A u \in Users : /\ pin'[u].attempts = pin[u].attempts
                         /\ pin'[u].locked => pin[u].locked
    BY <1>0, <2>1 DEF PinLockExpires
  <2>3. UNCHANGED <<body, pc, seen, missed>>
    BY <2>1 DEF PinLockExpires, ghosts, marks
  <2>4. \A u : Misses(u)' = Misses(u)
    BY <2>3 DEF Misses
  <2> QED
    BY <2>2, <2>3, <2>4 DEF CountersRead, NoLockWithoutCause
<1>2. ASSUME NEW r \in Requests, Step(r) PROVE CountersRead' /\ NoLockWithoutCause'
  <2>0. /\ body' = body /\ pc[r] \notin {"answered", "failed"}
        /\ \A q \in Requests \ {r} : pc'[q] = pc[q] /\ seen'[q] = seen[q]
    BY <1>2, Frame
  <2>1. ASSUME NEW q \in Requests, q \in missed' PROVE pc'[q] = "failed"
    <3>1. CASE q = r
      <4>1. MissPin(r)
        BY <1>2, <2>0, <2>1, <3>1, WhoWrites DEF CountersRead
      <4> QED
        BY <3>1, <4>1 DEF MissPin, Goto, TypeOK
    <3>2. CASE q # r
      BY <1>2, <2>0, <2>1, <3>2, WhoWrites DEF MissPin, CountersRead
    <3> QED
      BY <3>1, <3>2
  <2>2. ASSUME NEW q \in Requests, pc'[q] = "wrong"
        PROVE  seen'[q] <= Cardinality(Misses(body[q].user))'
    <3>0. PICK u \in Users : u = body[q].user
      BY <1>0
    <3>1. seen'[q] <= Cardinality(Misses(u))
      <4>1. CASE q = r
        <5>1. ReadPin(r)
          BY <1>2, <2>2, <4>1, Landing
        <5>2. seen'[r] = pin[u].attempts
          BY <1>0, <3>0, <4>1, <5>1 DEF ReadPin
        <5> QED
          BY <4>1, <5>2 DEF NoLockWithoutCause
      <4>2. CASE q # r
        BY <2>0, <2>2, <3>0, <4>2 DEF CountersRead
      <4> QED
        BY <4>1, <4>2
    <3>2. seen'[q] \in Nat
      <4>1. CASE q = r
        <5>1. ReadPin(r)
          BY <1>2, <2>2, <4>1, Landing
        <5> QED
          BY <1>0, <3>0, <4>1, <5>1 DEF ReadPin
      <4> QED
        BY <1>0, <2>0, <4>1
    <3>3. /\ Cardinality(Misses(u)) \in Nat /\ Cardinality(Misses(u))' \in Nat
          /\ Cardinality(Misses(u)) <= Cardinality(Misses(u))'
      BY <1>2, MissesStep
    <3>4. seen'[q] <= Cardinality(Misses(u))'
      BY <3>1, <3>2, <3>3
    <3> QED
      BY <2>0, <3>0, <3>4 DEF Misses
  <2>3. ASSUME NEW u \in Users
        PROVE  /\ pin'[u].attempts <= Cardinality(Misses(u))'
               /\ pin'[u].locked => Cardinality(Misses(u))' >= PinTries
    <3>1. /\ Cardinality(Misses(u)) \in Nat /\ Cardinality(Misses(u))' \in Nat
          /\ Cardinality(Misses(u)) <= Cardinality(Misses(u))'
          /\ MissPin(r) /\ body[r].user = u => Cardinality(Misses(u))' = Cardinality(Misses(u)) + 1
      BY <1>2, MissesStep
    <3>2. pin[u].attempts <= Cardinality(Misses(u)) /\ (pin[u].locked => Cardinality(Misses(u)) >= PinTries)
      BY DEF NoLockWithoutCause
    <3>3. CASE pin'[u] = pin[u]
      BY <1>0, <3>1, <3>2, <3>3
    <3>4. CASE MissPin(r) /\ body[r].user = u
      <4>1. pin'[u].attempts = Counted(r) /\ pin'[u].locked = LocksPin(r)
        BY <1>0, <3>4 DEF MissPin
      <4>2. seen[r] <= Cardinality(Misses(u)) /\ seen[r] \in Nat
        BY <1>0, <3>4 DEF CountersRead, MissPin, Goto
      <4>3. Counted(r) <= Cardinality(Misses(u)) + 1
        BY <1>0, <3>1, <3>2, <3>4, <4>2 DEF Counted
      <4>4. LocksPin(r) => Cardinality(Misses(u)) + 1 >= PinTries
        BY <1>0, <3>1, <4>2 DEF LocksPin
      <4> QED
        BY <3>1, <3>4, <4>1, <4>3, <4>4
    <3>5. CASE (SetPin(r) \/ ClearPin(r)) /\ body[r].user = u
      <4>1. pin'[u].attempts = 0 /\ pin'[u].locked = FALSE
        BY <1>0, <3>5 DEF SetPin, ClearPin
      <4> QED
        BY <3>1, <4>1
    <3>6. CASE (SetPin(r) \/ ClearPin(r) \/ MissPin(r)) /\ body[r].user # u
      <4>1. pin'[u] = pin[u]
        BY <1>0, <3>6 DEF SetPin, ClearPin, MissPin
      <4> QED
        BY <3>3, <4>1
    <3> QED
      BY <1>2, <3>3, <3>4, <3>5, <3>6, WhoWrites
  <2> QED
    BY <2>0, <2>1, <2>2, <2>3 DEF CountersRead, NoLockWithoutCause
<1> QED
  BY <1>1, <1>2, StepCases

\* A customer whose rows a call has crossed stays marked.
LEMMA CrossedKept ==
    ASSUME TypeOK, NEW r \in Requests, Step(r), NEW u \in Users
    PROVE  crossed[u] \subseteq crossed'[u]
<1>1. crossed \in [Users -> SUBSET {"mfa", "kyc"}]
  BY DEF TypeOK
<1>2. CASE \E changed : Overtaken(r, changed)
  BY <1>1, <1>2 DEF Overtaken
<1>3. CASE Restarted(body[r].user)
  BY <1>1, <1>3 DEF Restarted
<1>4. CASE UNCHANGED crossed
  BY <1>4
<1> QED
  BY <1>2, <1>3, <1>4, WhoWrites DEF MfaStore, MfaClear, KycUpload, KycProgress, Approve, Reject

LEMMA KycStep ==
    ASSUME TypeOK, Flow, KycSettled, Next
    PROVE  KycSettled'
<1>0. /\ document \in [Users -> DocumentType] /\ crossed \in [Users -> SUBSET {"mfa", "kyc"}]
      /\ kyc \in [Users -> {"NOT_STARTED", "IN_PROGRESS", "VERIFIED", "REJECTED"}]
  BY DEF TypeOK
<1>1. CASE \E v \in Users : PinLockExpires(v)
  BY <1>1 DEF PinLockExpires, KycSettled, Submitting, Undecided, Decided, Is, people, ghosts, marks
<1>2. ASSUME NEW r \in Requests, Step(r) PROVE KycSettled'
  <2>0. body' = body /\ pc[r] \notin {"answered", "failed"}
        /\ \A q \in Requests \ {r} : pc'[q] = pc[q]
    BY <1>2, Frame
  <2> SUFFICES ASSUME NEW u \in Users, "kyc" \notin crossed'[u], ~ Submitting(u)'
      PROVE  /\ kyc'[u] = "VERIFIED" <=> document'[u].verified
             /\ kyc'[u] = "REJECTED" <=> document'[u].rejected
             /\ kyc'[u] = "IN_PROGRESS" <=> Undecided(u)'
    BY DEF KycSettled
  <2>1. "kyc" \notin crossed[u] /\ document[u] \in DocumentType
    BY <1>0, <1>2, CrossedKept
  <2>2. ASSUME NEW changed, Overtaken(r, changed), body[r].user = u PROVE ~ changed
    BY <1>0, <2>2 DEF Overtaken
  <2>3. CASE KycUpload(r) /\ body[r].user = u
    <3>1. Is(r, "KYC_SUBMIT") /\ pc'[r] = "progress"
      BY <2>3 DEF KycUpload, Goto, Flow, TypeOK
    <3> QED
      BY <2>0, <2>3, <3>1 DEF Submitting, Is
  <2>4. CASE KycProgress(r) /\ body[r].user = u
    <3>1. ~ Decided(u)
      BY <2>2, <2>4 DEF KycProgress
    <3>2. document[u].content # None
      BY <2>4 DEF KycProgress, Goto, Flow
    <3>3. kyc'[u] = "IN_PROGRESS" /\ document' = document
      BY <1>0, <2>4 DEF KycProgress
    <3> QED
      BY <3>1, <3>2, <3>3 DEF Undecided, Decided
  <2>5. CASE Approve(r) /\ body[r].user = u
    <3>1. ~ document[u].verified /\ ~ document[u].rejected
      BY <2>2, <2>5 DEF Approve, Replaced, Decided
    <3>2. kyc'[u] = "VERIFIED" /\ document'[u] = [document[u] EXCEPT !.verified = TRUE]
      BY <1>0, <2>5 DEF Approve
    <3>3. document'[u].verified /\ document'[u].rejected = document[u].rejected
      BY <2>1, <3>2 DEF DocumentType
    <3> QED
      BY <3>1, <3>2, <3>3 DEF Undecided, Decided
  <2>6. CASE Reject(r) /\ body[r].user = u
    <3>1. ~ document[u].verified /\ ~ document[u].rejected
      BY <2>2, <2>6 DEF Reject, Replaced, Decided
    <3>2. kyc'[u] = "REJECTED" /\ document'[u] = [document[u] EXCEPT !.rejected = TRUE]
      BY <1>0, <2>6 DEF Reject
    <3>3. document'[u].rejected /\ document'[u].verified = document[u].verified
      BY <2>1, <3>2 DEF DocumentType
    <3> QED
      BY <3>1, <3>2, <3>3 DEF Undecided, Decided
  <2>7. CASE ~ (KycUpload(r) \/ KycProgress(r) \/ Approve(r) \/ Reject(r)) \/ body[r].user # u
    <3>1. kyc'[u] = kyc[u] /\ document'[u] = document[u]
      <4>1. kyc'[u] = kyc[u]
        BY <1>0, <1>2, <2>7, WhoWrites DEF KycProgress, Approve, Reject
      <4>2. document'[u] = document[u]
        BY <1>0, <1>2, <2>7, WhoWrites DEF KycUpload, Approve, Reject
      <4> QED
        BY <4>1, <4>2
    <3>2. ASSUME NEW q \in Requests, Is(q, "KYC_SUBMIT"), body[q].user = u, pc[q] \in {"progress", "failed"}
          PROVE  pc'[q] \in {"progress", "failed"}
      <4>1. CASE q # r
        BY <2>0, <3>2, <4>1
      <4>2. CASE q = r
        <5>1. pc[r] = "progress"
          BY <2>0, <3>2, <4>2
        <5>2. Fail(r)
          BY <1>2, <2>7, <3>2, <4>2, <5>1, Landing
        <5> QED
          BY <4>2, <5>2 DEF Fail, TypeOK
      <4> QED
        BY <4>1, <4>2
    <3>3. ~ Submitting(u)
      BY <2>0, <3>2 DEF Submitting, Is
    <3> QED
      BY <2>1, <3>1, <3>3 DEF KycSettled, Undecided, Decided
  <2> QED
    BY <2>3, <2>4, <2>5, <2>6, <2>7
<1> QED
  BY <1>1, <1>2, StepCases

\* A login that spends a code, and a clearing, leave the other codes whose they are.
LEMMA SpendKeeps ==
    ASSUME TypeOK, NEW r \in Requests, LoginSpend(r), NEW q \in Requests
    PROVE  backup'[q].of = backup[q].of
<1>1. backup \in [Requests -> BackupType] /\ backup[q] \in BackupType
  BY DEF TypeOK
<1>2. backup'[q] = backup[q] \/ backup'[q] = [backup[q] EXCEPT !.used = TRUE]
  BY <1>1 DEF LoginSpend
<1> QED
  BY <1>1, <1>2 DEF BackupType

LEMMA SecretsStep ==
    ASSUME TypeOK, Flow, SecretsOK, Next
    PROVE  SecretsOK'
<1>0. /\ secret \in [Users -> SecretType] /\ backup \in [Requests -> BackupType]
      /\ None \notin Requests
  BY DEF TypeOK, AccountsAssumption
<1>1. CASE \E v \in Users : PinLockExpires(v)
  BY <1>1 DEF PinLockExpires, SecretsOK, mfa
<1>2. ASSUME NEW r \in Requests, Step(r) PROVE SecretsOK'
  <2>0. body' = body /\ pc[r] # "answered" /\ \A q \in Requests \ {r} : pc'[q] = pc[q]
    BY <1>2, Frame
  <2>1. ASSUME NEW u \in Users
        PROVE  /\ secret'[u].id # None =>
                      secret'[u].id \in Requests /\ body[secret'[u].id].user = u
               /\ secret'[u].enabled => secret'[u].id # None
    <3>0. secret[u] \in SecretType
      BY <1>0
    <3>1. CASE secret'[u] = secret[u]
      BY <3>1 DEF SecretsOK
    <3>2. CASE MfaStore(r) /\ body[r].user = u
      <4>1. secret'[u] = [id |-> IF secret[u].id = None THEN r ELSE secret[u].id,
                          key |-> r, enabled |-> FALSE]
        BY <1>0, <3>2 DEF MfaStore
      <4> QED
        BY <3>2, <4>1 DEF SecretsOK
    <3>3. CASE MfaConfirmCommit(r) /\ body[r].user = u
      <4>1. secret'[u] = [secret[u] EXCEPT !.enabled = TRUE] /\ secret[u].id = row[r]
        BY <1>0, <3>3 DEF MfaConfirmCommit
      <4>2. row[r] \in Requests
        BY <3>3 DEF MfaConfirmCommit, Goto, Flow
      <4>3. secret'[u].id = secret[u].id
        BY <3>0, <4>1 DEF SecretType
      <4> QED
        BY <1>0, <4>1, <4>2, <4>3 DEF SecretsOK
    <3>4. CASE MfaDisableCommit(r) /\ body[r].user = u
      BY <1>0, <3>4 DEF MfaDisableCommit, NoSecret
    <3>5. CASE body[r].user # u
      <4>1. secret'[u] = secret[u]
        BY <1>0, <1>2, <3>5, WhoWrites DEF MfaStore, MfaConfirmCommit, MfaDisableCommit
      <4> QED
        BY <3>1, <4>1
    <3> QED
      BY <1>2, <3>1, <3>2, <3>3, <3>4, <3>5, WhoWrites
  <2>2. ASSUME NEW q \in Requests, backup'[q].of # None PROVE pc'[q] = "answered"
    <3>1. CASE backup[q].of # None
      BY <2>0, <3>1 DEF SecretsOK
    <3>2. CASE backup[q].of = None
      <4>1. MfaConfirmCommit(r) /\ q = r
        <5>1. CASE MfaClear(r) \/ MfaDisableCommit(r)
          BY <1>0, <2>2, <3>2, <5>1 DEF MfaClear, MfaDisableCommit, WithoutCodes, NoBackup
        <5>2. CASE LoginSpend(r)
          BY <2>2, <3>2, <5>2, SpendKeeps
        <5>3. CASE MfaConfirmCommit(r)
          BY <1>0, <2>2, <3>2, <5>3 DEF MfaConfirmCommit
        <5> QED
          BY <1>2, <2>2, <3>2, <5>1, <5>2, <5>3, WhoWrites
      <4> QED
        BY <4>1 DEF MfaConfirmCommit, Goto, TypeOK
    <3> QED
      BY <3>1, <3>2
  <2> QED
    BY <2>0, <2>1, <2>2 DEF SecretsOK
<1> QED
  BY <1>1, <1>2, StepCases

\* The codes of a user whose factor is on are not another one's to take away.
LEMMA CodesOfOthers ==
    ASSUME TypeOK, SecretsOK, NEW r \in Requests, Step(r),
           NEW u \in Users, secret[u].id # None, body[r].user # u,
           NEW q \in Requests, backup[q].of = secret[u].id
    PROVE  backup'[q].of = secret[u].id
<1>0. /\ backup \in [Requests -> BackupType] /\ body[r].user \in Users
      /\ secret[u].id \in Requests /\ body[secret[u].id].user = u
  BY BodyFields DEF TypeOK, BodyType, SecretsOK
<1>1. secret[body[r].user].id # secret[u].id
  BY <1>0 DEF SecretsOK
<1>2. q # r
  BY Frame DEF SecretsOK
<1>3. CASE MfaClear(r)
  BY <1>0, <1>1, <1>3 DEF MfaClear, WithoutCodes
<1>4. CASE MfaDisableCommit(r)
  BY <1>0, <1>1, <1>4 DEF MfaDisableCommit, WithoutCodes
<1>5. CASE MfaConfirmCommit(r)
  BY <1>0, <1>2, <1>5 DEF MfaConfirmCommit
<1>6. CASE LoginSpend(r)
  BY <1>6, SpendKeeps
<1> QED
  BY <1>3, <1>4, <1>5, <1>6, WhoWrites

LEMMA MfaStep ==
    ASSUME TypeOK, Flow, SecretsOK, MfaAgrees, Next
    PROVE  MfaAgrees'
<1>0. /\ secret \in [Users -> SecretType] /\ backup \in [Requests -> BackupType]
      /\ crossed \in [Users -> SUBSET {"mfa", "kyc"}]
  BY DEF TypeOK
<1>1. CASE \E v \in Users : PinLockExpires(v)
  BY <1>1 DEF PinLockExpires, MfaAgrees, mfa, ghosts, marks
<1>2. ASSUME NEW r \in Requests, Step(r) PROVE MfaAgrees'
  <2> SUFFICES ASSUME NEW u \in Users, "mfa" \notin crossed'[u]
      PROVE  /\ u \in mfaOn' <=> secret'[u].enabled
             /\ u \in mfaOn' => \E q \in Requests : backup'[q].of = secret'[u].id
    BY DEF MfaAgrees
  <2>1. "mfa" \notin crossed[u] /\ secret[u] \in SecretType
    BY <1>0, <1>2, CrossedKept
  <2>2. /\ u \in mfaOn <=> secret[u].enabled
        /\ u \in mfaOn => \E q \in Requests : backup[q].of = secret[u].id
    BY <2>1 DEF MfaAgrees
  <2>3. CASE body[r].user = u /\ (MfaStore(r) \/ MfaClear(r))
    <3>1. u \notin mfaOn /\ mfaOn' = mfaOn
      BY <1>0, <2>3 DEF MfaStore, MfaClear, Restarted
    <3>2. CASE MfaStore(r)
      <4>1. secret'[u].enabled = FALSE
        BY <1>0, <2>3, <3>2 DEF MfaStore
      <4> QED
        BY <3>1, <4>1
    <3>3. CASE MfaClear(r)
      BY <2>2, <3>1, <3>3 DEF MfaClear
    <3> QED
      BY <2>3, <3>2, <3>3
  <2>4. CASE body[r].user = u /\ MfaConfirmCommit(r)
    <3>1. secret'[u] = [secret[u] EXCEPT !.enabled = TRUE] /\ secret[u].id = row[r] /\ u \in mfaOn'
      BY <1>0, <2>4 DEF MfaConfirmCommit
    <3>2. secret'[u].enabled /\ secret'[u].id = row[r]
      BY <2>1, <3>1 DEF SecretType
    <3>3. backup'[r].of = row[r]
      BY <1>0, <2>4 DEF MfaConfirmCommit
    <3> QED
      BY <3>1, <3>2, <3>3
  <2>5. CASE body[r].user = u /\ MfaDisableCommit(r)
    <3>1. u \notin mfaOn' /\ secret'[u] = NoSecret
      BY <1>0, <2>5 DEF MfaDisableCommit
    <3> QED
      BY <3>1 DEF NoSecret
  <2>6. CASE body[r].user = u /\ ~ (MfaStore(r) \/ MfaClear(r) \/ MfaConfirmCommit(r) \/ MfaDisableCommit(r))
    <3>1. mfaOn' = mfaOn /\ secret' = secret
      BY <1>2, <2>6, WhoWrites
    <3>2. \A q \in Requests : backup'[q].of = backup[q].of
      BY <1>2, <2>6, WhoWrites, SpendKeeps
    <3> QED
      BY <2>2, <3>1, <3>2
  <2>7. CASE body[r].user # u
    <3>0. /\ MfaStore(r) \/ MfaConfirmCommit(r) \/ MfaDisableCommit(r) \/ UNCHANGED secret
          /\ MfaConfirmCommit(r) \/ MfaDisableCommit(r) \/ UNCHANGED mfaOn
      BY <1>2, WhoWrites
    <3>a. secret'[u] = secret[u]
      BY <1>0, <2>7, <3>0 DEF MfaStore, MfaConfirmCommit, MfaDisableCommit
    <3>b. u \in mfaOn' <=> u \in mfaOn
      <4>1. CASE MfaConfirmCommit(r)
        <5>1. mfaOn' = mfaOn \cup {body[r].user}
          BY <4>1 DEF MfaConfirmCommit
        <5> QED
          BY <2>7, <5>1
      <4>2. CASE MfaDisableCommit(r)
        <5>1. mfaOn' = mfaOn \ {body[r].user}
          BY <4>2 DEF MfaDisableCommit
        <5> QED
          BY <2>7, <5>1
      <4> QED
        BY <3>0, <4>1, <4>2
    <3>1. (u \in mfaOn' <=> u \in mfaOn) /\ secret'[u] = secret[u]
      BY <3>a, <3>b
    <3>2. CASE u \in mfaOn
      <4>1. PICK q \in Requests : backup[q].of = secret[u].id
        BY <2>2, <3>2
      <4>2. secret[u].id # None
        BY <2>2, <3>2 DEF SecretsOK
      <4>3. backup'[q].of = secret[u].id
        BY <1>2, <2>7, <4>1, <4>2, CodesOfOthers
      <4> QED
        BY <2>2, <3>1, <4>3
    <3>3. CASE u \notin mfaOn
      BY <2>2, <3>1, <3>3
    <3> QED
      BY <3>2, <3>3
  <2> QED
    BY <2>3, <2>4, <2>5, <2>6, <2>7
<1> QED
  BY <1>1, <1>2, StepCases

-----------------------------------------------------------------------------
(* The invariant.                                                          *)

LEMMA InitTypes ==
    ASSUME Init
    PROVE  AccountsTypeOK
<1>1. /\ sessions \in [Tokens -> SessionType]
      /\ secret \in [Users -> SecretType] /\ backup \in [Requests -> BackupType]
      /\ document \in [Users -> DocumentType] /\ pin \in [Users -> PinType]
  <2>1. NoSession \in SessionType /\ NoSecret \in SecretType /\ NoBackup \in BackupType
        /\ NoDocument \in DocumentType /\ NoPin \in PinType
    BY DEF NoSession, SessionType, NoSecret, SecretType, NoBackup, BackupType, NoDocument,
           DocumentType, NoPin, PinType
  <2>2. \A s \in Registered : [status |-> "ACTIVE", user |-> s, token |-> s, device |-> None,
                               password |-> OpeningPassword] \in SessionType
    BY DEF SessionType, Tokens, AccountsAssumption
  <2> QED
    BY <2>1, <2>2 DEF Init
<1>2. codes \in Seq(CodeType) /\ mailed \subseteq DOMAIN codes
  BY DEF Init
<1>3. /\ wallets \in [Users -> SUBSET Currencies] /\ primary = wallets
      /\ tier \in [Users -> 0..2]
      /\ password \in [Users -> Passwords \cup {None}]
      /\ crossed \in [Users -> SUBSET {"mfa", "kyc"}]
  BY DEF Init, AccountsAssumption
<1>4. TypeOK
  BY <1>1, <1>2, <1>3 DEF Init, TypeOK, Labels
<1> QED
  BY <1>3, <1>4 DEF AccountsTypeOK

LEMMA InitInv ==
    ASSUME Init
    PROVE  AccountsInv
<1>1. AccountsTypeOK
  BY InitTypes
<1>2. Flow /\ BearersOK /\ CodesOK /\ TierKnown /\ CountersRead
  BY DEF Init, Flow, BearersOK, CodesOK, TierKnown, CountersRead
<1>3. SessionsOK
  <2> SUFFICES ASSUME NEW s \in Tokens
      PROVE  \/ sessions[s].status = "NONE" /\ sessions[s].user = None
             \/ sessions[s].status # "NONE" /\ SessionOK(s)
    BY DEF SessionsOK
  <2>1. CASE s \in Registered
    BY <2>1 DEF Init, SessionOK, Given, UserOf, SessionOf, Tokens, AccountsAssumption
  <2>2. CASE s \notin Registered
    BY <2>2 DEF Init, NoSession
  <2> QED
    BY <2>1, <2>2
<1>4. ActivatedByMail
  BY DEF Init, ActivatedByMail
<1>5. TierEarned
  BY DEF Init, TierEarned, AccountsAssumption
<1>6. SecondaryMade /\ Activations
  BY DEF Init, SecondaryMade, Activations, ActivatedBy, AccountsAssumption
<1>7. NoLockWithoutCause
  <2> SUFFICES ASSUME NEW u \in Users
      PROVE  /\ pin[u].attempts <= Cardinality(Misses(u))
             /\ pin[u].locked => Cardinality(Misses(u)) >= PinTries
    BY DEF NoLockWithoutCause
  <2>1. pin[u].attempts = 0 /\ pin[u].locked = FALSE
    BY DEF Init, NoPin
  <2>2. Misses(u) = {}
    BY DEF Init, Misses
  <2> QED
    BY <2>1, <2>2, FS_EmptySet
<1>8. KycSettled /\ SecretsOK /\ MfaAgrees
  BY DEF Init, KycSettled, Undecided, Decided, NoDocument, SecretsOK, MfaAgrees, NoSecret, NoBackup
<1> QED
  BY <1>1, <1>2, <1>3, <1>4, <1>5, <1>6, <1>7, <1>8 DEF AccountsInv

LEMMA StepInv ==
    ASSUME AccountsInv, [Next]_vars
    PROVE  AccountsInv'
<1>0. TypeOK /\ AccountsTypeOK /\ Flow
  BY DEF AccountsInv, AccountsTypeOK
<1>1. CASE Next
  <2>1. AccountsTypeOK' /\ Flow'
    BY <1>0, <1>1, TypeStep, FlowStep, PrimaryStep DEF AccountsTypeOK
  <2>2. SessionsOK' /\ BearersOK'
    BY <1>0, <1>1, SessionsStep, BearersStep DEF AccountsInv
  <2>3. CodesOK' /\ ActivatedByMail'
    BY <1>0, <1>1, CodesStep, ActivationStep DEF AccountsInv
  <2>4. TierKnown' /\ TierEarned'
    BY <1>0, <1>1, TierStep DEF AccountsInv
  <2>5. SecondaryMade' /\ Activations'
    BY <1>0, <1>1, SecondaryStep, ActivationsStep DEF AccountsInv
  <2>6. CountersRead' /\ NoLockWithoutCause'
    BY <1>0, <1>1, CountersStep DEF AccountsInv
  <2>7. KycSettled' /\ SecretsOK' /\ MfaAgrees'
    BY <1>0, <1>1, KycStep, SecretsStep, MfaStep DEF AccountsInv
  <2> QED
    BY <2>1, <2>2, <2>3, <2>4, <2>5, <2>6, <2>7 DEF AccountsInv
<1>2. CASE UNCHANGED vars
  <2> USE <1>2 DEF vars, people, otp, logins, mfa, funds, ghosts, marks, AccountsInv
  <2>1. AccountsTypeOK'
    BY <1>0 DEF AccountsTypeOK, TypeOK
  <2>2. Flow' /\ CodesOK' /\ ActivatedByMail'
    BY DEF Flow, Is, CodesOK, TriedByMail, OfCall, Purpose, ActivatedByMail
  <2>3. SessionsOK'
    BY DEF SessionsOK, SessionOK, SessionOf, UserOf, Given, Is
  <2>4. BearersOK'
    BY DEF BearersOK, SessionOf, UserOf, Given, Is, Live, Accepted
  <2>5. TierKnown' /\ TierEarned' /\ SecondaryMade' /\ Activations'
    BY DEF TierKnown, TierEarned, SecondaryMade, Activations, ActivatedBy, Is
  <2>6. CountersRead' /\ NoLockWithoutCause'
    BY DEF CountersRead, NoLockWithoutCause, Misses
  <2>7. KycSettled' /\ SecretsOK' /\ MfaAgrees'
    BY DEF KycSettled, Submitting, Undecided, Decided, Is, SecretsOK, MfaAgrees
  <2> QED
    BY <2>1, <2>2, <2>3, <2>4, <2>5, <2>6, <2>7
<1> QED
  BY <1>1, <1>2

-----------------------------------------------------------------------------
(* The theorems.                                                           *)

\* The invariant holds in every state: what each call has established when it
\* reaches an await of its handler, whatever the other calls do.
THEOREM AccountsInvariance == Spec => []AccountsInv
  BY InitInv, StepInv, PTL DEF Spec

\* Every table keeps its type, and a primary wallet is always a wallet, also when
\* wallets are created and chosen at once.
THEOREM AccountsTypeCorrect == Spec => []AccountsTypeOK
<1>1. AccountsInv => AccountsTypeOK
  BY DEF AccountsInv
<1> QED
  BY <1>1, AccountsInvariance, PTL

\* A logout that was answered has killed its token, however a refresh of the
\* same session runs beside it.
THEOREM LogoutIsFinal == Spec => []LogoutKillsToken
<1>1. AccountsInv => LogoutKillsToken
  BY DEF AccountsInv, BearersOK, LogoutKillsToken
<1> QED
  BY <1>1, AccountsInvariance, PTL

\* Revoked sessions stay revoked and given-up tokens dead, through refreshes,
\* resets and removed devices.
THEOREM RevocationIsFinal == Spec => RevokedForGood
<1> DEFINE Kept == /\ \A t \in Tokens : Live(t)' => Live(t) \/ ~ Given(t)
                   /\ \A s \in Tokens : sessions[s].status = "REVOKED" => sessions'[s].status # "ACTIVE"
<1>1. ASSUME AccountsInv, [Next]_vars PROVE [Kept]_vars
  <2>0. TypeOK /\ SessionsOK
    BY <1>1 DEF AccountsInv, AccountsTypeOK
  <2>1. CASE UNCHANGED vars
    BY <2>1
  <2>2. CASE \E u \in Users : PinLockExpires(u)
    BY <2>2 DEF PinLockExpires, Live, Accepted, logins
  <2>3. ASSUME NEW r \in Requests, Step(r) PROVE Kept
    <3>1. ASSUME NEW t \in Tokens, Given(t), ~ Live(t) PROVE ~ Live(t)'
      BY <2>0, <2>3, <3>1, LiveStep
    <3>2. ASSUME NEW s \in Tokens, sessions[s].status = "REVOKED" PROVE sessions'[s].status # "ACTIVE"
      <4>1. Given(s)
        BY <2>0, <3>2 DEF SessionsOK, SessionOK
      <4>2. s # r
        BY <2>0, <2>3, <4>1, GivenKept
      <4> QED
        BY <2>0, <2>3, <3>2, <4>2, SessionCases DEF NoSession
    <3> QED
      BY <3>1, <3>2
  <2> QED
    BY <1>1, <2>1, <2>2, <2>3, StepCases
<1> QED
  BY <1>1, AccountsInvariance, PTL DEF Spec, RevokedForGood

\* Who is active was mailed a code and tried it.
THEOREM ActivationIsMailed == Spec => []ActivatedByMail
<1>1. AccountsInv => ActivatedByMail
  BY DEF AccountsInv
<1> QED
  BY <1>1, AccountsInvariance, PTL

\* Neither the higher tier nor its currencies are reached without an approval.
THEOREM TiersAreEarned == Spec => []TierEarned
<1>1. AccountsInv => TierEarned
  BY DEF AccountsInv
<1> QED
  BY <1>1, AccountsInvariance, PTL

\* An active customer without a primary wallet was activated by verifications
\* each of which still runs, has stopped after the activation or has looked for
\* a wallet only after one was made; those active from the start, and those who
\* have chosen a primary wallet, always have one.
THEOREM PrimaryMissingIsCaused == Spec => []PrimaryMissingHasCause
<1>1. TypeOK /\ Activations => PrimaryMissingHasCause
  <2> SUFFICES ASSUME TypeOK, Activations, NEW u \in Users, status[u] = "ACTIVE", primary[u] = {}
      PROVE  /\ ActivatedBy(u) # {}
             /\ \A r \in ActivatedBy(u) : LeftWithout(r)
             /\ \A r \in Requests : Is(r, "WALLET_PRIMARY") /\ body[r].user = u => pc[r] # "answered"
    BY DEF PrimaryMissingHasCause
  <2>1. ActivatedBy(u) # {}
    BY DEF Activations
  <2>2. ASSUME NEW r \in ActivatedBy(u) PROVE LeftWithout(r)
    BY <2>2 DEF Activations, ActivatedBy, LeftWithout
  <2>3. \A r \in Requests : Is(r, "WALLET_PRIMARY") /\ body[r].user = u => pc[r] # "answered"
    BY DEF Activations
  <2> QED
    BY <2>1, <2>2, <2>3
<1>2. AccountsInv => PrimaryMissingHasCause
  BY <1>1 DEF AccountsInv, AccountsTypeOK
<1> QED
  BY <1>2, AccountsInvariance, PTL

\* No PIN is locked without as many wrong PINs as it takes, whatever the number
\* of overlapping calls that overwrite each other's count.
THEOREM LocksAreCaused == Spec => []NoLockWithoutCause
<1>1. AccountsInv => NoLockWithoutCause
  BY DEF AccountsInv
<1> QED
  BY <1>1, AccountsInvariance, PTL

\* Status and document of a customer agree unless a decision or a submission has
\* overtaken another, or a submission is half written.
THEOREM ReviewsSettle == Spec => []KycSettled
<1>1. AccountsInv => KycSettled
  BY DEF AccountsInv
<1> QED
  BY <1>1, AccountsInvariance, PTL

\* The flag, the secret and the backup codes of a customer agree unless an
\* enrolment has begun again after its confirmation.
THEOREM FactorsAgree == Spec => []MfaAgrees
<1>1. AccountsInv => MfaAgrees
  BY DEF AccountsInv
<1> QED
  BY <1>1, AccountsInvariance, PTL
=============================================================================
