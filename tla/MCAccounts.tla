----------------------------- MODULE MCAccounts -----------------------------
(***************************************************************************)
(* An instance of Accounts for TLC: one customer with a session from the   *)
(* start and one who is new, and menus of calls, one for each part of the  *)
(* account, of which a behaviour uses one.                                 *)
(***************************************************************************)
EXTENDS Accounts, TLC

CONSTANTS old, new, phone, RWF, USD, p1, p2, doc1, doc2, r1, r2, r3, r4

MCUsers    == {old, new}
Others     == {r2, r3, r4}
MCRequests == {r1} \cup Others
MCAllowed  == (0 :> {RWF}) @@ (1 :> {RWF}) @@ (2 :> {RWF, USD})

Blank == [kind |-> "LOGIN", user |-> old, token |-> None, password |-> None,
          device |-> None, currency |-> None, content |-> None, ref |-> None, right |-> TRUE]

Signed(kind, t) == [Blank EXCEPT !.kind = kind, !.token = t]

\* Sign up, with codes retried and asked for again, and a customer who signs in
\* and makes a wallet as soon as it can.
Register == [Blank EXCEPT !.kind = "REGISTER", !.user = new, !.password = p1]

SignUp ==
    {Register,
     [Blank EXCEPT !.kind = "VERIFY_EMAIL", !.user = new],
     [Blank EXCEPT !.kind = "FORGOT_PASSWORD", !.user = new],
     [Blank EXCEPT !.user = new, !.password = p1, !.device = phone]}
    \cup {[Signed("WALLET_CREATE", q) EXCEPT !.user = new, !.currency = RWF] : q \in Others}

LoginWith(p) == [Blank EXCEPT !.password = p, !.device = phone]
WithToken(kind) == {Signed(kind, t) : t \in {old} \cup Requests}

\* Sessions opened, rotated, left and removed with their device.
SessionCalls ==
    {LoginWith(p1), [Signed("DEVICE_REMOVE", old) EXCEPT !.device = phone]}
    \cup WithToken("REFRESH") \cup WithToken("LOGOUT")

\* Passwords reset while logins and refreshes go on.
ResetCalls ==
    {LoginWith(p1), LoginWith(p2), Signed("REFRESH", old),
     [Blank EXCEPT !.kind = "FORGOT_PASSWORD"],
     [Blank EXCEPT !.kind = "RESET_PASSWORD", !.password = p2]}

\* Devices claimed and trusted.
DeviceCalls ==
    {LoginWith(p1)}
    \cup {[Signed(kind, old) EXCEPT !.device = phone] :
             kind \in {"DEVICE_REGISTER", "DEVICE_TRUST", "DEVICE_REMOVE"}}

\* Enrolment by the second factor's own calls, and logins with it.
FactorCalls ==
    {Signed("MFA_ENABLE", old)}
    \cup {[Signed(kind, old) EXCEPT !.ref = q] :
             kind \in {"MFA_CONFIRM", "MFA_DISABLE"}, q \in Requests}
    \cup {[LoginWith(p1) EXCEPT !.ref = q] : q \in Requests}

\* Documents sent in, sent in again and decided, and a wallet of tier 2.
ReviewCalls ==
    {[Signed("KYC_SUBMIT", old) EXCEPT !.content = c] : c \in {doc1, doc2}}
    \cup {[Blank EXCEPT !.kind = kind] : kind \in ReviewKinds}
    \cup {[Signed(kind, old) EXCEPT !.currency = USD] :
             kind \in {"WALLET_CREATE", "WALLET_PRIMARY"}}

\* PINs tried, changed and used at once.
PinCalls ==
    {Signed("PIN_SET", old)}
    \cup {[Signed(kind, old) EXCEPT !.right = b] :
             kind \in {"PIN_CHANGE", "PIN_VERIFY", "PIN_WITHDRAW", "PIN_TRANSFER"}, b \in BOOLEAN}

\* What the first call asks, and what each of the others may.
Menus ==
    {[first |-> {Register},                       rest |-> SignUp],
     [first |-> {LoginWith(p1)},                  rest |-> SessionCalls],
     [first |-> {[Blank EXCEPT !.kind = "FORGOT_PASSWORD"]}, rest |-> ResetCalls],
     [first |-> {LoginWith(p1)},                  rest |-> DeviceCalls],
     [first |-> {Signed("MFA_ENABLE", old)},      rest |-> FactorCalls],
     [first |-> ReviewCalls,                      rest |-> ReviewCalls],
     [first |-> {Signed("PIN_SET", old)},         rest |-> PinCalls]}

MCBodies == UNION {menu.first \cup menu.rest : menu \in Menus}

MCInit ==
    /\ Init
    /\ \E menu \in Menus : /\ body[r1] \in menu.first
                            /\ \A r \in Others : body[r] \in menu.rest
MCSpec == MCInit /\ [][Next]_vars

RequestSymmetry == Permutations(Others)
=============================================================================
