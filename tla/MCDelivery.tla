----------------------------- MODULE MCDelivery -----------------------------
(***************************************************************************)
(* An instance of Delivery for TLC: a transfer between two users or two    *)
(* wallets of one, whose preferences change under way, and an event or a   *)
(* code of its own.                                                        *)
(***************************************************************************)
EXTENDS Delivery

CONSTANTS alice, bob, e1, e2

Plain == [channels |-> <<"IN_APP">>, muted |-> {}, digest |-> FALSE,
          quiet |-> FALSE, from |-> 0, to |-> 0]

\* Quiet over midnight.
Nights == [Plain EXCEPT !.channels = <<"PUSH", "IN_APP">>, !.quiet = TRUE, !.from = 2, !.to = 1]

\* Quiet at noon, no mails of budgets, nothing about transfers sent.
Picky == [Plain EXCEPT !.channels = <<"EMAIL", "PUSH">>, !.muted = {"PAYMENT_CONFIRMATION"},
                       !.digest = TRUE, !.quiet = TRUE, !.from = 1, !.to = 2]

MCSettings == {Plain, Nights, Picky}

About(kind, s, r) == [kind |-> kind, sender |-> s, receiver |-> r]

Transfer == About("P2P_TRANSFER", alice, bob)
Own      == About("P2P_TRANSFER", bob, bob)
Nobody   == About("DEPOSIT", None, None)
Budget   == About("BUDGET", None, bob)
Code     == About("OTP", None, alice)

MCContents == {Transfer, Own, Nobody, Budget, Code}

\* One user changes the settings everybody starts with, once, while an event is
\* under way.
OneChanges ==
    prefs' # prefs => /\ \A u \in Users : prefs[u] = Plain
                      /\ \E e \in Events : pc[e] \in {"read", "add"}

MCInit ==
    /\ Init
    /\ <<content[e1], content[e2]>> \in {<<Transfer, Nobody>>, <<Own, Nobody>>, <<Budget, Code>>}
    /\ \E u \in Users : \A v \in Users \ {u} : prefs[v] = Plain
MCSpec == MCInit /\ [][Next /\ OneChanges]_vars /\ Fairness

-----------------------------------------------------------------------------
(* What the repository says of its mails and a run refutes.                *)

\* README.md: "Notifications: Email (Nodemailer) + In-App (WebSocket) + Push".
\* A notification whose row says SENT by EMAIL, and whose mail job the email
\* worker has completed, was handed to the mail server.
SentMeansMailed ==
    \A row \in BagToSet(rows), i \in DOMAIN jobs :
        /\ row.status = "SENT" /\ jobs[row.job].kind = "EMAIL"
        /\ jobs[i].kind = "MAIL" /\ jobs[i].origin = row.job /\ jobs[i].state = "completed"
        => i \in mailed
=============================================================================
