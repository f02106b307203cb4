---------------------------- MODULE AdminFinance ----------------------------
(***************************************************************************)
(* The back-office operations of AdminFinanceService on wallets and        *)
(* transactions: freezeWallet, unfreezeWallet, reverseTransaction and      *)
(* flagTransaction.  Each reads one row, checks its status, and then       *)
(* writes it in a batch of statements ($transaction([...])) that is atomic *)
(* but checks nothing again.                                               *)
(***************************************************************************)
EXTENDS Wallet

VARIABLE fraudFlags     \* per transaction: its FraudFlag rows

wallets == <<balance, available, ledger, keys, body, seen, answer>>

\* The check passed: go on to the write.
Checked(r, kind) ==
    /\ body[r].kind = kind
    /\ Goto(r, "idle", "commit")
    /\ UNCHANGED <<wallets, frozen, status, fraudFlags>>

\* The write of the batch; the response names no transaction.
Written(r, kind) ==
    /\ body[r].kind = kind
    /\ Goto(r, "commit", "answered")
    /\ UNCHANGED wallets

FreezeRead(r) ==
    /\ Checked(r, "FREEZE")
    /\ body[r].wallet \notin frozen

FreezeWrite(r) ==
    /\ Written(r, "FREEZE")
    /\ frozen' = frozen \cup {body[r].wallet}
    /\ UNCHANGED <<status, fraudFlags>>

UnfreezeRead(r) ==
    /\ Checked(r, "UNFREEZE")
    /\ body[r].wallet \in frozen

UnfreezeWrite(r) ==
    /\ Written(r, "UNFREEZE")
    /\ frozen' = frozen \ {body[r].wallet}
    /\ UNCHANGED <<status, fraudFlags>>

\* As Reversible, for any transaction that is not yet reversed.
ReversibleAny(t) == status[t] \notin {"NONE", "REVERSED"}

\* PROCESSING is reversible too, but no code sets it.
Reversible(t) == status[t] = "COMPLETED"

ReverseRead(r) ==
    /\ Checked(r, "REVERSE")
    /\ Reversible(body[r].target)

\* Only the status: balances and ledger are left to the finance team.
ReverseWrite(r) ==
    /\ Written(r, "REVERSE")
    /\ status' = [status EXCEPT ![body[r].target] = "REVERSED"]
    /\ UNCHANGED <<frozen, fraudFlags>>

FlagRead(r) ==
    /\ Checked(r, "FLAG")
    /\ status[body[r].target] \notin {"NONE", "REQUIRES_ACTION"}

\* As FlagStatus, with a status outside the enum.
FlagSuspicious(t) == status' = [status EXCEPT ![t] = "SUSPICIOUS"]

FlagStatus(t) == status' = [status EXCEPT ![t] = "REQUIRES_ACTION"]

FlagWrite(r) ==
    /\ Written(r, "FLAG")
    /\ FlagStatus(body[r].target)
    /\ fraudFlags' = [fraudFlags EXCEPT ![body[r].target] = @ + 1]
    /\ UNCHANGED frozen

AdminNext ==
    \E r \in Requests :
        \/ FreezeRead(r) \/ FreezeWrite(r)
        \/ UnfreezeRead(r) \/ UnfreezeWrite(r)
        \/ ReverseRead(r) \/ ReverseWrite(r)
        \/ FlagRead(r) \/ FlagWrite(r)
=============================================================================
