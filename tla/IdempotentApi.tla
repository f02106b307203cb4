---------------------------- MODULE IdempotentApi ----------------------------
(***************************************************************************)
(* What an idempotency key promises, without wallets or transactions: of   *)
(* the calls that carry one key at most one has an effect, and every call  *)
(* with the key that is answered is answered with that effect.             *)
(***************************************************************************)
CONSTANTS Calls, Keys, None

VARIABLES
    ask,       \* per call: its key, or None
    done,      \* the calls that had an effect
    bound,     \* per key: the call it is bound to
    reply      \* per call: the call whose effect it was answered with

vars == <<ask, done, bound, reply>>

Init ==
    /\ ask \in [Calls -> Keys \cup {None}]
    /\ done = {}
    /\ bound = [k \in Keys |-> None]
    /\ reply = [c \in Calls |-> None]

\* The effect of a call and the binding of its key are one step.
Perform(c) ==
    /\ c \notin done
    /\ IF ask[c] = None
       THEN UNCHANGED bound
       ELSE /\ bound[ask[c]] = None
            /\ bound' = [bound EXCEPT ![ask[c]] = c]
    /\ done' = done \cup {c}
    /\ UNCHANGED <<ask, reply>>

\* The key is taken by a call that the promise does not cover.
Take(c) ==
    /\ ask[c] # None
    /\ bound[ask[c]] = None
    /\ bound' = [bound EXCEPT ![ask[c]] = c]
    /\ UNCHANGED <<ask, done, reply>>

\* A call is answered with its own effect, or with the one its key is bound to.
Reply(c) ==
    /\ reply[c] = None
    /\ \E e \in done :
         /\ e = c \/ (ask[c] # None /\ bound[ask[c]] = e)
         /\ reply' = [reply EXCEPT ![c] = e]
    /\ UNCHANGED <<ask, done, bound>>

Next == \E c \in Calls : Perform(c) \/ Take(c) \/ Reply(c)

Spec == Init /\ [][Next]_vars
=============================================================================
