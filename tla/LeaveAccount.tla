---------------------------- MODULE LeaveAccount ----------------------------
(***************************************************************************)
(* What a staff member may count on, whatever the ledger, the calendar, the *)
(* policies and the lazy opening of balances behind it: an account for each *)
(* period, and claims (the requests) that hold days of the accounts.  Only  *)
(* a claim moves the use of an account, by taking all its days at once or   *)
(* by giving back just those days; a limited account is never overdrawn.    *)
(* LeaveLedger implements this specification.                               *)
(***************************************************************************)
EXTENDS Integers

CONSTANTS Claim, Account

VARIABLES
    entitled,  \* what each account grants
    used,      \* what has been taken from it
    held,      \* what each claim holds of each account
    limited    \* accounts that may not be overdrawn

accountVars == <<entitled, used, held, limited>>

Nothing == [a \in Account |-> 0]
Covered == \A a \in limited : used[a] <= entitled[a]

(* The days used before there was a ledger belong to one claim at most. *)
Init ==
    /\ entitled \in [Account -> Nat]
    /\ held \in [Claim -> [Account -> Nat]]
    /\ \/ used = Nothing /\ \A c \in Claim : held[c] = Nothing
       \/ \E c \in Claim : used = held[c] /\ \A d \in Claim \ {c} : held[d] = Nothing
    /\ limited \subseteq Account
    /\ Covered

(* A limit is never set on an account after days were taken from it. *)
Limits ==
    /\ limited' \subseteq Account
    /\ \A a \in limited' \ limited : used[a] = 0
    /\ Covered'

(* A claim takes its days from every account it touches, or from none. *)
Hold(c) ==
    /\ held[c] = Nothing
    /\ held'[c] \in [Account -> Nat]
    /\ held' = [held EXCEPT ![c] = held'[c]]
    /\ used' = [a \in Account |-> used[a] + held'[c][a]]
    /\ entitled' \in [Account -> Nat]
    /\ \A a \in Account : entitled'[a] >= entitled[a]
    /\ Limits

(* It gives back what it holds, and nothing else changes with it. *)
Release(c) ==
    /\ held' = [held EXCEPT ![c] = Nothing]
    /\ used' = [a \in Account |-> used[a] - held[c][a]]
    /\ UNCHANGED <<entitled, limited>>

(* Credits, carried days and allocations touch neither use nor claims. *)
Grant ==
    /\ entitled' \in [Account -> Nat]
    /\ UNCHANGED <<used, held>>
    /\ Limits

Next == Grant \/ \E c \in Claim : Hold(c) \/ Release(c)
Spec == Init /\ [][Next]_accountVars
=============================================================================
