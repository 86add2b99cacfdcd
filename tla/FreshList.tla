------------------------------- MODULE FreshList -------------------------------
(***************************************************************************)
(* What a refreshed proxy pool promises the callers of Next, whatever      *)
(* goroutines stand behind it: each of them gets an entry of a list that   *)
(* was being served during its call, lists are replaced by more recent     *)
(* ones only, and none is replaced after the pool has stopped.  An entry   *)
(* is the version of the credentials in it.                                *)
(***************************************************************************)
EXTENDS Integers, Sequences

CONSTANT Clients    \* callers of Next

VARIABLES
    served,    \* the list
    account,   \* the version of the credentials that the account has
    stopped,   \* the Close that found the pool open has returned
    holding,   \* the list each caller has taken, if it is inside Next
    answer     \* what each caller got last

freshVars == <<served, account, stopped, holding, answer>>

FreshInit ==
    /\ served = <<0>> /\ account = 0
    /\ stopped = FALSE
    /\ holding = [c \in Clients |-> << >>]
    /\ answer = [c \in Clients |-> 0]

Rotate ==
    /\ account' = account + 1
    /\ UNCHANGED <<served, stopped, holding, answer>>

\* Every entry of the new list lies between all of the old list and the account.
Replace ==
    /\ ~stopped
    /\ served' \in Seq(Nat) \ {<< >>}
    /\ \A j \in DOMAIN served' :
          served'[j] <= account /\ \A i \in DOMAIN served : served[i] <= served'[j]
    /\ UNCHANGED <<account, stopped, holding, answer>>

Stop ==
    /\ stopped' = TRUE
    /\ UNCHANGED <<served, account, holding, answer>>

Take(c) ==
    /\ holding[c] = << >>
    /\ holding' = [holding EXCEPT ![c] = served]
    /\ UNCHANGED <<served, account, stopped, answer>>

Give(c) ==
    /\ \E i \in DOMAIN holding[c] : answer' = [answer EXCEPT ![c] = holding[c][i]]
    /\ holding' = [holding EXCEPT ![c] = << >>]
    /\ UNCHANGED <<served, account, stopped>>

FreshNext == Rotate \/ Replace \/ Stop \/ \E c \in Clients : Take(c) \/ Give(c)

FreshSpec == FreshInit /\ [][FreshNext]_freshVars
===============================================================================
