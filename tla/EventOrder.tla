----------------------------- MODULE EventOrder ------------------------------
(***************************************************************************)
(* What the game may rely on: the events of the pad take effect one by one,  *)
(* in the order they happened, each exactly once.                            *)
(***************************************************************************)
EXTENDS Sequences

CONSTANTS
    Event,              \* the events a pad can produce
    Effect(_, _)        \* Effect(e, keys): the keys after e

VARIABLES
    waiting,    \* events that happened and did not take effect yet
    keys

orderVars == <<waiting, keys>>

OrderInit == waiting = <<>> /\ keys = {}

Happen(e) == waiting' = Append(waiting, e) /\ UNCHANGED keys

TakeEffect ==
    /\ waiting # <<>>
    /\ keys' = Effect(Head(waiting), keys)
    /\ waiting' = Tail(waiting)

OrderNext == TakeEffect \/ \E e \in Event : Happen(e)

OrderSpec == OrderInit /\ [][OrderNext]_orderVars /\ WF_orderVars(TakeEffect)

=============================================================================
