----------------------------- MODULE Allocation -----------------------------
(***************************************************************************)
(* What the distribution of a pool's replicas promises, without saying how *)
(* it is computed: a stock is handed out to claimants in strict priority.  *)
(* Claims come in four classes (floors, declared shares, free capacity,    *)
(* overflow) and within a class in list order; a claim names the size up   *)
(* to which its group may grow on its account.  Nothing is handed out on a *)
(* claim while an earlier one is unsatisfied, nothing is taken back, and   *)
(* the allocation settles only with an empty stock or no claim left.       *)
(*                                                                         *)
(* Groups that have never been sized may take any part of their claim to   *)
(* free capacity, or none.                                                 *)
(***************************************************************************)
EXTENDS Integers

CONSTANT N      \* how many groups there are

VARIABLES
    claim,      \* per class and group: the size claimed
    unsized,    \* groups whose free capacity is not known
    held,       \* what each group has been given
    stock,      \* what is left
    settled     \* the allocation is final

allocation == <<claim, unsized, held, stock, settled>>

Claimant == 1 .. N
Class    == 1 .. 4
Free     == 3

\* Claims are in the order of their class, then of the list.
Before(d, j, c, k) == d < c \/ (d = c /\ j < k)

Satisfied(c, k) == held[k] >= claim[c][k] \/ (c = Free /\ k \in unsized)

AllocationInit ==
    /\ stock \in Nat
    /\ held = [k \in Claimant |-> 0]
    /\ settled = FALSE

\* Some of the stock is given to group k on its claim of class c.
Grant(c, k, n) ==
    /\ ~settled
    /\ n <= stock /\ held[k] + n <= claim[c][k]
    /\ \A d \in Class, j \in Claimant : Before(d, j, c, k) => Satisfied(d, j)
    /\ held' = [held EXCEPT ![k] = held[k] + n]
    /\ stock' = stock - n
    /\ UNCHANGED <<claim, unsized, settled>>

Settle ==
    /\ ~settled
    /\ stock = 0 \/ \A c \in Class, k \in Claimant : Satisfied(c, k)
    /\ settled' = TRUE
    /\ UNCHANGED <<claim, unsized, held, stock>>

AllocationNext ==
    \/ \E c \in Class, k \in Claimant : \E n \in 1 .. stock : Grant(c, k, n)
    \/ Settle

AllocationSpec == AllocationInit /\ [][AllocationNext]_allocation

=============================================================================
