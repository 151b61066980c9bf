------------------------------- MODULE DueMap -------------------------------
(***************************************************************************)
(* What the users of a timeslot and of the schedule table rely on: keys    *)
(* with a due time each, from which the earliest that is due is taken.     *)
(***************************************************************************)
EXTENDS Naturals

CONSTANTS Key, Time, NoKey

VARIABLES
    due,     \* a function from the present keys to their due times
    answer   \* the time last asked about and the key taken, or NoKey

IsDue(k, now) == k \in DOMAIN due /\ due[k] <= now

Without(k) == [j \in DOMAIN due \ {k} |-> due[j]]

Init ==
    /\ due = [k \in {} |-> 0]
    /\ answer = <<0, NoKey>>

(* k is due at t, whatever it was before. *)
Set(k, t) ==
    /\ due' = [j \in DOMAIN due \cup {k} |-> IF j = k THEN t ELSE due[j]]
    /\ UNCHANGED answer

Drop(k) ==
    /\ k \in DOMAIN due
    /\ due' = Without(k)
    /\ UNCHANGED answer

(* Take a key that is due and that no other key is due before. *)
Take(k, now) ==
    /\ IsDue(k, now)
    /\ \A j \in DOMAIN due : due[k] <= due[j]
    /\ due' = Without(k)
    /\ answer' = <<now, k>>

(* Nothing is taken only if nothing is due. *)
TakeNothing(now) ==
    /\ \A k \in Key : ~IsDue(k, now)
    /\ answer' = <<now, NoKey>>
    /\ UNCHANGED due

Next ==
    \/ \E k \in Key, t \in Time : Set(k, t) \/ Take(k, t)
    \/ \E k \in Key : Drop(k)
    \/ \E t \in Time : TakeNothing(t)

Spec == Init /\ [][Next]_<<due, answer>>
=============================================================================
