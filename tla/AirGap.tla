------------------------------- MODULE AirGap -------------------------------
(***************************************************************************)
(* What carrying a capsule across an air gap promises, with no packets, no *)
(* directories and no hashes: the receiving side holds nothing, a file     *)
(* that was cut off while it was being written, or one capsule that was    *)
(* really sealed.  A delivery first commits to one sealed capsule; only    *)
(* then may the file that was there before be given up.                    *)
(***************************************************************************)

CONSTANTS
    Capsule,   \* the capsules that can be packed
    Absent,    \* there is no output file, or no delivery is under way
    Torn       \* the output file was truncated and not yet written again

VARIABLES
    sealed,    \* the capsules packed so far
    pending,   \* the capsule whose delivery is under way, or Absent
    received   \* the output file

vars == <<sealed, pending, received>>

Init ==
    /\ sealed = {}
    /\ pending = Absent
    /\ received = Absent

Seal(c) ==
    /\ sealed' = sealed \union {c}
    /\ UNCHANGED <<pending, received>>

Begin(c) ==
    /\ pending = Absent
    /\ c \in sealed
    /\ pending' = c
    /\ received' = Torn
    /\ UNCHANGED sealed

Deliver ==
    /\ pending # Absent
    /\ received' = pending
    /\ pending' = Absent
    /\ UNCHANGED sealed

Abandon ==
    /\ pending # Absent
    /\ pending' = Absent
    /\ UNCHANGED <<sealed, received>>

Next ==
    \/ \E c \in Capsule : Seal(c) \/ Begin(c)
    \/ Deliver
    \/ Abandon

Spec == Init /\ [][Next]_vars
=============================================================================
