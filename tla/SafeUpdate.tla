----------------------------- MODULE SafeUpdate -----------------------------
(***************************************************************************)
(* What the firmware update service promises to the owner of the pedal.    *)
(* A job that is accepted may write the pedal's flash, in as many steps as *)
(* it needs and with any damage in between; what it finally reports of the *)
(* flash is true.  A job that was interrupted is unresolved, and while any *)
(* job is open or unresolved no other one is accepted.                     *)
(***************************************************************************)
CONSTANTS Jobs,       \* the update jobs
          Images,     \* what the flash can hold
          Target      \* the image each job installs

VARIABLES image,      \* what the flash holds
          base,       \* what it held when each job was accepted
          verdict     \* what each job reports

promised == <<image, base, verdict>>

Verdicts == {"none", "open", "unresolved", "done", "restored", "untouched"}

Pending(j) == verdict[j] \in {"open", "unresolved"}

Init == /\ image \in Images
        /\ base = [j \in Jobs |-> image]
        /\ verdict = [j \in Jobs |-> "none"]

Accept(j) == /\ verdict[j] = "none"
             /\ \A k \in Jobs : ~Pending(k)
             /\ \E v \in {"open", "unresolved"} : verdict' = [verdict EXCEPT ![j] = v]
             /\ base' = [base EXCEPT ![j] = image]
             /\ UNCHANGED image

Write(j) == /\ verdict[j] = "open"
            /\ image' \in Images
            /\ UNCHANGED <<base, verdict>>

Interrupt(j) == /\ verdict[j] = "open"
                /\ verdict' = [verdict EXCEPT ![j] = "unresolved"]
                /\ UNCHANGED <<image, base>>

(* A job ends with a report that is true of the flash.  An unresolved job *)
(* may still end so: its report was saved after all, or the original was  *)
(* found untouched.                                                       *)
Conclude(j) == /\ Pending(j)
               /\ \/ /\ image = Target[j]
                     /\ verdict' = [verdict EXCEPT ![j] = "done"]
                  \/ /\ image = base[j]
                     /\ \E v \in {"restored", "untouched"} :
                           verdict' = [verdict EXCEPT ![j] = v]
               /\ UNCHANGED <<image, base>>

Next == \E j \in Jobs : Accept(j) \/ Write(j) \/ Interrupt(j) \/ Conclude(j)

Spec == Init /\ [][Next]_promised
=============================================================================
