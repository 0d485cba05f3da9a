------------------------------ MODULE OnceLoader ------------------------------
(***************************************************************************)
(* What ChaiScript_Basic::use promises about each file: it is loaded by    *)
(* one caller at a time, a file that was loaded is not loaded again, one   *)
(* that failed may be tried again, and the states the host saves and       *)
(* restores are taken between loads.                                       *)
(***************************************************************************)
CONSTANT Names

VARIABLES
  file,   (* [Names -> {"absent", "loading", "loaded"}]                     *)
  saved   (* the files loaded when the host last saved the state            *)

Loaded == { f \in Names : file[f] = "loaded" }
Quiet == \A f \in Names : file[f] # "loading"

Init == file = [f \in Names |-> "absent"] /\ saved = {}

Begin(f) ==
  /\ file[f] = "absent"
  /\ file' = [file EXCEPT ![f] = "loading"]
  /\ UNCHANGED saved

Finish(f) ==
  /\ file[f] = "loading"
  /\ file' = [file EXCEPT ![f] = "loaded"]
  /\ UNCHANGED saved

Fail(f) ==
  /\ file[f] = "loading"
  /\ file' = [file EXCEPT ![f] = "absent"]
  /\ UNCHANGED saved

Save ==
  /\ Quiet
  /\ saved' = Loaded
  /\ UNCHANGED file

Restore ==
  /\ Quiet
  /\ file' = [f \in Names |-> IF f \in saved THEN "loaded" ELSE "absent"]
  /\ UNCHANGED saved

Next == Save \/ Restore \/ \E f \in Names : Begin(f) \/ Finish(f) \/ Fail(f)

Spec == Init /\ [][Next]_<<file, saved>>
===============================================================================
