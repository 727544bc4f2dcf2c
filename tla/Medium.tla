------------------------------- MODULE Medium -------------------------------
(***************************************************************************)
(* What the disk path below the file system promises the file system: a    *)
(* set of records with a last write each, of which a power cut may leave   *)
(* an older one -- but only a value written since the last acknowledged    *)
(* directory write or the last flush that reported no error.               *)
(***************************************************************************)
CONSTANTS Recs, Vals,
          Shared(_)      \* the records that share a record's sector
VARIABLES store,         \* [Recs -> Vals]  what a read answers now
          maybe,         \* [Recs -> SUBSET Vals]  what a power cut may leave
          answer         \* the last call's answer to its caller

Ok      == <<0>>
Refused == <<1>>

Init == /\ store \in [Recs -> Vals]
        /\ maybe = [r \in Recs |-> {store[r]}]
        /\ answer = Ok

Reading(r) == answer' = <<0, store[r]>> /\ UNCHANGED <<maybe, store>>

(* A write answers that it is done, or that it is not: then the record may  *)
(* read either way.                                                         *)
Taken(r, v) == \/ store' = [store EXCEPT ![r] = v]
               \/ answer' = Refused /\ UNCHANGED store
Writing(r, v) == /\ maybe' = [maybe EXCEPT ![r] = @ \cup {v}]
                 /\ answer' \in {Ok, Refused}
                 /\ Taken(r, v)

(* A directory write that answers that it is done is on the medium.         *)
WritingThrough(r, v) == /\ answer' = Ok
                        /\ maybe' = [maybe EXCEPT ![r] = {v}]
                        /\ Taken(r, v)

(* The first write to a new block may clear the rest of its sector, in      *)
(* which no file has data.                                                  *)
WritingFresh(r, v, zero) ==
  /\ maybe' = [q \in Recs |-> maybe[q] \cup (IF q = r THEN {v} ELSE IF q \in Shared(r) THEN {zero} ELSE {})]
  /\ answer' \in {Ok, Refused}
  /\ \/ Taken(r, v)
     \/ store' = [q \in Recs |-> IF q = r THEN v ELSE IF q \in Shared(r) THEN zero ELSE store[q]]

(* A flush that answers that it is done has put everything on the medium.   *)
Flushing == /\ answer' = Ok
            /\ maybe' = [r \in Recs |-> {store[r]}]
            /\ UNCHANGED store

(* Without power a record is one of what it may be.                         *)
Losing == /\ answer' = Ok
          /\ \A r \in Recs : store'[r] \in maybe[r]
          /\ maybe' = [r \in Recs |-> {store'[r]}]

Failing == answer' = Refused /\ UNCHANGED <<maybe, store>>

Next == \/ Losing \/ Failing
        \/ Flushing
        \/ \E r \in Recs : Reading(r)
        \/ \E r \in Recs, v \in Vals : Writing(r, v) \/ WritingThrough(r, v)
        \/ \E r \in Recs, v, z \in Vals : WritingFresh(r, v, z)
Spec == Init /\ [][Next]_<<store, maybe, answer>>
=============================================================================
