----------------------------- MODULE TaskStore -----------------------------
(***************************************************************************)
(* The shared task store: one Redis hash per task key, reduced to the one  *)
(* field every decision of the program reads, "status".  Each operator is  *)
(* one atomic step of Redis (a MULTI/EXEC pipeline, a Lua script), so each *)
(* is one step of whoever calls it.                                        *)
(*                                                                         *)
(* The fields "content" and "last_modifier" are left out: a key names one  *)
(* command, and no code path compares the modifier (the script overwrites  *)
(* it, even when a worker releases or finishes a claim it does not hold).  *)
(***************************************************************************)
EXTENDS Integers

CONSTANTS
  Keys,      (* The task keys, project key plus command id.                 *)
  Expiring   (* The statuses under which a record can outlive its TTL.      *)

VARIABLE store

Status == {"unclaimed", "claimed", "done"}

(* What HGET of the field "status" finds when the key does not exist.       *)
Absent == "absent"

ASSUME ExpiringAssumption == Expiring \subseteq Status

StoreTypeOK == store \in [Keys -> Status \cup {Absent}]

StoreInit == store = [k \in Keys |-> Absent]

(* The pipeline that (re)creates a record: HSET then EXPIRE.  It does not   *)
(* look at the record it may be overwriting.                                *)
HSetWithTTL(k) == store' = [store EXCEPT ![k] = "unclaimed"]

(* Mutant: the script sets the status without comparing it.                *)
ClaimCodeUncompared(k, expected) == IF store[k] = Absent THEN -1 ELSE 0

(* The return code of the claim script.  Code 2 (a status argument that is  *)
(* no status) never reaches Redis: the Go wrapper refuses such a call.      *)
ClaimCode(k, expected) ==
  CASE store[k] = Absent   -> -1
    [] store[k] = expected -> 0
    [] OTHER               -> 1

(* The effect of the claim script: compare-and-set on the status.           *)
ClaimCmd(k, expected, new) ==
  store' = IF ClaimCode(k, expected) = 0 THEN [store EXCEPT ![k] = new] ELSE store

(* The TTL of the record runs out.                                          *)
Expire(k) ==
  /\ store[k] \in Expiring
  /\ store' = [store EXCEPT ![k] = Absent]
=============================================================================
